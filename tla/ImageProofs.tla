----------------------------- MODULE ImageProofs -----------------------------
(***************************************************************************)
(* Proofs about where images go: kaslr_base of zamak-core/src/rng.rs, for  *)
(* every range, size, alignment and random value whose rounding stays in   *)
(* the address space, and an ELF kernel's image.                           *)
(***************************************************************************)
EXTENDS KernelImage, SequenceTheorems, NaturalsInduction, WellFoundedInduction, TLAPS

(* Division by an alignment, in the form the proofs use. *)
LEMMA Division ==
  ASSUME NEW v \in Nat, NEW align \in Nat \ {0}
  PROVE  /\ v \div align \in Nat /\ v % align \in 0 .. align - 1
         /\ v = align * (v \div align) + (v % align)
PROOF
  OBVIOUS

LEMMA MultipleRemainder ==
  ASSUME NEW q \in Nat, NEW align \in Nat \ {0}
  PROVE  (align * q) % align = 0
PROOF
  OBVIOUS

(* align_down gives the multiple of the alignment just below. *)
LEMMA AlignDownIs ==
  ASSUME NEW v \in Nat, NEW align \in Nat \ {0}
  PROVE  /\ AlignDown(v, align) = align * (v \div align)
         /\ AlignDown(v, align) \in Nat
         /\ AlignDown(v, align) <= v /\ v < AlignDown(v, align) + align
PROOF
<1>1. /\ v \div align \in Nat /\ v % align \in 0 .. align - 1
      /\ v = align * (v \div align) + (v % align)
  BY Division
<1>2. align * (v \div align) \in Nat
  BY <1>1
<1> QED
  BY <1>1, <1>2 DEF AlignDown

LEMMA Product ==
  ASSUME NEW a \in Nat, NEW b \in Nat, NEW align \in Nat \ {0}
  PROVE  /\ align * a \in Nat
         /\ align * (a + b) = align * a + align * b
         /\ a <= b => align * a <= align * b
PROOF
  OBVIOUS

LEMMA ProductOrder ==
  ASSUME NEW a \in Nat, NEW b \in Nat, NEW align \in Nat \ {0}, align * a < align * b + align
  PROVE  a <= b
PROOF
<1> SUFFICES ASSUME a >= b + 1 PROVE FALSE
  OBVIOUS
<1>1. align * (b + 1) <= align * a
  BY Product
<1>2. align * (b + 1) = align * b + align
  OBVIOUS
<1> QED
  BY <1>1, <1>2, Product

LEMMA MultipleQuotient ==
  ASSUME NEW q \in Nat, NEW align \in Nat \ {0}
  PROVE  (align * q) \div align = q
PROOF
  OBVIOUS

(* align_up, where it does not wrap, gives the multiple just above. *)
LEMMA AlignUpIs ==
  ASSUME AddressEnd \in Nat, NEW v \in Nat, NEW align \in Nat \ {0}, v + align - 1 < AddressEnd
  PROVE  \E p \in Nat : /\ AlignUp(v, align) = align * p
                        /\ v <= align * p /\ align * p < v + align
PROOF
<1>1. v + align - 1 \in Nat /\ (v + align - 1) % AddressEnd = v + align - 1
  OBVIOUS
<1>2. AlignUp(v, align) = AlignDown(v + align - 1, align)
  BY <1>1 DEF AlignUp
<1> DEFINE w == v + align - 1
           p == w \div align
<1>3. p \in Nat /\ w \in Nat
  BY <1>1, Division
<1>4. AlignDown(w, align) = align * p /\ AlignDown(w, align) <= w /\ w < AlignDown(w, align) + align
      /\ AlignDown(w, align) \in Nat
  BY <1>3, AlignDownIs
<1>5. AlignUp(v, align) = align * p /\ align * p \in Nat /\ align * p <= w /\ w < align * p + align
  BY <1>2, <1>4
<1> HIDE DEF p
<1>6. v <= align * p /\ align * p < v + align
  BY <1>5
<1> QED
  BY <1>3, <1>5, <1>6

-----------------------------------------------------------------------------
(* kaslr_base's comment, for every range that does not end in the last     *)
(* alignment step of the address space: a base is aligned, lies in the     *)
(* range and leaves the kernel's size; None is returned only where no      *)
(* address of the range would do.                                          *)
THEOREM KaslrBaseRight ==
  ASSUME AddressEnd \in Nat,
         NEW min_addr \in Nat, NEW max_addr \in Nat, NEW kernel_size \in Nat,
         NEW align \in Nat \ {0}, NEW r \in Nat,
         min_addr + align - 1 < AddressEnd
  PROVE  KaslrRight(min_addr, max_addr, kernel_size, align, r)
PROOF
<1> DEFINE Good(x) == GoodBase(x, min_addr, max_addr, kernel_size, align)
           base == KaslrBase(min_addr, max_addr, kernel_size, align, r)
<1>1. CASE kernel_size > max_addr
  <2>1. base = NoBase
    BY <1>1 DEF KaslrBase
  <2>2. \A x \in 0 .. max_addr : ~Good(x)
    BY <1>1 DEF GoodBase
  <2> QED
    BY <2>1, <2>2 DEF KaslrRight
<1>2. CASE kernel_size <= max_addr
  <2> DEFINE room == max_addr - kernel_size
             q == room \div align
  <2>0. room \in Nat
    BY <1>2
  <2>1. PICK p \in Nat : /\ AlignUp(min_addr, align) = align * p
                         /\ min_addr <= align * p /\ align * p < min_addr + align
    BY AlignUpIs
  <2>2. /\ q \in Nat /\ AlignDown(room, align) = align * q
        /\ align * q <= room /\ room < align * q + align
    BY <2>0, AlignDownIs, Division
  <2>3. CASE align * p > align * q
    <3>1. base = NoBase
      BY <1>2, <2>1, <2>2, <2>3 DEF KaslrBase
    <3>2. ASSUME NEW x \in 0 .. max_addr, Good(x) PROVE FALSE
      <4> DEFINE t == x \div align
      <4>1. t \in Nat /\ x = align * t
        <5>1. x % align = 0
          BY <3>2 DEF GoodBase
        <5> QED
          BY <5>1, Division
      <4>2. min_addr <= align * t /\ align * t <= room
        BY <1>2, <3>2, <4>1 DEF GoodBase
      <4> HIDE DEF t, q, room
      <4>3. align * p \in Nat /\ align * q \in Nat /\ align * t \in Nat
        BY <2>1, <2>2, <4>1, Product
      <4>4. align * p < align * t + align /\ align * t < align * q + align
        BY <2>0, <2>1, <2>2, <4>2, <4>3
      <4>5. p <= t /\ t <= q
        BY <2>1, <2>2, <4>1, <4>4, ProductOrder
      <4>6. align * p <= align * t /\ align * t <= align * q
        BY <2>1, <2>2, <4>1, <4>5, Product
      <4> QED
        BY <2>3, <4>3, <4>6
    <3> QED
      BY <3>1, <3>2 DEF KaslrRight
  <2>4. CASE align * p <= align * q
    <3> HIDE DEF q, room
    <3>1. align * p \in Nat /\ align * q \in Nat /\ p <= q
      <4>1. align * p \in Nat /\ align * q \in Nat
        BY <2>1, <2>2, Product
      <4>2. align * p < align * q + align
        BY <2>4, <4>1
      <4> QED
        BY <2>1, <2>2, <4>1, <4>2, ProductOrder
    <3>2. q - p \in Nat /\ align * q - align * p = align * (q - p)
      <4>1. q - p \in Nat /\ q = p + (q - p)
        BY <2>1, <2>2, <3>1
      <4>2. align * (p + (q - p)) = align * p + align * (q - p) /\ align * (q - p) \in Nat
        BY <2>1, <4>1, Product
      <4> QED
        BY <3>1, <4>1, <4>2
    <3> DEFINE k == r % (q - p + 1)
    <3>3. k \in 0 .. q - p
      BY <3>2
    <3>4. (align * q - align * p) \div align + 1 = q - p + 1
      BY <3>2, MultipleQuotient
    <3>5. base = align * p + k * align
      <4>1. ~(kernel_size > max_addr) /\ ~(align * p > align * q)
        BY <1>2, <2>4, <3>1
      <4>2. base = IF kernel_size > max_addr \/ align * p > align * q THEN NoBase
                   ELSE align * p + (r % ((align * q - align * p) \div align + 1)) * align
        BY <2>1, <2>2, Zenon DEF KaslrBase, room
      <4> QED
        BY <3>4, <4>1, <4>2, Zenon
    <3> HIDE DEF k, base
    <3>6. k \in Nat /\ k * align = align * k /\ p + k \in Nat /\ p + k <= q
      BY <2>1, <2>2, <3>2, <3>3
    <3>7. base = align * (p + k) /\ base \in Nat
      BY <2>1, <3>5, <3>6, Product
    <3>8. base <= align * q
      BY <2>2, <3>6, <3>7, Product
    <3>9. base >= min_addr
      <4>1. align * k \in Nat
        BY <3>6, Product
      <4> QED
        BY <2>1, <3>1, <3>5, <3>6, <4>1
    <3>10. base % align = 0
      BY <3>6, <3>7, MultipleRemainder
    <3>11. base + kernel_size <= max_addr
      BY <2>0, <2>2, <3>1, <3>7, <3>8 DEF room
    <3>12. Good(base) /\ base # NoBase
      BY <3>7, <3>9, <3>10, <3>11 DEF GoodBase, NoBase
    <3> QED
      BY <3>12 DEF KaslrRight, base
  <2> QED
    BY <2>1, <2>2, <2>3, <2>4, Product
<1> QED
  BY <1>1, <1>2

-----------------------------------------------------------------------------
(***************************************************************************)
(* The kernel's image, for every kernel, every place of the image and      *)
(* every draw.                                                             *)
(***************************************************************************)
KiSpec == KiInit /\ [][KiNext]_ki

WordCells == {WordCell(value, k) : value \in Int, k \in Int}

CellSet == {ZeroCell, OtherCell} \cup {FileCell(k) : k \in Int} \cup WordCells

Memories == [0 .. MemLen - 1 -> CellSet]

Rngs ==
  [rand : BOOLEAN, source : {"rdseed", "rdrand", "rdtsc"}, failures : Nat, halves : {0, 1}, draws : Nat]

KiStates ==
  [pc : {"parse", "phdrs", "relas", "allocate", "copy", "random", "relocate", "done", "panicked"},
   leg : {"uefi", "legacy"}, binary : ElfKernels, segments : Seq(Phdrs), relocations : Seq(Relas),
   i : Nat \ {0}, rng : Rngs, entry : Nat, start : Nat, base : Nat \cup {NoBase}, size : Nat,
   mem : Memories]

(* The elements of a sequence, and those before place n. *)
All(seq) == {seq[j] : j \in DOMAIN seq}

Before(seq, n) == {seq[j] : j \in {m \in DOMAIN seq : m < n}}

Of(S, type) == {x \in S : x.type = type}

(* What has been read is what the file has, up to where the loops are. *)
ParseInv(k) ==
  /\ k.pc = "parse" => k.segments = <<>>
  /\ k.pc \in {"parse", "phdrs"} => k.relocations = <<>>
  /\ k.pc \in {"parse", "allocate"} => k.i = 1
  /\ k.pc = "phdrs" => All(k.segments) = Of(Before(k.binary.phdrs, k.i), "LOAD")
  /\ k.pc = "relas" => All(k.relocations) = Of(Before(k.binary.relas, k.i), "RELATIVE")
  /\ k.pc \notin {"parse", "phdrs", "panicked"} => All(k.segments) = LoadsOf(k.binary)
  /\ k.pc \notin {"parse", "phdrs", "relas", "panicked"} =>
       All(k.relocations) = Of(All(k.binary.relas), "RELATIVE")

EntryInv(k) ==
  /\ k.pc \in {"random", "relocate"} => k.binary.pie
  /\ k.pc \notin {"parse", "panicked"} =>
       k.entry = IF k.pc = "done" /\ k.binary.pie THEN (k.start + k.binary.entry) % AddressEnd
                 ELSE k.binary.entry
  /\ k.pc \in {"relocate", "done"} /\ k.binary.pie =>
       k.start \in ImageBase .. ImageBase + (Slots[k.leg] - 1) * SlotLen

(* Each instruction has its own share of the draws. *)
RngInv(k) ==
  LET rng == k.rng
      half == IF rng.halves = 0 THEN 0 ELSE Attempts
  IN  /\ rng.failures < Attempts /\ rng.draws <= 4 * Attempts
      /\ k.pc \notin {"relocate", "done"} =>
           /\ rng.source = "rdseed" => rng.draws <= half + rng.failures
           /\ rng.source = "rdrand" => rng.draws <= 2 * Attempts + half + rng.failures

(* The image's first address in the kernel's own numbering. *)
Origin(k) == IF k.leg = "legacy" \/ k.binary.pie THEN 0 ELSE k.start

PlaceInv(k) ==
  /\ k.leg = "legacy" => k.base \in Nat /\ k.size = k.binary.bytes /\ k.pc \notin {"allocate", "copy"}
  /\ k.leg = "uefi" /\ k.pc \in {"parse", "phdrs", "relas", "allocate"} => k.base = NoBase
  /\ k.pc \in {"copy", "random", "relocate", "done"} => k.base \in Nat
  /\ Linked(k.binary) /\ k.pc = "panicked" => k.base = NoBase
  /\ Linked(k.binary) /\ k.pc = "copy" => k.start = Origin(k)
  /\ k.base = NoBase => k.mem = Fresh

(* Cell v once the segments of S are copied, and a cell that was `cell`    *)
(* once the relocations of R are applied.                                  *)
BackedBy(v, s) == v \in s.vaddr .. s.vaddr + s.file - 1

WordOf(v, r) == v \in r.offset .. r.offset + WordLen - 1

ByteFrom(backed, v) ==
  IF backed # {} THEN LET s == CHOOSE s \in backed : TRUE IN FileCell(s.offset + v - s.vaddr)
  ELSE ZeroCell

Loaded(S, v) == ByteFrom({s \in S : BackedBy(v, s)}, v)

WordFrom(words, v, bias) ==
  LET r == CHOOSE r \in words : TRUE IN WordCell((bias + r.addend) % AddressEnd, v - r.offset)

WithWords(R, v, bias, cell) ==
  LET words == {r \in R : WordOf(v, r)}
  IN  IF words # {} THEN WordFrom(words, v, bias) ELSE cell

Plain(k, copied, a) ==
  IF k.leg = "legacy" THEN FileCell(a - k.base) ELSE Loaded(copied, Origin(k) + a - k.base)

(* The segments lie in the image; in it, memory is what the copied         *)
(* segments and the applied relocations make it, outside it untouched.     *)
InImage(k) ==
  \A s \in LoadsOf(k.binary) : Origin(k) <= s.vaddr /\ s.vaddr + s.mem <= Origin(k) + k.size

Holds(k, copied, patched) ==
  \A a \in 0 .. MemLen - 1 :
    k.mem[a] = IF a \in k.base .. k.base + k.size - 1
               THEN WithWords(patched, a - k.base, k.start, Plain(k, copied, a)) ELSE OtherCell

Copied(k) == IF k.pc = "copy" THEN Before(k.segments, k.i) ELSE All(k.segments)

Applied(k) ==
  IF k.pc = "relocate" THEN Before(k.relocations, k.i)
  ELSE IF k.pc = "done" /\ k.binary.pie THEN All(k.relocations) ELSE {}

MemInv(k) ==
  Linked(k.binary) /\ k.base # NoBase /\ (k.leg = "uefi" \/ Flat(k.binary)) =>
    InImage(k) /\ Holds(k, Copied(k), Applied(k))

KiInv ==
  ki \in KiStates /\ ParseInv(ki) /\ EntryInv(ki) /\ RngInv(ki) /\ PlaceInv(ki) /\ MemInv(ki)

-----------------------------------------------------------------------------
(* A set of numbers has a least one. *)
LEMMA LeastOf ==
  ASSUME NEW T, T \subseteq Nat, T # {}
  PROVE  LET x == CHOOSE i \in T : \A j \in T : i <= j IN x \in T /\ \A y \in T : x <= y
PROOF
<1> DEFINE R == OpToRel(<, Nat)
<1>1. IsWellFoundedOn(R, Nat)
  BY NatLessThanWellFounded
<1>2. \A x, y \in Nat : y < x => <<y, x>> \in R
  BY DEF OpToRel
<1> HIDE DEF R
<1>3. PICK x \in T : \A y \in T : ~(<<y, x>> \in R)
  BY <1>1, WFMin
<1>4. ASSUME NEW y \in T PROVE x <= y
  <2>1. x \in Nat /\ y \in Nat /\ ~(y < x)
    BY <1>2, <1>3, Zenon
  <2> QED
    BY <2>1
<1> QED
  BY <1>4

LEMMA KernelTyped ==
  ASSUME NEW b \in ElfKernels
  PROVE  /\ b.elf64 \in BOOLEAN /\ b.pie \in BOOLEAN /\ b.entry \in Nat /\ b.bytes \in Nat
         /\ b.phdrs \in Seq(Phdrs) /\ b.relas \in Seq(Relas)
PROOF
<1>1. b \in [elf64 : BOOLEAN, pie : BOOLEAN, entry : Nat, bytes : Nat, phdrs : Seq(Phdrs), relas : Seq(Relas)]
  BY KernelImageAssumption
<1>2. b.elf64 \in BOOLEAN /\ b.pie \in BOOLEAN
  BY <1>1, Zenon
<1>3. b.entry \in Nat /\ b.bytes \in Nat
  BY <1>1, Zenon
<1>4. b.phdrs \in Seq(Phdrs) /\ b.relas \in Seq(Relas)
  BY <1>1, Zenon
<1> QED
  BY <1>2, <1>3, <1>4

LEMMA PhdrTyped ==
  ASSUME NEW s \in Phdrs
  PROVE  s.vaddr \in Nat /\ s.mem \in Nat /\ s.file \in Nat /\ s.offset \in Nat
PROOF
  BY DEF Phdrs

LEMMA RelaTyped ==
  ASSUME NEW r \in Relas
  PROVE  r.offset \in Nat /\ r.addend \in Int
PROOF
  BY DEF Relas

(* The elements of a sequence, read from the front or appended to.         *)
LEMMA AllOf ==
  ASSUME NEW S, NEW seq \in Seq(S)
  PROVE  /\ All(seq) \subseteq S /\ All(<<>>) = {} /\ Before(seq, 1) = {}
         /\ \A n \in Nat : n > Len(seq) => Before(seq, n) = All(seq)
         /\ \A n \in 1..Len(seq) : seq[n] \in S /\ Before(seq, n + 1) = Before(seq, n) \cup {seq[n]}
         /\ \A x \in S : Append(seq, x) \in Seq(S) /\ All(Append(seq, x)) = All(seq) \cup {x}
PROOF
<1>1. DOMAIN seq = 1..Len(seq) /\ Len(seq) \in Nat /\ \A j \in 1..Len(seq) : seq[j] \in S
  OBVIOUS
<1>2. All(seq) \subseteq S
  BY <1>1 DEF All
<1>3. All(<<>>) = {}
  BY DEF All
<1>4. Before(seq, 1) = {}
  BY <1>1 DEF Before
<1>5. ASSUME NEW n \in Nat, n > Len(seq) PROVE Before(seq, n) = All(seq)
  <2>1. {m \in DOMAIN seq : m < n} = DOMAIN seq
    BY <1>1, <1>5
  <2> QED
    BY <2>1 DEF Before, All
<1>6. ASSUME NEW n \in 1..Len(seq)
      PROVE  seq[n] \in S /\ Before(seq, n + 1) = Before(seq, n) \cup {seq[n]}
  <2>1. {m \in DOMAIN seq : m < n + 1} = {m \in DOMAIN seq : m < n} \cup {n}
    BY <1>1
  <2> QED
    BY <1>1, <2>1, Zenon DEF Before
<1>7. ASSUME NEW x \in S PROVE Append(seq, x) \in Seq(S) /\ All(Append(seq, x)) = All(seq) \cup {x}
  <2>1. /\ Append(seq, x) \in Seq(S) /\ DOMAIN Append(seq, x) = (1..Len(seq)) \cup {Len(seq) + 1}
        /\ \A j \in 1..Len(seq) : Append(seq, x)[j] = seq[j]
        /\ Append(seq, x)[Len(seq) + 1] = x
    BY <1>1
  <2> QED
    BY <1>1, <2>1, Zenon DEF All
<1> QED
  BY <1>2, <1>3, <1>4, <1>5, <1>6, <1>7

LEMMA LoadsAndPatches ==
  ASSUME NEW b \in ElfKernels
  PROVE  /\ LoadsOf(b) = Of(All(b.phdrs), "LOAD") /\ LoadsOf(b) \subseteq Phdrs
         /\ b.pie => Patches(b) = Of(All(b.relas), "RELATIVE")
         /\ ~b.pie => Patches(b) = {}
         /\ Patches(b) \subseteq Relas
PROOF
<1>1. b.phdrs \in Seq(Phdrs) /\ b.relas \in Seq(Relas)
  BY KernelTyped
<1>2. All(b.phdrs) \subseteq Phdrs /\ All(b.relas) \subseteq Relas
  BY <1>1, AllOf
<1>3. LoadsOf(b) = Of(All(b.phdrs), "LOAD")
  BY Zenon DEF LoadsOf, Of, All
<1>4. b.pie => Patches(b) = Of(All(b.relas), "RELATIVE")
  BY Zenon DEF Patches, Of, All
<1>5. ~b.pie => Patches(b) = {}
  BY Zenon DEF Patches
<1>6. Patches(b) \subseteq All(b.relas)
  BY Zenon DEF Patches, All
<1> QED
  BY <1>2, <1>3, <1>4, <1>5, <1>6 DEF Of

-----------------------------------------------------------------------------
(* A sequence of numbers is bounded: there is no first place at which it   *)
(* stops being so.                                                         *)
LEMMA Bounded ==
  ASSUME NEW n \in Nat, NEW f, \A j \in 1..n : f[j] \in Nat
  PROVE  \E u \in Nat : \A j \in 1..n : f[j] <= u
PROOF
<1> DEFINE T == {m \in 0..n : ~\E u \in Nat : \A j \in 1..m : f[j] <= u}
<1> SUFFICES ASSUME T # {} PROVE FALSE
  <2>1. n \notin T
    OBVIOUS
  <2> QED
    BY <2>1
<1>1. PICK m \in T : \A y \in T : m <= y
  <2>1. T \subseteq Nat
    OBVIOUS
  <2> HIDE DEF T
  <2> QED
    BY <2>1, LeastOf
<1>2. m \in 0..n
  OBVIOUS
<1>3. m # 0
  <2>1. \A j \in 1..0 : f[j] <= 0
    OBVIOUS
  <2> QED
    BY <2>1
<1>4. m - 1 \notin T /\ m - 1 \in 0..n
  <2>1. m - 1 \in 0..n /\ ~(m <= m - 1)
    BY <1>2, <1>3
  <2> QED
    BY <1>1, <2>1, Zenon
<1>5. PICK u \in Nat : \A j \in 1..(m - 1) : f[j] <= u
  BY <1>4
<1>6. f[m] \in Nat
  BY <1>2, <1>3
<1>7. \A j \in 1..m : f[j] <= u + f[m]
  <2> SUFFICES ASSUME NEW j \in 1..m PROVE f[j] <= u + f[m]
    OBVIOUS
  <2>1. CASE j = m
    BY <1>6, <2>1
  <2>2. CASE j # m
    <3>1. j \in 1..(m - 1) /\ f[j] \in Nat
      BY <1>2, <2>2
    <3> QED
      BY <1>5, <1>6, <3>1
  <2> QED
    BY <2>1, <2>2
<1>8. u + f[m] \in Nat
  BY <1>6
<1> QED
  BY <1>7, <1>8

LEMMA GreatestOf ==
  ASSUME NEW S, S \subseteq Nat, S # {}, NEW u \in Nat, \A x \in S : x <= u
  PROVE  Max(S) \in S /\ \A y \in S : y <= Max(S)
PROOF
<1> DEFINE T == {u - x : x \in S}
<1>1. T \subseteq Nat /\ T # {}
  <2>1. \A x \in S : u - x \in Nat
    OBVIOUS
  <2> QED
    BY <2>1, Zenon
<1>2. PICK t \in T : \A y \in T : t <= y
  <2> HIDE DEF T
  <2> QED
    BY <1>1, LeastOf
<1>3. PICK x \in S : t = u - x
  OBVIOUS
<1>4. \A y \in S : x >= y
  <2> SUFFICES ASSUME NEW y \in S PROVE x >= y
    OBVIOUS
  <2>1. u - x <= u - y
    BY <1>2, <1>3, Zenon
  <2>2. x \in Nat /\ y \in Nat
    OBVIOUS
  <2> QED
    BY <2>1, <2>2
<1>5. Max(S) \in S /\ \A y \in S : Max(S) >= y
  BY <1>4, Zenon DEF Max
<1> QED
  BY <1>5

LEMMA RangeIs ==
  ASSUME NEW segments \in Seq(Phdrs)
  PROVE  /\ Lowest(segments) \in Nat /\ Highest(segments) \in Nat
         /\ PageStart(segments) \in Nat /\ PageEnd(segments) \in Nat
         /\ \A s \in All(segments) :
              PageStart(segments) <= s.vaddr /\ s.vaddr + s.mem <= PageEnd(segments)
         /\ (\E s \in All(segments) : s.vaddr < PageLen) => PageStart(segments) = 0
PROOF
<1> DEFINE dom == DOMAIN segments
           L == {segments[s].vaddr : s \in dom} \cup {AddressEnd - 1}
           H == {segments[s].vaddr + segments[s].mem : s \in dom} \cup {0}
           f == [s \in dom |-> segments[s].vaddr + segments[s].mem]
<1>0. AddressEnd \in Nat \ {0} /\ PageLen \in Nat \ {0}
  BY KernelImageAssumption
<1>1. dom = 1..Len(segments) /\ Len(segments) \in Nat /\ \A s \in dom : segments[s] \in Phdrs
  OBVIOUS
<1>2. \A s \in dom : segments[s].vaddr \in Nat /\ segments[s].mem \in Nat
  BY <1>1, PhdrTyped
<1>3. L \subseteq Nat /\ L # {}
  BY <1>0, <1>2
<1>4. H \subseteq Nat /\ H # {}
  BY <1>2
<1>5. PICK u \in Nat : \A j \in 1..Len(segments) : f[j] <= u
  <2>1. \A j \in 1..Len(segments) : f[j] \in Nat
    BY <1>1, <1>2
  <2> HIDE DEF f
  <2> QED
    BY <1>1, <2>1, Bounded
<1>6. \A x \in H : x <= u
  BY <1>1, <1>2, <1>5
<1>7. Min(L) \in L /\ \A y \in L : Min(L) <= y
  <2> HIDE DEF L
  <2> QED
    BY <1>3, LeastOf DEF Min
<1>8. Max(H) \in H /\ \A y \in H : y <= Max(H)
  <2> HIDE DEF H
  <2> QED
    BY <1>4, <1>6, GreatestOf
<1>9. Lowest(segments) = Min(L) /\ Highest(segments) = Max(H)
  BY DEF Lowest, Highest
<1>10. \A s \in dom : segments[s].vaddr \in L /\ segments[s].vaddr + segments[s].mem \in H
  BY Zenon
<1> DEFINE low == Lowest(segments)
           high == Highest(segments)
<1>11. low \in Nat /\ high \in Nat
  BY <1>3, <1>4, <1>7, <1>8, <1>9, Zenon
<1>12. \A s \in dom : low <= segments[s].vaddr /\ segments[s].vaddr + segments[s].mem <= high
  BY <1>7, <1>8, <1>9, <1>10, Zenon
<1> HIDE DEF L, H, low, high
<1>13. /\ AlignDown(low, PageLen) \in Nat /\ AlignDown(low, PageLen) <= low
       /\ AlignDown(high + PageLen - 1, PageLen) \in Nat
       /\ high <= AlignDown(high + PageLen - 1, PageLen)
  <2>1. high + PageLen - 1 \in Nat
    BY <1>0, <1>11
  <2>2. /\ AlignDown(low, PageLen) \in Nat /\ AlignDown(low, PageLen) <= low
    BY <1>0, <1>11, AlignDownIs
  <2>3. /\ AlignDown(high + PageLen - 1, PageLen) \in Nat
        /\ high + PageLen - 1 < AlignDown(high + PageLen - 1, PageLen) + PageLen
    BY <1>0, <2>1, AlignDownIs
  <2> QED
    BY <1>0, <1>11, <2>2, <2>3
<1>14. PageStart(segments) = AlignDown(low, PageLen)
       /\ PageEnd(segments) = AlignDown(high + PageLen - 1, PageLen)
  BY DEF PageStart, PageEnd, low, high
<1>15. ASSUME NEW s \in All(segments)
       PROVE  PageStart(segments) <= s.vaddr /\ s.vaddr + s.mem <= PageEnd(segments)
  <2>1. PICK j \in dom : s = segments[j]
    BY DEF All
  <2>2. s.vaddr \in Nat /\ s.mem \in Nat /\ low <= s.vaddr /\ s.vaddr + s.mem <= high
    BY <1>2, <1>12, <2>1
  <2> QED
    BY <1>11, <1>13, <1>14, <2>2
<1>16. ASSUME NEW s \in All(segments), s.vaddr < PageLen PROVE PageStart(segments) = 0
  <2>1. PICK j \in dom : s = segments[j]
    BY DEF All
  <2>2. low < PageLen
    BY <1>0, <1>2, <1>11, <1>12, <1>16, <2>1
  <2>3. low % PageLen = low
    BY <1>0, <1>11, <2>2
  <2> QED
    BY <1>11, <1>14, <2>3 DEF AlignDown
<1> QED
  BY <1>11, <1>13, <1>14, <1>15, <1>16 DEF low, high

-----------------------------------------------------------------------------
LEMMA WriteIs ==
  ASSUME NEW mem \in Memories, NEW at, NEW cells, \A n \in DOMAIN cells : cells[n] \in CellSet
  PROVE  /\ Write(mem, at, cells) \in Memories
         /\ \A a \in 0 .. MemLen - 1 :
              Write(mem, at, cells)[a] = IF a - at \in DOMAIN cells THEN cells[a - at] ELSE mem[a]
PROOF
<1>1. DOMAIN mem = 0 .. MemLen - 1 /\ \A a \in 0 .. MemLen - 1 : mem[a] \in CellSet
  BY Zenon DEF Memories
<1>2. \A a \in 0 .. MemLen - 1 : (IF a - at \in DOMAIN cells THEN cells[a - at] ELSE mem[a]) \in CellSet
  BY <1>1, Zenon
<1>3. Write(mem, at, cells) =
        [a \in 0 .. MemLen - 1 |-> IF a - at \in DOMAIN cells THEN cells[a - at] ELSE mem[a]]
  BY <1>1, Zenon DEF Write
<1> QED
  BY <1>2, <1>3, Zenon DEF Memories

LEMMA CellsTyped ==
  /\ \A n \in Int : FileCell(n) \in CellSet
  /\ ZeroCell \in CellSet /\ OtherCell \in CellSet
  /\ \A value, n \in Int : WordCell(value, n) \in CellSet
PROOF
<1>1. \A value, n \in Int : WordCell(value, n) \in WordCells
  BY DEF WordCells
<1> QED
  BY <1>1, Zenon DEF CellSet

LEMMA FreshIs == Fresh \in Memories /\ \A a \in 0 .. MemLen - 1 : Fresh[a] = OtherCell
PROOF
  BY CellsTyped, Zenon DEF Fresh, Memories

(* Copying one more segment that is apart from the others changes its      *)
(* cells only; so for a word.                                              *)
LEMMA LoadedAdd ==
  ASSUME NEW S, NEW seg, NEW v,
         \A s \in S : s # seg /\ BackedBy(v, seg) =>
                        ~BackedBy(v, s)
  PROVE  Loaded(S \cup {seg}, v) = IF BackedBy(v, seg)
                                   THEN FileCell(seg.offset + v - seg.vaddr) ELSE Loaded(S, v)
PROOF
<1> DEFINE backed == {s \in S : BackedBy(v, s)}
           more == {s \in S \cup {seg} : BackedBy(v, s)}
<1>1. CASE BackedBy(v, seg)
  <2>1. more = {seg}
    BY <1>1, Zenon
  <2>2. more # {} /\ (CHOOSE s \in more : TRUE) = seg
    BY <2>1, Zenon
  <2>3. Loaded(S \cup {seg}, v) = FileCell(seg.offset + v - seg.vaddr)
    BY <2>2, Zenon DEF Loaded, ByteFrom
  <2> QED
    BY <1>1, <2>3, Zenon
<1>2. CASE ~BackedBy(v, seg)
  <2>1. more = backed
    BY <1>2, Zenon
  <2>2. Loaded(S \cup {seg}, v) = Loaded(S, v)
    BY <2>1, Zenon DEF Loaded
  <2> QED
    BY <1>2, <2>2, Zenon
<1> QED
  BY <1>1, <1>2

LEMMA WordsAdd ==
  ASSUME NEW R, NEW reloc, NEW v, \A r \in R : r # reloc /\ WordOf(v, reloc) => ~WordOf(v, r)
  PROVE  \A bias, cell :
           WithWords(R \cup {reloc}, v, bias, cell) =
             IF WordOf(v, reloc) THEN WordCell((bias + reloc.addend) % AddressEnd, v - reloc.offset)
             ELSE WithWords(R, v, bias, cell)
PROOF
<1> TAKE bias, cell
<1> DEFINE words == {r \in R : WordOf(v, r)}
           more == {r \in R \cup {reloc} : WordOf(v, r)}
<1>1. CASE WordOf(v, reloc)
  <2>1. more = {reloc}
    BY <1>1, Zenon
  <2>2. more # {} /\ (CHOOSE r \in more : TRUE) = reloc
    BY <2>1, Zenon
  <2>3. WithWords(R \cup {reloc}, v, bias, cell) = WordCell((bias + reloc.addend) % AddressEnd, v - reloc.offset)
    BY <2>2, Zenon DEF WithWords, WordFrom
  <2> QED
    BY <1>1, <2>3, Zenon
<1>2. CASE ~WordOf(v, reloc)
  <2>1. more = words
    BY <1>2, Zenon
  <2>2. WithWords(R \cup {reloc}, v, bias, cell) = WithWords(R, v, bias, cell)
    BY <2>1, Zenon DEF WithWords
  <2> QED
    BY <1>2, <2>2, Zenon
<1> QED
  BY <1>1, <1>2

LEMMA NoWords ==
  ASSUME NEW R, NEW v, NEW bias, NEW cell, \A r \in R : ~WordOf(v, r)
  PROVE  WithWords(R, v, bias, cell) = cell
PROOF
<1>1. {r \in R : WordOf(v, r)} = {}
  BY Zenon
<1> QED
  BY <1>1, Zenon DEF WithWords

LEMMA ElfCellIs ==
  ASSUME NEW b, NEW v, NEW bias
  PROVE  ElfCell(b, v, bias) = WithWords(Patches(b), v, bias, Loaded(LoadsOf(b), v))
PROOF
  BY Zenon DEF ElfCell, WordOf, BackedBy, WithWords, WordFrom, Loaded, ByteFrom

(* A word that is of a relocation is the same word, whatever was there. *)
LEMMA WordsOver ==
  ASSUME NEW R, NEW v, NEW bias, NEW cell, NEW other,
         ~\A r \in R : ~WordOf(v, r)
  PROVE  WithWords(R, v, bias, cell) = WithWords(R, v, bias, other)
PROOF
<1>1. {r \in R : WordOf(v, r)} # {}
  BY Zenon
<1> QED
  BY <1>1, Zenon DEF WithWords

-----------------------------------------------------------------------------
(* What Linked says of two parts of a kernel. *)
LEMMA LinkedParts ==
  ASSUME NEW b \in ElfKernels, Linked(b)
  PROVE  /\ \A s \in LoadsOf(b) : s.file <= s.mem /\ s.offset + s.file <= b.bytes
         /\ \A s, t \in LoadsOf(b) : s # t =>
              \A v : BackedBy(v, s) => ~BackedBy(v, t)
         /\ \A r, q \in Patches(b) : r # q =>
              \A v : WordOf(v, r) => ~WordOf(v, q)
         /\ \A r \in Patches(b) : \E s \in LoadsOf(b) :
              \A v : WordOf(v, r) => v \in s.vaddr .. s.vaddr + s.mem - 1
         /\ b.pie => \E s \in LoadsOf(b) : s.vaddr < PageLen
PROOF
<1>1. LoadsOf(b) \subseteq Phdrs
  BY LoadsAndPatches
<1>2. \A s \in LoadsOf(b) : s.file <= s.mem /\ s.offset + s.file <= b.bytes
  BY DEF Linked
<1>3. ASSUME NEW s \in LoadsOf(b), NEW t \in LoadsOf(b), s # t, NEW v, BackedBy(v, s), BackedBy(v, t)
      PROVE  FALSE
  <2>1. (s.vaddr .. s.vaddr + s.mem - 1) \cap (t.vaddr .. t.vaddr + t.mem - 1) = {}
    BY <1>3, Zenon DEF Linked
  <2>2. /\ s.vaddr \in Nat /\ s.mem \in Nat /\ s.file \in Nat /\ s.file <= s.mem
        /\ t.vaddr \in Nat /\ t.mem \in Nat /\ t.file \in Nat /\ t.file <= t.mem
    BY <1>1, <1>2, PhdrTyped
  <2>3. v \in s.vaddr .. s.vaddr + s.mem - 1 /\ v \in t.vaddr .. t.vaddr + t.mem - 1
    BY <1>3, <2>2 DEF BackedBy
  <2> QED
    BY <2>1, <2>3, Zenon
<1>4. \A r, q \in Patches(b) : r # q => \A v : WordOf(v, r) => ~WordOf(v, q)
  BY Zenon DEF Linked, WordOf
<1>5. \A r \in Patches(b) : \E s \in LoadsOf(b) :
        \A v : WordOf(v, r) => v \in s.vaddr .. s.vaddr + s.mem - 1
  BY Zenon DEF Linked, WordOf
<1>6. b.pie => \E s \in LoadsOf(b) : s.vaddr < PageLen
  BY Zenon DEF Linked
<1> QED
  BY <1>2, <1>3, <1>4, <1>5, <1>6, Zenon

-----------------------------------------------------------------------------
LEMMA StateTyped ==
  ASSUME NEW k \in KiStates
  PROVE  /\ k.binary \in ElfKernels /\ k.leg \in {"uefi", "legacy"}
         /\ k.pc \in {"parse", "phdrs", "relas", "allocate", "copy", "random", "relocate", "done", "panicked"}
         /\ k.segments \in Seq(Phdrs) /\ k.relocations \in Seq(Relas)
         /\ k.i \in Nat \ {0} /\ k.rng \in Rngs /\ k.entry \in Nat
         /\ k.start \in Nat /\ k.base \in Nat \cup {NoBase} /\ k.size \in Nat /\ k.mem \in Memories
         /\ Origin(k) \in Nat
PROOF
<1>1. k.binary \in ElfKernels /\ k.leg \in {"uefi", "legacy"}
  BY Zenon DEF KiStates
<1>2. k.pc \in {"parse", "phdrs", "relas", "allocate", "copy", "random", "relocate", "done", "panicked"}
  BY Zenon DEF KiStates
<1>3. k.segments \in Seq(Phdrs) /\ k.relocations \in Seq(Relas)
  BY Zenon DEF KiStates
<1>4. k.i \in Nat \ {0} /\ k.rng \in Rngs /\ k.entry \in Nat
  BY Zenon DEF KiStates
<1>5. k.start \in Nat /\ k.base \in Nat \cup {NoBase} /\ k.size \in Nat /\ k.mem \in Memories
  BY Zenon DEF KiStates
<1>6. Origin(k) \in Nat
  BY <1>5 DEF Origin
<1> QED
  BY <1>1, <1>2, <1>3, <1>4, <1>5, <1>6

LEMMA EmptyWords == \A v, bias, cell : WithWords({}, v, bias, cell) = cell
PROOF
  BY NoWords

(* A cell of memory and the address that the kernel has for it. *)
LEMMA Shifted ==
  ASSUME NEW a \in Int, NEW base \in Nat, NEW start \in Nat, NEW vaddr \in Nat, NEW len \in Nat,
         NEW size \in Nat, NEW offset \in Nat
  PROVE  /\ (a - (base + (vaddr - start)) \in 0 .. len - 1) <=> (start + a - base \in vaddr .. vaddr + len - 1)
         /\ offset + (a - (base + (vaddr - start))) = offset + (start + a - base) - vaddr
         /\ start <= vaddr /\ vaddr + len <= start + size /\ start + a - base \in vaddr .. vaddr + len - 1
              => a \in base .. base + size - 1
PROOF
  OBVIOUS

(* A step that leaves memory alone keeps what it holds, and before any     *)
(* relocation the base does not matter.                                    *)
LEMMA MemSame ==
  ASSUME NEW k, NEW l, MemInv(k),
         l.binary = k.binary, l.leg = k.leg, l.base = k.base, l.size = k.size, l.mem = k.mem,
         Origin(l) = Origin(k), Applied(l) = Applied(k),
         l.start = k.start \/ Applied(k) = {},
         k.leg = "legacy" \/ Copied(l) = Copied(k)
  PROVE  MemInv(l)
PROOF
<1> SUFFICES ASSUME Linked(l.binary), l.base # NoBase, l.leg = "uefi" \/ Flat(l.binary)
             PROVE  InImage(l) /\ Holds(l, Copied(l), Applied(l))
  BY Zenon DEF MemInv
<1>1. InImage(k) /\ Holds(k, Copied(k), Applied(k))
  BY Zenon DEF MemInv
<1>2. InImage(l)
  BY <1>1, Zenon DEF InImage
<1>3. ASSUME NEW a \in 0 .. MemLen - 1
      PROVE  l.mem[a] = IF a \in l.base .. l.base + l.size - 1
                        THEN WithWords(Applied(l), a - l.base, l.start, Plain(l, Copied(l), a)) ELSE OtherCell
  <2>1. Plain(l, Copied(l), a) = Plain(k, Copied(k), a)
    BY Zenon DEF Plain
  <2>2. WithWords(Applied(l), a - l.base, l.start, Plain(l, Copied(l), a))
          = WithWords(Applied(k), a - k.base, k.start, Plain(k, Copied(k), a))
    <3>1. CASE l.start = k.start
      BY <2>1, <3>1, Zenon
    <3>2. CASE Applied(k) = {}
      <4>1. /\ WithWords({}, a - k.base, l.start, Plain(k, Copied(k), a)) = Plain(k, Copied(k), a)
            /\ WithWords({}, a - k.base, k.start, Plain(k, Copied(k), a)) = Plain(k, Copied(k), a)
        BY EmptyWords, Zenon
      <4> QED
        BY <2>1, <3>2, <4>1, Zenon
    <3> QED
      BY <3>1, <3>2
  <2>3. k.mem[a] = IF a \in k.base .. k.base + k.size - 1
                   THEN WithWords(Applied(k), a - k.base, k.start, Plain(k, Copied(k), a)) ELSE OtherCell
    BY <1>1, Zenon DEF Holds
  <2> QED
    BY <2>2, <2>3, Zenon
<1>4. Holds(l, Copied(l), Applied(l))
  BY <1>3, Zenon DEF Holds
<1> QED
  BY <1>2, <1>4

(* One more segment in the pages of load_kernel_segments. *)
LEMMA CopyHolds ==
  ASSUME NEW k \in KiStates, NEW l, Linked(k.binary), k.leg = "uefi", k.start = Origin(k), k.base \in Nat,
         InImage(k), NEW copied, copied \subseteq LoadsOf(k.binary), NEW seg \in LoadsOf(k.binary),
         Holds(k, copied, {}),
         Origin(l) = Origin(k), l.leg = k.leg, l.base = k.base, l.size = k.size,
         NEW at, at = k.base + (seg.vaddr - k.start),
         \A a \in 0 .. MemLen - 1 :
           l.mem[a] = IF a - at \in 0 .. seg.file - 1 THEN FileCell(seg.offset + (a - at)) ELSE k.mem[a]
  PROVE  Holds(l, copied \cup {seg}, {})
PROOF
<1>1. k.binary \in ElfKernels /\ k.start \in Nat /\ k.size \in Nat
  BY StateTyped
<1>2. LoadsOf(k.binary) \subseteq Phdrs
  BY <1>1, LoadsAndPatches
<1>3. seg.vaddr \in Nat /\ seg.mem \in Nat /\ seg.file \in Nat /\ seg.offset \in Nat
  BY <1>2, PhdrTyped
<1>4. seg.file <= seg.mem /\ k.start <= seg.vaddr /\ seg.vaddr + seg.mem <= k.start + k.size
  BY <1>1, LinkedParts, Zenon DEF InImage
<1>5. seg.vaddr + seg.file <= k.start + k.size
  BY <1>1, <1>3, <1>4
<1>6. ASSUME NEW a \in 0 .. MemLen - 1
      PROVE  l.mem[a] = IF a \in l.base .. l.base + l.size - 1
                        THEN WithWords({}, a - l.base, l.start, Plain(l, copied \cup {seg}, a)) ELSE OtherCell
  <2> DEFINE v == k.start + a - k.base
  <2>1. a \in Int
    OBVIOUS
  <2>2. /\ (a - at \in 0 .. seg.file - 1) <=> BackedBy(v, seg)
        /\ seg.offset + (a - at) = seg.offset + v - seg.vaddr
        /\ BackedBy(v, seg) => a \in k.base .. k.base + k.size - 1
    <3>1. /\ (a - (k.base + (seg.vaddr - k.start)) \in 0 .. seg.file - 1)
                <=> (k.start + a - k.base \in seg.vaddr .. seg.vaddr + seg.file - 1)
          /\ seg.offset + (a - (k.base + (seg.vaddr - k.start))) = seg.offset + (k.start + a - k.base) - seg.vaddr
          /\ k.start + a - k.base \in seg.vaddr .. seg.vaddr + seg.file - 1 => a \in k.base .. k.base + k.size - 1
      BY <1>1, <1>3, <1>4, <1>5, <2>1, Shifted
    <3> QED
      BY <3>1, Zenon DEF BackedBy
  <2>3. Plain(l, copied \cup {seg}, a) = Loaded(copied \cup {seg}, v) /\ Plain(k, copied, a) = Loaded(copied, v)
    BY Zenon DEF Plain
  <2> HIDE DEF v
  <2>4. Loaded(copied \cup {seg}, v)
          = IF BackedBy(v, seg) THEN FileCell(seg.offset + v - seg.vaddr) ELSE Loaded(copied, v)
    <3>1. \A s \in copied : s # seg /\ BackedBy(v, seg) => ~BackedBy(v, s)
      BY <1>1, LinkedParts, Zenon
    <3> QED
      BY <3>1, LoadedAdd, Zenon
  <2>5. k.mem[a] = IF a \in k.base .. k.base + k.size - 1 THEN Loaded(copied, v) ELSE OtherCell
    <3>1. WithWords({}, a - k.base, k.start, Plain(k, copied, a)) = Plain(k, copied, a)
      BY EmptyWords, Zenon
    <3> QED
      BY <2>3, <3>1, Zenon DEF Holds
  <2>e. WithWords({}, a - l.base, l.start, Plain(l, copied \cup {seg}, a)) = Plain(l, copied \cup {seg}, a)
    BY EmptyWords, Zenon
  <2>6. CASE BackedBy(v, seg)
    <3>1. l.mem[a] = FileCell(seg.offset + v - seg.vaddr)
      BY <2>2, <2>6, Zenon
    <3> QED
      BY <2>2, <2>3, <2>4, <2>6, <3>1, <2>e, Zenon
  <2>7. CASE ~BackedBy(v, seg)
    <3>1. l.mem[a] = k.mem[a]
      BY <2>2, <2>7, Zenon
    <3> QED
      BY <2>3, <2>4, <2>5, <2>7, <3>1, <2>e, Zenon
  <2> QED
    BY <2>6, <2>7
<1> QED
  BY <1>6, Zenon DEF Holds

(* One more relocated word, inside a segment. *)
LEMMA ApplyHolds ==
  ASSUME NEW k \in KiStates, NEW l, Linked(k.binary), Origin(k) = 0, k.base \in Nat,
         InImage(k), NEW copied, NEW patched, patched \subseteq Patches(k.binary), NEW reloc \in Patches(k.binary),
         Holds(k, copied, patched),
         Origin(l) = Origin(k), l.leg = k.leg, l.base = k.base, l.size = k.size, l.start = k.start,
         NEW at, at = k.base + reloc.offset,
         NEW value, value = (k.start + reloc.addend) % AddressEnd,
         \A a \in 0 .. MemLen - 1 :
           l.mem[a] = IF a - at \in 0 .. WordLen - 1 THEN WordCell(value, a - at) ELSE k.mem[a]
  PROVE  Holds(l, copied, patched \cup {reloc})
PROOF
<1>1. k.binary \in ElfKernels /\ k.size \in Nat
  BY StateTyped
<1>2. LoadsOf(k.binary) \subseteq Phdrs /\ Patches(k.binary) \subseteq Relas
  BY <1>1, LoadsAndPatches
<1>3. reloc.offset \in Nat /\ WordLen \in Nat
  BY <1>2, RelaTyped, KernelImageAssumption
<1>4. PICK s \in LoadsOf(k.binary) : \A v : WordOf(v, reloc) => v \in s.vaddr .. s.vaddr + s.mem - 1
  BY <1>1, LinkedParts, Zenon
<1>5. s.vaddr \in Nat /\ s.mem \in Nat /\ s.vaddr + s.mem <= 0 + k.size /\ 0 <= s.vaddr
  BY <1>2, PhdrTyped DEF InImage
<1>6. ASSUME NEW a \in 0 .. MemLen - 1
      PROVE  l.mem[a] = IF a \in l.base .. l.base + l.size - 1
                        THEN WithWords(patched \cup {reloc}, a - l.base, l.start, Plain(l, copied, a)) ELSE OtherCell
  <2> DEFINE v == a - k.base
             c == Plain(k, copied, a)
  <2>1. a \in Int /\ 0 + a - k.base = v
    OBVIOUS
  <2>2. (a - at \in 0 .. WordLen - 1 <=> WordOf(v, reloc)) /\ a - at = v - reloc.offset
    BY <1>3, <2>1 DEF WordOf
  <2>3. WordOf(v, reloc) => a \in k.base .. k.base + k.size - 1
    <3>1. WordOf(v, reloc) => v \in s.vaddr .. s.vaddr + s.mem - 1
      BY <1>4, Zenon
    <3> QED
      BY <1>1, <1>5, <2>1, <3>1, Shifted
  <2>4. Plain(l, copied, a) = c
    BY Zenon DEF Plain
  <2>5. k.mem[a] = IF a \in k.base .. k.base + k.size - 1 THEN WithWords(patched, v, k.start, c) ELSE OtherCell
    BY Zenon DEF Holds
  <2>6. l.mem[a] = IF a - at \in 0 .. WordLen - 1 THEN WordCell(value, a - at) ELSE k.mem[a]
    BY Zenon
  <2>7. a - l.base = v
    OBVIOUS
  <2> HIDE DEF v, c
  <2>8. WithWords(patched \cup {reloc}, v, k.start, c)
          = IF WordOf(v, reloc) THEN WordCell(value, v - reloc.offset) ELSE WithWords(patched, v, k.start, c)
    <3>1. \A r \in patched : r # reloc /\ WordOf(v, reloc) => ~WordOf(v, r)
      BY <1>1, LinkedParts, Zenon
    <3>2. \A bias, cell :
            WithWords(patched \cup {reloc}, v, bias, cell) =
              IF WordOf(v, reloc) THEN WordCell((bias + reloc.addend) % AddressEnd, v - reloc.offset)
              ELSE WithWords(patched, v, bias, cell)
      BY <3>1, WordsAdd, SMT
    <3> QED
      BY <3>2, Zenon
  <2>9. CASE WordOf(v, reloc)
    BY <2>2, <2>3, <2>4, <2>6, <2>7, <2>8, <2>9, Zenon
  <2>10. CASE ~WordOf(v, reloc)
    BY <2>2, <2>4, <2>5, <2>6, <2>7, <2>8, <2>10, Zenon
  <2> QED
    BY <2>9, <2>10
<1> QED
  BY <1>6, Zenon DEF Holds

-----------------------------------------------------------------------------
(* What a step keeps when it leaves the parsed parts, or the generator,    *)
(* alone.                                                                  *)
LEMMA ParsedSame ==
  ASSUME NEW k, NEW l, ParseInv(k), l.binary = k.binary, l.segments = k.segments,
         l.relocations = k.relocations, k.pc \in {"allocate", "copy", "random", "relocate"},
         l.pc \in {"copy", "random", "relocate", "done"}
  PROVE  ParseInv(l)
PROOF
  BY DEF ParseInv

LEMMA RngSame ==
  ASSUME NEW k, NEW l, RngInv(k), l.rng = k.rng,
         k.pc \notin {"relocate", "done"} \/ l.pc \in {"relocate", "done"}
  PROVE  RngInv(l)
PROOF
  BY DEF RngInv

LEMMA PanicInv ==
  ASSUME KiInv, ki' = [ki EXCEPT !.pc = "panicked"], ki.pc \in {"parse", "allocate", "copy"},
         ~Linked(ki.binary) \/ ki.base = NoBase
  PROVE  KiInv'
PROOF
<1>1. ki \in KiStates
  BY DEF KiInv
<1>2. ki' \in KiStates
  BY <1>1, Zenon DEF KiStates
<1>3. ki'.pc = "panicked" /\ ki'.binary = ki.binary /\ ki'.leg = ki.leg /\ ki'.rng = ki.rng
  BY <1>1 DEF KiStates
<1>4. ki'.base = ki.base /\ ki'.size = ki.size /\ ki'.mem = ki.mem
  BY <1>1 DEF KiStates
<1>5. ParseInv(ki') /\ EntryInv(ki')
  BY <1>3 DEF ParseInv, EntryInv
<1>6. RngInv(ki')
  BY <1>3, RngSame DEF KiInv
<1>7. PlaceInv(ki')
  BY <1>3, <1>4 DEF KiInv, PlaceInv
<1>8. MemInv(ki')
  BY <1>3, <1>4 DEF MemInv
<1> QED
  BY <1>2, <1>5, <1>6, <1>7, <1>8 DEF KiInv

LEMMA KiInitInv == KiInit => KiInv
PROOF
<1> SUFFICES ASSUME KiInit PROVE KiInv
  OBVIOUS
<1>1. PICK b \in ElfKernels, leg \in {"uefi", "legacy"}, seed \in BOOLEAN, rand \in BOOLEAN, at \in Bases :
        ki = [pc |-> "parse", leg |-> leg, binary |-> b, segments |-> <<>>, relocations |-> <<>>,
              i |-> 1, rng |-> Rng(seed, rand), entry |-> 0, start |-> 0,
              base |-> IF leg = "legacy" THEN at ELSE NoBase,
              size |-> IF leg = "legacy" THEN b.bytes ELSE 0,
              mem |-> IF leg = "legacy" THEN Write(Fresh, at, [k \in 0 .. b.bytes - 1 |-> FileCell(k)]) ELSE Fresh]
  BY Zenon DEF KiInit
<1> DEFINE cells == [k \in 0 .. b.bytes - 1 |-> FileCell(k)]
           new == Write(Fresh, at, cells)
<1>2. b.bytes \in Nat /\ at \in Nat /\ Attempts \in Nat \ {0}
  BY KernelTyped, KernelImageAssumption
<1>3. /\ new \in Memories
      /\ \A a \in 0 .. MemLen - 1 : new[a] = IF a - at \in 0 .. b.bytes - 1 THEN FileCell(a - at) ELSE Fresh[a]
  <2>1. \A n \in 0 .. b.bytes - 1 : n \in Int
    BY <1>2
  <2>2. /\ DOMAIN cells = 0 .. b.bytes - 1 /\ \A n \in 0 .. b.bytes - 1 : cells[n] = FileCell(n)
        /\ \A n \in DOMAIN cells : cells[n] \in CellSet
    BY <2>1, CellsTyped, Zenon
  <2> HIDE DEF cells
  <2>3. /\ new \in Memories
        /\ \A a \in 0 .. MemLen - 1 : new[a] = IF a - at \in DOMAIN cells THEN cells[a - at] ELSE Fresh[a]
    BY <2>2, FreshIs, WriteIs, Zenon
  <2> QED
    BY <2>2, <2>3, Zenon
<1> HIDE DEF new
<1>4. Rng(seed, rand) \in Rngs
  BY Zenon DEF Rng, Rngs, Source
<1>5. /\ ki.pc = "parse" /\ ki.leg = leg /\ ki.binary = b /\ ki.segments = <<>> /\ ki.relocations = <<>>
      /\ ki.i = 1 /\ ki.rng = Rng(seed, rand) /\ ki.entry = 0 /\ ki.start = 0
  BY <1>1, Zenon
<1>6. /\ ki.base = IF leg = "legacy" THEN at ELSE NoBase
      /\ ki.size = IF leg = "legacy" THEN b.bytes ELSE 0
      /\ ki.mem = IF leg = "legacy" THEN new ELSE Fresh
  BY <1>1, Zenon DEF new
<1>7. ki \in KiStates
  <2>1. /\ (IF leg = "legacy" THEN at ELSE NoBase) \in Nat \cup {NoBase}
        /\ (IF leg = "legacy" THEN b.bytes ELSE 0) \in Nat
        /\ 1 \in Nat \ {0} /\ 0 \in Nat /\ <<>> \in Seq(Phdrs) /\ <<>> \in Seq(Relas)
    BY <1>2
  <2>2. (IF leg = "legacy" THEN new ELSE Fresh) \in Memories
    BY <1>3, FreshIs, Zenon
  <2> QED
    BY <1>1, <1>4, <2>1, <2>2, Zenon DEF KiStates, new
<1>8. ParseInv(ki)
  BY <1>5 DEF ParseInv
<1>9. EntryInv(ki)
  BY <1>5 DEF EntryInv
<1>10. RngInv(ki)
  BY <1>2, <1>5 DEF RngInv, Rng
<1>11. PlaceInv(ki)
  BY <1>2, <1>5, <1>6 DEF PlaceInv, NoBase
<1>12. MemInv(ki)
  <2> SUFFICES ASSUME Linked(ki.binary), ki.base # NoBase, ki.leg = "uefi" \/ Flat(ki.binary)
               PROVE  InImage(ki) /\ Holds(ki, Copied(ki), Applied(ki))
    BY Zenon DEF MemInv
  <2>1. leg = "legacy" /\ ki.base = at /\ ki.size = b.bytes /\ ki.mem = new /\ Flat(b)
    BY <1>5, <1>6
  <2>2. Origin(ki) = 0 /\ Applied(ki) = {}
    BY <1>5, <2>1 DEF Origin, Applied
  <2>3. InImage(ki)
    <3> SUFFICES ASSUME NEW s \in LoadsOf(b) PROVE 0 <= s.vaddr /\ s.vaddr + s.mem <= 0 + b.bytes
      BY <1>5, <2>1, <2>2 DEF InImage
    <3>1. s.vaddr \in Nat /\ s.mem \in Nat
      BY LoadsAndPatches, PhdrTyped
    <3>2. s.offset + s.file <= b.bytes
      BY <1>5, LinkedParts
    <3>3. s.offset = s.vaddr /\ s.file = s.mem
      BY <2>1 DEF Flat
    <3> QED
      BY <1>2, <3>1, <3>2, <3>3
  <2>4. ASSUME NEW a \in 0 .. MemLen - 1
        PROVE  ki.mem[a] = IF a \in ki.base .. ki.base + ki.size - 1
                           THEN WithWords({}, a - ki.base, ki.start, Plain(ki, Copied(ki), a)) ELSE OtherCell
    <3>1. (a - at \in 0 .. b.bytes - 1 <=> a \in at .. at + b.bytes - 1)
      BY <1>2
    <3>2. WithWords({}, a - ki.base, ki.start, Plain(ki, Copied(ki), a)) = Plain(ki, Copied(ki), a)
      BY EmptyWords, Zenon
    <3>3. Plain(ki, Copied(ki), a) = FileCell(a - at)
      BY <1>5, <2>1, Zenon DEF Plain
    <3>4. Fresh[a] = OtherCell
      BY FreshIs
    <3> QED
      BY <1>3, <2>1, <3>1, <3>2, <3>3, <3>4, Zenon
  <2> QED
    BY <2>2, <2>3, <2>4, Zenon DEF Holds
<1> QED
  BY <1>7, <1>8, <1>9, <1>10, <1>11, <1>12 DEF KiInv

-----------------------------------------------------------------------------
(* The steps of parse_elf leave memory and the generator alone.            *)
LEMMA ParsingInv ==
  ASSUME NEW k, NEW l, RngInv(k), PlaceInv(k), MemInv(k),
         k.pc \in {"parse", "phdrs", "relas"}, l.pc \in {"phdrs", "relas", "allocate", "random", "done"},
         k.leg \in {"uefi", "legacy"},
         l.pc = "allocate" => k.leg = "uefi", l.pc \in {"random", "done"} => k.leg = "legacy",
         l.pc = "done" => ~k.binary.pie,
         l.binary = k.binary, l.leg = k.leg, l.rng = k.rng, l.start = k.start,
         l.base = k.base, l.size = k.size, l.mem = k.mem
  PROVE  RngInv(l) /\ PlaceInv(l) /\ MemInv(l)
PROOF
<1>1. RngInv(l)
  BY RngSame
<1>2. PlaceInv(l)
  BY DEF PlaceInv
<1>3. Applied(k) = {} /\ (l.pc # "done" => Applied(l) = {}) /\ (l.pc = "done" => Applied(l) = {})
  BY DEF Applied
<1>4. Origin(l) = Origin(k)
  BY DEF Origin
<1>5. CASE k.leg = "legacy"
  <2>1. MemInv(l)
    BY <1>3, <1>4, <1>5, MemSame
  <2> QED
    BY <1>1, <1>2, <2>1
<1>6. CASE k.leg = "uefi"
  <2>1. k.base = NoBase
    BY <1>6 DEF PlaceInv
  <2>2. MemInv(l)
    BY <2>1 DEF MemInv
  <2> QED
    BY <1>1, <1>2, <2>2
<1> QED
  BY <1>5, <1>6

LEMMA ParseElfInv == KiInv /\ ParseElf => KiInv'
PROOF
<1> SUFFICES ASSUME KiInv, ParseElf PROVE KiInv'
  OBVIOUS
<1>1. ki \in KiStates /\ ki.pc = "parse" /\ ki.binary \in ElfKernels /\ ki.leg \in {"uefi", "legacy"}
  BY StateTyped DEF KiInv, ParseElf
<1>2. ki.binary.entry \in Nat /\ ki.binary.phdrs \in Seq(Phdrs)
  BY <1>1, KernelTyped
<1>3. CASE ~ki.binary.elf64
  <2>1. ki' = [ki EXCEPT !.pc = "panicked"]
    BY <1>3, Zenon DEF ParseElf, KiPanics
  <2>2. ~Linked(ki.binary)
    BY <1>3, Zenon DEF Linked
  <2> QED
    BY <1>1, <2>1, <2>2, PanicInv
<1>4. CASE ki.binary.elf64
  <2>1. ki' = [ki EXCEPT !.pc = "phdrs", !.entry = ki.binary.entry]
    BY <1>4, Zenon DEF ParseElf
  <2>2. ki' \in KiStates
    BY <1>1, <1>2, <2>1, Zenon DEF KiStates
  <2>3. ki'.pc = "phdrs" /\ ki'.binary = ki.binary /\ ki'.leg = ki.leg /\ ki'.rng = ki.rng /\ ki'.start = ki.start
    BY <1>1, <2>1 DEF KiStates
  <2>4. ki'.base = ki.base /\ ki'.size = ki.size /\ ki'.mem = ki.mem /\ ki'.entry = ki.binary.entry
    BY <1>1, <2>1 DEF KiStates
  <2>5. ki'.segments = ki.segments /\ ki'.relocations = ki.relocations /\ ki'.i = ki.i
    BY <1>1, <2>1 DEF KiStates
  <2>6. ParseInv(ki')
    <3>1. ki.segments = <<>> /\ ki.relocations = <<>> /\ ki.i = 1
      BY <1>1 DEF KiInv, ParseInv
    <3>2. All(<<>>) = {} /\ Before(ki.binary.phdrs, 1) = {}
      BY <1>2, AllOf
    <3>3. Of({}, "LOAD") = {}
      BY DEF Of
    <3> QED
      BY <2>3, <2>5, <3>1, <3>2, <3>3 DEF ParseInv
  <2>7. EntryInv(ki')
    BY <2>3, <2>4 DEF EntryInv
  <2>8. RngInv(ki') /\ PlaceInv(ki') /\ MemInv(ki')
    BY <1>1, <2>3, <2>4, ParsingInv DEF KiInv
  <2> QED
    BY <2>2, <2>6, <2>7, <2>8 DEF KiInv
<1> QED
  BY <1>3, <1>4

LEMMA ReadPhdrInv == KiInv /\ ReadPhdr => KiInv'
PROOF
<1> SUFFICES ASSUME KiInv, ReadPhdr PROVE KiInv'
  OBVIOUS
<1> DEFINE phdrs == ki.binary.phdrs
           phdr == phdrs[ki.i]
           new == IF phdr.type = "LOAD" THEN Append(ki.segments, phdr) ELSE ki.segments
<1>1. ki \in KiStates /\ ki.pc = "phdrs" /\ ki.binary \in ElfKernels /\ ki.leg \in {"uefi", "legacy"}
      /\ ki.i \in Nat \ {0} /\ ki.segments \in Seq(Phdrs)
  BY StateTyped DEF KiInv, ReadPhdr
<1>2. phdrs \in Seq(Phdrs)
  BY <1>1, KernelTyped
<1>3. ki.i \in 1..Len(phdrs) /\ ki.i + 1 \in Nat \ {0}
  BY <1>1, <1>2 DEF ReadPhdr
<1>4. ki' = [ki EXCEPT !.i = ki.i + 1, !.segments = new]
  BY Zenon DEF ReadPhdr
<1>5. phdr \in Phdrs /\ Before(phdrs, ki.i + 1) = Before(phdrs, ki.i) \cup {phdr}
  <2> HIDE DEF phdrs
  <2>1. \A n \in 1..Len(phdrs) : phdrs[n] \in Phdrs /\ Before(phdrs, n + 1) = Before(phdrs, n) \cup {phdrs[n]}
    BY <1>2, AllOf, Zenon
  <2> QED
    BY <1>3, <2>1, Zenon
<1>6. All(ki.segments) = Of(Before(phdrs, ki.i), "LOAD") /\ ki.relocations = <<>>
  BY <1>1 DEF KiInv, ParseInv
<1>7. new \in Seq(Phdrs) /\ All(new) = Of(Before(phdrs, ki.i + 1), "LOAD")
  <2>1. CASE phdr.type = "LOAD"
    <3>1. new \in Seq(Phdrs) /\ All(new) = All(ki.segments) \cup {phdr}
      BY <1>1, <1>5, <2>1, AllOf
    <3> QED
      BY <1>5, <1>6, <2>1, <3>1, Zenon DEF Of
  <2>2. CASE phdr.type # "LOAD"
    BY <1>1, <1>5, <1>6, <2>2, Zenon DEF Of
  <2> QED
    BY <2>1, <2>2
<1> HIDE DEF phdrs, phdr, new
<1>8. ki' \in KiStates
  BY <1>1, <1>3, <1>4, <1>7, Zenon DEF KiStates
<1>9. ki'.pc = ki.pc /\ ki'.binary = ki.binary /\ ki'.leg = ki.leg /\ ki'.rng = ki.rng /\ ki'.start = ki.start
  BY <1>1, <1>4 DEF KiStates
<1>10. ki'.base = ki.base /\ ki'.size = ki.size /\ ki'.mem = ki.mem /\ ki'.entry = ki.entry
  BY <1>1, <1>4 DEF KiStates
<1>11. ki'.segments = new /\ ki'.relocations = ki.relocations /\ ki'.i = ki.i + 1
  BY <1>1, <1>4 DEF KiStates
<1>12. ParseInv(ki')
  BY <1>1, <1>6, <1>7, <1>9, <1>11 DEF ParseInv, phdrs
<1>13. EntryInv(ki')
  BY <1>1, <1>9, <1>10 DEF KiInv, EntryInv
<1>14. RngInv(ki') /\ PlaceInv(ki') /\ MemInv(ki')
  BY <1>1, <1>9, <1>10, ParsingInv DEF KiInv
<1> QED
  BY <1>8, <1>12, <1>13, <1>14 DEF KiInv

LEMMA PhdrsReadInv == KiInv /\ PhdrsRead => KiInv'
PROOF
<1> SUFFICES ASSUME KiInv, PhdrsRead PROVE KiInv'
  OBVIOUS
<1>1. ki \in KiStates /\ ki.pc = "phdrs" /\ ki.binary \in ElfKernels /\ ki.leg \in {"uefi", "legacy"}
      /\ ki.i \in Nat /\ ki' = [ki EXCEPT !.pc = "relas", !.i = 1]
  BY StateTyped DEF KiInv, PhdrsRead
<1>2. ki.binary.phdrs \in Seq(Phdrs) /\ ki.binary.relas \in Seq(Relas)
  BY <1>1, KernelTyped
<1>3. ki.i > Len(ki.binary.phdrs)
  BY DEF PhdrsRead
<1>4. 1 \in Nat \ {0}
  OBVIOUS
<1>5. ki' \in KiStates
  BY <1>1, <1>4, Zenon DEF KiStates
<1>6. ki'.pc = "relas" /\ ki'.binary = ki.binary /\ ki'.leg = ki.leg /\ ki'.rng = ki.rng /\ ki'.start = ki.start
  BY <1>1 DEF KiStates
<1>7. ki'.base = ki.base /\ ki'.size = ki.size /\ ki'.mem = ki.mem /\ ki'.entry = ki.entry
  BY <1>1 DEF KiStates
<1>8. ki'.segments = ki.segments /\ ki'.relocations = ki.relocations /\ ki'.i = 1
  BY <1>1 DEF KiStates
<1>9. ParseInv(ki')
  <2>1. All(ki.segments) = Of(Before(ki.binary.phdrs, ki.i), "LOAD") /\ ki.relocations = <<>>
    BY <1>1 DEF KiInv, ParseInv
  <2>2. Before(ki.binary.phdrs, ki.i) = All(ki.binary.phdrs)
    BY <1>1, <1>2, <1>3, AllOf
  <2>3. All(<<>>) = {} /\ Before(ki.binary.relas, 1) = {}
    BY <1>2, AllOf
  <2>4. LoadsOf(ki.binary) = Of(All(ki.binary.phdrs), "LOAD")
    BY <1>1, LoadsAndPatches
  <2>5. Of({}, "RELATIVE") = {}
    BY DEF Of
  <2> QED
    BY <1>6, <1>8, <2>1, <2>2, <2>3, <2>4, <2>5 DEF ParseInv
<1>10. EntryInv(ki')
  BY <1>1, <1>6, <1>7 DEF KiInv, EntryInv
<1>11. RngInv(ki') /\ PlaceInv(ki') /\ MemInv(ki')
  BY <1>1, <1>6, <1>7, ParsingInv DEF KiInv
<1> QED
  BY <1>5, <1>9, <1>10, <1>11 DEF KiInv

LEMMA ReadRelaInv == KiInv /\ ReadRela => KiInv'
PROOF
<1> SUFFICES ASSUME KiInv, ReadRela PROVE KiInv'
  OBVIOUS
<1> DEFINE relas == ki.binary.relas
           rela == relas[ki.i]
           new == IF rela.type = "RELATIVE" THEN Append(ki.relocations, rela) ELSE ki.relocations
<1>1. ki \in KiStates /\ ki.pc = "relas" /\ ki.binary \in ElfKernels /\ ki.leg \in {"uefi", "legacy"}
      /\ ki.i \in Nat \ {0} /\ ki.relocations \in Seq(Relas)
  BY StateTyped DEF KiInv, ReadRela
<1>2. relas \in Seq(Relas)
  BY <1>1, KernelTyped
<1>3. ki.i \in 1..Len(relas) /\ ki.i + 1 \in Nat \ {0}
  BY <1>1, <1>2 DEF ReadRela
<1>4. ki' = [ki EXCEPT !.i = ki.i + 1, !.relocations = new]
  BY Zenon DEF ReadRela
<1>5. rela \in Relas /\ Before(relas, ki.i + 1) = Before(relas, ki.i) \cup {rela}
  <2> HIDE DEF relas
  <2>1. \A n \in 1..Len(relas) : relas[n] \in Relas /\ Before(relas, n + 1) = Before(relas, n) \cup {relas[n]}
    BY <1>2, AllOf, Zenon
  <2> QED
    BY <1>3, <2>1, Zenon
<1>6. All(ki.relocations) = Of(Before(relas, ki.i), "RELATIVE") /\ All(ki.segments) = LoadsOf(ki.binary)
  BY <1>1 DEF KiInv, ParseInv
<1>7. new \in Seq(Relas) /\ All(new) = Of(Before(relas, ki.i + 1), "RELATIVE")
  <2>1. CASE rela.type = "RELATIVE"
    <3>1. new \in Seq(Relas) /\ All(new) = All(ki.relocations) \cup {rela}
      BY <1>1, <1>5, <2>1, AllOf
    <3> QED
      BY <1>5, <1>6, <2>1, <3>1, Zenon DEF Of
  <2>2. CASE rela.type # "RELATIVE"
    BY <1>1, <1>5, <1>6, <2>2, Zenon DEF Of
  <2> QED
    BY <2>1, <2>2
<1> HIDE DEF relas, rela, new
<1>8. ki' \in KiStates
  BY <1>1, <1>3, <1>4, <1>7, Zenon DEF KiStates
<1>9. ki'.pc = ki.pc /\ ki'.binary = ki.binary /\ ki'.leg = ki.leg /\ ki'.rng = ki.rng /\ ki'.start = ki.start
  BY <1>1, <1>4 DEF KiStates
<1>10. ki'.base = ki.base /\ ki'.size = ki.size /\ ki'.mem = ki.mem /\ ki'.entry = ki.entry
  BY <1>1, <1>4 DEF KiStates
<1>11. ki'.segments = ki.segments /\ ki'.relocations = new /\ ki'.i = ki.i + 1
  BY <1>1, <1>4 DEF KiStates
<1>12. ParseInv(ki')
  BY <1>1, <1>6, <1>7, <1>9, <1>11 DEF ParseInv, relas
<1>13. EntryInv(ki')
  BY <1>1, <1>9, <1>10 DEF KiInv, EntryInv
<1>14. RngInv(ki') /\ PlaceInv(ki') /\ MemInv(ki')
  BY <1>1, <1>9, <1>10, ParsingInv DEF KiInv
<1> QED
  BY <1>8, <1>12, <1>13, <1>14 DEF KiInv

LEMMA RelasReadInv == KiInv /\ RelasRead => KiInv'
PROOF
<1> SUFFICES ASSUME KiInv, RelasRead PROVE KiInv'
  OBVIOUS
<1> DEFINE next == IF ki.leg = "uefi" THEN "allocate" ELSE InPlace(ki.binary)
<1>1. ki \in KiStates /\ ki.pc = "relas" /\ ki.binary \in ElfKernels /\ ki.leg \in {"uefi", "legacy"}
      /\ ki.i \in Nat /\ ki' = [ki EXCEPT !.pc = next, !.i = 1]
  BY StateTyped DEF KiInv, RelasRead
<1>2. ki.binary.relas \in Seq(Relas)
  BY <1>1, KernelTyped
<1>3. ki.i > Len(ki.binary.relas) /\ 1 \in Nat \ {0}
  BY DEF RelasRead
<1>4. /\ next \in {"allocate", "random", "done"}
      /\ next = "allocate" => ki.leg = "uefi"
      /\ next \in {"random", "done"} => ki.leg = "legacy"
      /\ next = "random" => ki.binary.pie
      /\ next = "done" => ~ki.binary.pie
  BY <1>1 DEF InPlace
<1> HIDE DEF next
<1>5. ki' \in KiStates
  <2>1. next \in {"parse", "phdrs", "relas", "allocate", "copy", "random", "relocate", "done", "panicked"}
    BY <1>4
  <2> QED
    BY <1>1, <1>3, <2>1, Zenon DEF KiStates
<1>6. ki'.pc = next /\ ki'.binary = ki.binary /\ ki'.leg = ki.leg /\ ki'.rng = ki.rng /\ ki'.start = ki.start
  BY <1>1 DEF KiStates
<1>7. ki'.base = ki.base /\ ki'.size = ki.size /\ ki'.mem = ki.mem /\ ki'.entry = ki.entry
  BY <1>1 DEF KiStates
<1>8. ki'.segments = ki.segments /\ ki'.relocations = ki.relocations /\ ki'.i = 1
  BY <1>1 DEF KiStates
<1>9. ParseInv(ki')
  <2>1. All(ki.relocations) = Of(Before(ki.binary.relas, ki.i), "RELATIVE") /\ All(ki.segments) = LoadsOf(ki.binary)
    BY <1>1 DEF KiInv, ParseInv
  <2>2. Before(ki.binary.relas, ki.i) = All(ki.binary.relas)
    BY <1>1, <1>2, <1>3, AllOf
  <2> QED
    BY <1>4, <1>6, <1>8, <2>1, <2>2 DEF ParseInv
<1>10. EntryInv(ki')
  <2>1. ki.entry = ki.binary.entry
    BY <1>1 DEF KiInv, EntryInv
  <2> QED
    BY <1>4, <1>6, <1>7, <2>1 DEF EntryInv
<1>11. RngInv(ki') /\ PlaceInv(ki') /\ MemInv(ki')
  <2>1. /\ ki'.pc \in {"phdrs", "relas", "allocate", "random", "done"}
        /\ ki'.pc = "allocate" => ki.leg = "uefi"
        /\ ki'.pc \in {"random", "done"} => ki.leg = "legacy"
        /\ ki'.pc = "done" => ~ki.binary.pie
    BY <1>4, <1>6
  <2>2. ki.pc \in {"parse", "phdrs", "relas"} /\ RngInv(ki) /\ PlaceInv(ki) /\ MemInv(ki)
    BY <1>1 DEF KiInv
  <2> QED
    BY <1>1, <1>6, <1>7, <2>1, <2>2, ParsingInv, Zenon
<1> QED
  BY <1>5, <1>9, <1>10, <1>11 DEF KiInv

-----------------------------------------------------------------------------
LEMMA AllocateImageInv == KiInv /\ AllocateImage => KiInv'
PROOF
<1> SUFFICES ASSUME KiInv, AllocateImage PROVE KiInv'
  OBVIOUS
<1> DEFINE size == PageEnd(ki.segments) - PageStart(ki.segments)
           from == PageStart(ki.segments)
           cells == [k \in 0 .. size - 1 |-> ZeroCell]
<1>1. ki \in KiStates /\ ki.pc = "allocate" /\ ki.binary \in ElfKernels /\ ki.segments \in Seq(Phdrs)
      /\ ki.mem \in Memories /\ ki.leg \in {"uefi", "legacy"}
  BY StateTyped DEF KiInv, AllocateImage
<1>2. ki.leg = "uefi" /\ ki.base = NoBase /\ ki.mem = Fresh /\ ki.i = 1 /\ ki.entry = ki.binary.entry
      /\ All(ki.segments) = LoadsOf(ki.binary)
  BY <1>1 DEF KiInv, PlaceInv, ParseInv, EntryInv
<1>3. CASE KiPanics
  BY <1>1, <1>2, <1>3, PanicInv DEF KiPanics
<1>4. ASSUME RangeFits(ki.segments), NEW at \in Bases,
             ki' = [ki EXCEPT !.pc = "copy", !.base = at, !.size = size, !.start = from,
                              !.mem = Write(ki.mem, at, cells)]
      PROVE  KiInv'
  <2>1. at \in Nat
    BY KernelImageAssumption
  <2>2. /\ from \in Nat /\ PageEnd(ki.segments) \in Nat
        /\ \A s \in All(ki.segments) : from <= s.vaddr /\ s.vaddr + s.mem <= PageEnd(ki.segments)
        /\ (\E s \in All(ki.segments) : s.vaddr < PageLen) => from = 0
    BY <1>1, RangeIs
  <2>3. size \in Nat /\ PageEnd(ki.segments) = from + size
    BY <1>4, <2>2 DEF RangeFits
  <2>4. /\ DOMAIN cells = 0 .. size - 1 /\ \A n \in 0 .. size - 1 : cells[n] = ZeroCell
        /\ \A n \in DOMAIN cells : cells[n] \in CellSet
    BY CellsTyped, Zenon
  <2> HIDE DEF cells, size, from
  <2> DEFINE new == Write(ki.mem, at, cells)
  <2>5. /\ new \in Memories
        /\ \A a \in 0 .. MemLen - 1 : new[a] = IF a - at \in 0 .. size - 1 THEN ZeroCell ELSE ki.mem[a]
    <3>1. /\ new \in Memories
          /\ \A a \in 0 .. MemLen - 1 : new[a] = IF a - at \in DOMAIN cells THEN cells[a - at] ELSE ki.mem[a]
      BY <1>1, <2>4, WriteIs, Zenon
    <3> QED
      BY <2>4, <3>1, Zenon
  <2>6. ki' = [ki EXCEPT !.pc = "copy", !.base = at, !.size = size, !.start = from, !.mem = new]
    BY <1>4, Zenon
  <2> HIDE DEF new
  <2>7. ki' \in KiStates
    <3>1. at \in Nat \cup {NoBase}
      BY <2>1
    <3> QED
      BY <1>1, <2>2, <2>3, <2>5, <2>6, <3>1, Zenon DEF KiStates
  <2>8. ki'.pc = "copy" /\ ki'.binary = ki.binary /\ ki'.leg = ki.leg /\ ki'.rng = ki.rng
    BY <1>1, <2>6 DEF KiStates
  <2>9. ki'.base = at /\ ki'.size = size /\ ki'.mem = new /\ ki'.start = from
    BY <1>1, <2>6 DEF KiStates
  <2>10. ki'.segments = ki.segments /\ ki'.relocations = ki.relocations /\ ki'.i = 1 /\ ki'.entry = ki.entry
    BY <1>1, <1>2, <2>6 DEF KiStates
  <2>11. ParseInv(ki')
    BY <1>1, <2>8, <2>10, ParsedSame DEF KiInv
  <2>12. EntryInv(ki')
    BY <1>2, <2>8, <2>10 DEF EntryInv
  <2>13. RngInv(ki')
    BY <1>1, <2>8, RngSame DEF KiInv
  <2>14. Linked(ki.binary) => Origin(ki') = from
    <3>1. Linked(ki.binary) /\ ki.binary.pie => from = 0
      BY <1>1, <1>2, <2>2, LinkedParts, Zenon
    <3>2. ki'.leg # "legacy"
      BY <1>2, <2>8
    <3> QED
      BY <2>8, <2>9, <3>1, <3>2, Zenon DEF Origin
  <2>15. PlaceInv(ki')
    BY <1>2, <2>1, <2>8, <2>9, <2>14 DEF PlaceInv, NoBase
  <2>16. ASSUME Linked(ki.binary) PROVE InImage(ki')
    <3>1. Origin(ki') = from
      BY <2>14, <2>16
    <3>2. \A s \in LoadsOf(ki.binary) : from <= s.vaddr /\ s.vaddr + s.mem <= from + size
      BY <1>2, <2>2, <2>3, Zenon
    <3> QED
      BY <2>8, <2>9, <3>1, <3>2, Zenon DEF InImage
  <2>17. Holds(ki', {}, {})
    <3> SUFFICES ASSUME NEW a \in 0 .. MemLen - 1
                 PROVE  ki'.mem[a] = IF a \in ki'.base .. ki'.base + ki'.size - 1
                                     THEN WithWords({}, a - ki'.base, ki'.start, Plain(ki', {}, a)) ELSE OtherCell
      BY Zenon DEF Holds
    <3>1. a - at \in 0 .. size - 1 <=> a \in at .. at + size - 1
      BY <2>1, <2>3
    <3>2. WithWords({}, a - ki'.base, ki'.start, Plain(ki', {}, a)) = Plain(ki', {}, a)
      BY EmptyWords, Zenon
    <3>3. Plain(ki', {}, a) = Loaded({}, Origin(ki') + a - ki'.base)
      BY <1>2, <2>8, Zenon DEF Plain
    <3>4. Loaded({}, Origin(ki') + a - ki'.base) = ZeroCell
      BY Zenon DEF Loaded, ByteFrom
    <3>5. ki.mem[a] = OtherCell
      BY <1>2, FreshIs
    <3>6. new[a] = IF a - at \in 0 .. size - 1 THEN ZeroCell ELSE ki.mem[a]
      BY <2>5, Zenon
    <3> QED
      BY <2>9, <3>1, <3>2, <3>3, <3>4, <3>5, <3>6, Zenon
  <2>18. MemInv(ki')
    <3>1. Before(ki.segments, 1) = {}
      BY <1>1, AllOf
    <3>2. Copied(ki') = {} /\ Applied(ki') = {}
      BY <2>8, <2>10, <3>1 DEF Copied, Applied
    <3> QED
      BY <2>8, <2>16, <2>17, <3>2, Zenon DEF MemInv
  <2> QED
    BY <2>7, <2>11, <2>12, <2>13, <2>15, <2>18 DEF KiInv
<1> QED
  BY <1>3, <1>4, Zenon DEF AllocateImage

LEMMA CopySegmentInv == KiInv /\ CopySegment => KiInv'
PROOF
<1> SUFFICES ASSUME KiInv, CopySegment PROVE KiInv'
  OBVIOUS
<1> DEFINE seg == ki.segments[ki.i]
           at == ki.base + (seg.vaddr - ki.start)
           cells == [k \in 0 .. seg.file - 1 |-> FileCell(seg.offset + k)]
           new == Write(ki.mem, at, cells)
<1>1. ki \in KiStates /\ ki.pc = "copy" /\ ki.binary \in ElfKernels /\ ki.segments \in Seq(Phdrs)
      /\ ki.i \in Nat \ {0} /\ ki.mem \in Memories /\ ki.leg \in {"uefi", "legacy"}
  BY StateTyped DEF KiInv, CopySegment
<1>2. ki.leg = "uefi" /\ ki.base \in Nat /\ ki.entry = ki.binary.entry /\ All(ki.segments) = LoadsOf(ki.binary)
      /\ (Linked(ki.binary) => ki.start = Origin(ki))
  BY <1>1 DEF KiInv, PlaceInv, ParseInv, EntryInv
<1>3. ki.i \in 1..Len(ki.segments) /\ ki.i + 1 \in Nat \ {0}
  BY <1>1 DEF CopySegment
<1>4. seg \in Phdrs /\ seg \in LoadsOf(ki.binary)
      /\ Before(ki.segments, ki.i + 1) = Before(ki.segments, ki.i) \cup {seg}
      /\ Before(ki.segments, ki.i) \subseteq LoadsOf(ki.binary)
  <2>1. \A n \in 1..Len(ki.segments) : ki.segments[n] \in Phdrs
          /\ Before(ki.segments, n + 1) = Before(ki.segments, n) \cup {ki.segments[n]}
    <3> DEFINE segments == ki.segments
    <3>1. segments \in Seq(Phdrs)
      BY <1>1
    <3> HIDE DEF segments
    <3>2. \A n \in 1..Len(segments) : segments[n] \in Phdrs
            /\ Before(segments, n + 1) = Before(segments, n) \cup {segments[n]}
      BY <3>1, AllOf, Zenon
    <3> QED
      BY <3>2 DEF segments
  <2>2. seg \in All(ki.segments)
    BY <1>1, <1>3 DEF All
  <2>3. Before(ki.segments, ki.i) \subseteq All(ki.segments)
    BY Zenon DEF Before, All
  <2> QED
    BY <1>2, <1>3, <2>1, <2>2, <2>3, Zenon
<1>5. seg.file \in Nat /\ seg.offset \in Nat
  BY <1>4, PhdrTyped
<1>6. CASE seg.offset + seg.file > ki.binary.bytes
  <2>1. ki' = [ki EXCEPT !.pc = "panicked"]
    BY <1>6, Zenon DEF CopySegment, KiPanics
  <2>2. ~Linked(ki.binary)
    <3>1. ki.binary.bytes \in Nat
      BY <1>1, KernelTyped
    <3>2. Linked(ki.binary) => seg.offset + seg.file <= ki.binary.bytes
      BY <1>1, <1>4, LinkedParts, Zenon
    <3> QED
      BY <1>5, <1>6, <3>1, <3>2
  <2> QED
    BY <1>1, <2>1, <2>2, PanicInv
<1>7. CASE ~(seg.offset + seg.file > ki.binary.bytes)
  <2>1. ki' = [ki EXCEPT !.i = ki.i + 1, !.mem = new]
    BY <1>7, Zenon DEF CopySegment, Offset
  <2>2. /\ DOMAIN cells = 0 .. seg.file - 1 /\ \A n \in 0 .. seg.file - 1 : cells[n] = FileCell(seg.offset + n)
        /\ \A n \in DOMAIN cells : cells[n] \in CellSet
    <3>1. \A n \in 0 .. seg.file - 1 : seg.offset + n \in Int
      BY <1>5
    <3> QED
      BY <3>1, CellsTyped, Zenon
  <2>3. at = ki.base + (seg.vaddr - ki.start)
    OBVIOUS
  <2> HIDE DEF cells, at, seg
  <2>4. /\ new \in Memories
        /\ \A a \in 0 .. MemLen - 1 :
             new[a] = IF a - at \in 0 .. seg.file - 1 THEN FileCell(seg.offset + (a - at)) ELSE ki.mem[a]
    <3>1. /\ new \in Memories
          /\ \A a \in 0 .. MemLen - 1 : new[a] = IF a - at \in DOMAIN cells THEN cells[a - at] ELSE ki.mem[a]
      BY <1>1, <2>2, WriteIs, ZenonT(40)
    <3> QED
      BY <2>2, <3>1, Zenon
  <2> HIDE DEF new
  <2>5. ki' \in KiStates
    BY <1>1, <1>3, <2>1, <2>4, Zenon DEF KiStates
  <2>6. ki'.pc = "copy" /\ ki'.binary = ki.binary /\ ki'.leg = ki.leg /\ ki'.rng = ki.rng
    BY <1>1, <2>1 DEF KiStates
  <2>7. ki'.base = ki.base /\ ki'.size = ki.size /\ ki'.mem = new /\ ki'.start = ki.start
    BY <1>1, <2>1 DEF KiStates
  <2>8. ki'.segments = ki.segments /\ ki'.relocations = ki.relocations /\ ki'.i = ki.i + 1 /\ ki'.entry = ki.entry
    BY <1>1, <2>1 DEF KiStates
  <2>9. ParseInv(ki')
    BY <1>1, <2>6, <2>8, ParsedSame DEF KiInv
  <2>10. EntryInv(ki')
    BY <1>2, <2>6, <2>8 DEF EntryInv
  <2>11. RngInv(ki')
    BY <1>1, <2>6, RngSame DEF KiInv
  <2>12. Origin(ki') = Origin(ki)
    BY <2>6, <2>7 DEF Origin
  <2>13. PlaceInv(ki')
    BY <1>2, <2>6, <2>7, <2>12 DEF PlaceInv, NoBase
  <2>14. MemInv(ki')
    <3> SUFFICES ASSUME Linked(ki.binary) PROVE InImage(ki') /\ Holds(ki', Copied(ki'), Applied(ki'))
      BY <2>6, Zenon DEF MemInv
    <3>1. Copied(ki) = Before(ki.segments, ki.i) /\ Applied(ki) = {} /\ Applied(ki') = {}
          /\ Copied(ki') = Copied(ki) \cup {seg}
      BY <1>1, <1>4, <2>6, <2>8 DEF Copied, Applied
    <3>2. ki.base # NoBase
      BY <1>2 DEF NoBase
    <3>3. InImage(ki) /\ Holds(ki, Copied(ki), {})
      BY <1>2, <3>1, <3>2, Zenon DEF KiInv, MemInv
    <3>4. InImage(ki')
      BY <2>6, <2>7, <2>12, <3>3, Zenon DEF InImage
    <3>5. Copied(ki) \subseteq LoadsOf(ki.binary)
      BY <1>4, <3>1
    <3>6. \A a \in 0 .. MemLen - 1 :
            ki'.mem[a] = IF a - at \in 0 .. seg.file - 1 THEN FileCell(seg.offset + (a - at)) ELSE ki.mem[a]
      BY <2>4, <2>7, Zenon
    <3>7. Holds(ki', Copied(ki) \cup {seg}, {})
      BY <1>1, <1>2, <1>4, <2>3, <2>6, <2>7, <2>12, <3>3, <3>5, <3>6, CopyHolds, Zenon
    <3> QED
      BY <3>1, <3>4, <3>7
  <2> QED
    BY <2>5, <2>9, <2>10, <2>11, <2>13, <2>14 DEF KiInv
<1> QED
  BY <1>6, <1>7

LEMMA SegmentsCopiedInv == KiInv /\ SegmentsCopied => KiInv'
PROOF
<1> SUFFICES ASSUME KiInv, SegmentsCopied PROVE KiInv'
  OBVIOUS
<1> DEFINE next == InPlace(ki.binary)
<1>1. ki \in KiStates /\ ki.pc = "copy" /\ ki.binary \in ElfKernels /\ ki.segments \in Seq(Phdrs)
      /\ ki.i \in Nat /\ ki.leg \in {"uefi", "legacy"} /\ ki' = [ki EXCEPT !.pc = next]
  BY StateTyped DEF KiInv, SegmentsCopied
<1>2. ki.leg = "uefi" /\ ki.base \in Nat /\ ki.entry = ki.binary.entry
  BY <1>1 DEF KiInv, PlaceInv, EntryInv
<1>3. /\ next \in {"random", "done"}
      /\ next = "random" => ki.binary.pie
      /\ next = "done" => ~ki.binary.pie
  BY DEF InPlace
<1> HIDE DEF next
<1>4. ki' \in KiStates
  <2>1. next \in {"parse", "phdrs", "relas", "allocate", "copy", "random", "relocate", "done", "panicked"}
    BY <1>3
  <2> QED
    BY <1>1, <2>1, Zenon DEF KiStates
<1>5. ki'.pc = next /\ ki'.binary = ki.binary /\ ki'.leg = ki.leg /\ ki'.rng = ki.rng /\ ki'.start = ki.start
  BY <1>1 DEF KiStates
<1>6. ki'.base = ki.base /\ ki'.size = ki.size /\ ki'.mem = ki.mem /\ ki'.entry = ki.entry
  BY <1>1 DEF KiStates
<1>7. ki'.segments = ki.segments /\ ki'.relocations = ki.relocations
  BY <1>1 DEF KiStates
<1>8. ParseInv(ki')
  <2>1. ki'.pc \in {"copy", "random", "relocate", "done"}
    BY <1>3, <1>5
  <2> QED
    BY <1>1, <1>5, <1>7, <2>1, ParsedSame DEF KiInv
<1>9. EntryInv(ki')
  BY <1>2, <1>3, <1>5, <1>6 DEF EntryInv
<1>10. RngInv(ki')
  BY <1>1, <1>5, RngSame DEF KiInv
<1>11. PlaceInv(ki')
  BY <1>2, <1>3, <1>5, <1>6 DEF PlaceInv, NoBase
<1>12. MemInv(ki')
  <2>1. Before(ki.segments, ki.i) = All(ki.segments)
    BY <1>1, AllOf DEF SegmentsCopied
  <2>2. Copied(ki') = Copied(ki) /\ Applied(ki') = Applied(ki)
    BY <1>1, <1>3, <1>5, <1>7, <2>1 DEF Copied, Applied
  <2>3. Origin(ki') = Origin(ki)
    BY <1>5 DEF Origin
  <2> QED
    BY <1>5, <1>6, <2>2, <2>3, MemSame DEF KiInv
<1> QED
  BY <1>4, <1>8, <1>9, <1>10, <1>11, <1>12 DEF KiInv

-----------------------------------------------------------------------------
LEMMA SlotIs ==
  ASSUME NEW value \in Nat, NEW leg \in {"uefi", "legacy"}
  PROVE  ImageBase + (value % Slots[leg]) * SlotLen \in ImageBase .. ImageBase + (Slots[leg] - 1) * SlotLen
PROOF
<1>1. ImageBase \in Nat /\ SlotLen \in Nat /\ Slots[leg] \in Nat \ {0}
  BY KernelImageAssumption
<1> DEFINE n == Slots[leg]
           r == value % n
<1> HIDE DEF n
<1>2. n \in Nat \ {0}
  BY <1>1 DEF n
<1>3. r \in 0 .. n - 1
  BY <1>2
<1> HIDE DEF r
<1>4. r * SlotLen \in Nat /\ (n - 1) * SlotLen \in Nat /\ r * SlotLen <= (n - 1) * SlotLen
  BY <1>1, <1>2, <1>3
<1>5. ImageBase + r * SlotLen \in ImageBase .. ImageBase + (n - 1) * SlotLen
  BY <1>1, <1>4
<1> QED
  BY <1>5 DEF n, r

(* Drawing a base: the image is where it was, at a new virtual address. *)
LEMMA RandomizeInv ==
  ASSUME KiInv, ki.pc = "random", NEW value \in Nat, NEW rng \in Rngs,
         ki' = [ki EXCEPT !.pc = "relocate", !.i = 1,
                          !.start = ImageBase + (value % Slots[ki.leg]) * SlotLen, !.rng = rng],
         rng.failures < Attempts, rng.draws <= 4 * Attempts
  PROVE  KiInv'
PROOF
<1> DEFINE start == ImageBase + (value % Slots[ki.leg]) * SlotLen
<1>1. ki \in KiStates /\ ki.binary \in ElfKernels /\ ki.leg \in {"uefi", "legacy"} /\ ki.relocations \in Seq(Relas)
  BY StateTyped DEF KiInv
<1>2. ki.binary.pie /\ ki.entry = ki.binary.entry /\ ki.base \in Nat
  BY DEF KiInv, EntryInv, PlaceInv
<1>3. start \in ImageBase .. ImageBase + (Slots[ki.leg] - 1) * SlotLen /\ start \in Nat /\ 1 \in Nat \ {0}
  <2>1. start \in ImageBase .. ImageBase + (Slots[ki.leg] - 1) * SlotLen
    BY <1>1, SlotIs, Zenon
  <2>2. ImageBase \in Nat
    BY KernelImageAssumption
  <2> HIDE DEF start
  <2> QED
    BY <2>1, <2>2
<1>4. ki' = [ki EXCEPT !.pc = "relocate", !.i = 1, !.start = start, !.rng = rng]
  BY Zenon
<1> HIDE DEF start
<1>5. ki' \in KiStates
  BY <1>1, <1>3, <1>4, Zenon DEF KiStates
<1>6. ki'.pc = "relocate" /\ ki'.binary = ki.binary /\ ki'.leg = ki.leg /\ ki'.rng = rng /\ ki'.start = start
  BY <1>1, <1>4 DEF KiStates
<1>7. ki'.base = ki.base /\ ki'.size = ki.size /\ ki'.mem = ki.mem /\ ki'.entry = ki.entry
  BY <1>1, <1>4 DEF KiStates
<1>8. ki'.segments = ki.segments /\ ki'.relocations = ki.relocations /\ ki'.i = 1
  BY <1>1, <1>4 DEF KiStates
<1>9. ParseInv(ki')
  BY <1>6, <1>8, ParsedSame DEF KiInv
<1>10. EntryInv(ki')
  BY <1>2, <1>3, <1>6, <1>7 DEF EntryInv
<1>11. RngInv(ki')
  BY <1>6 DEF RngInv
<1>12. PlaceInv(ki')
  BY <1>2, <1>6, <1>7 DEF KiInv, PlaceInv, NoBase
<1>13. MemInv(ki')
  <2>1. Before(ki.relocations, 1) = {}
    BY <1>1, AllOf
  <2>2. Copied(ki') = Copied(ki) /\ Applied(ki') = {} /\ Applied(ki) = {}
    BY <1>6, <1>8, <2>1 DEF Copied, Applied
  <2>3. Origin(ki') = Origin(ki)
    BY <1>2, <1>6 DEF Origin
  <2> QED
    BY <1>6, <1>7, <2>2, <2>3, MemSame DEF KiInv
<1> QED
  BY <1>5, <1>9, <1>10, <1>11, <1>12, <1>13 DEF KiInv

LEMMA RngTyped ==
  ASSUME NEW rng \in Rngs
  PROVE  /\ rng.failures \in Nat /\ rng.halves \in {0, 1} /\ rng.draws \in Nat
         /\ rng.source \in {"rdseed", "rdrand", "rdtsc"}
PROOF
  BY DEF Rngs

LEMMA SameRng ==
  ASSUME KiInv, ki.pc = "random", NEW value \in Nat, ki' = Randomize(value)
  PROVE  KiInv'
PROOF
<1>1. ki \in KiStates /\ ki.rng \in Rngs
  BY StateTyped DEF KiInv
<1>2. ki.rng.failures < Attempts /\ ki.rng.draws <= 4 * Attempts
  BY DEF KiInv, RngInv
<1>3. ki' = [ki EXCEPT !.pc = "relocate", !.i = 1, !.start = ImageBase + (value % Slots[ki.leg]) * SlotLen,
                       !.rng = ki.rng]
  BY <1>1 DEF Randomize, KiStates
<1> QED
  BY <1>1, <1>2, <1>3, RandomizeInv

LEMMA UefiRandomInv == KiInv /\ UefiRandom => KiInv'
PROOF
<1> SUFFICES ASSUME KiInv, UefiRandom PROVE KiInv'
  OBVIOUS
<1>1. PICK value \in Randoms \cup {0} : ki' = Randomize(value)
  BY Zenon DEF UefiRandom
<1>2. value \in Nat /\ ki.pc = "random"
  BY KernelImageAssumption DEF UefiRandom
<1> QED
  BY <1>1, <1>2, SameRng

LEMMA ReadCounterInv == KiInv /\ ReadCounter => KiInv'
PROOF
<1> SUFFICES ASSUME KiInv, ReadCounter PROVE KiInv'
  OBVIOUS
<1>1. PICK value \in Randoms : ki' = Randomize(value)
  BY Zenon DEF ReadCounter
<1>2. value \in Nat /\ ki.pc = "random"
  BY KernelImageAssumption DEF ReadCounter
<1> QED
  BY <1>1, <1>2, SameRng

(* A draw that gives no base changes the generator only. *)
LEMMA DrawnInv ==
  ASSUME KiInv, ki.pc = "random", NEW rng \in Rngs, ki' = [ki EXCEPT !.rng = rng], RngInv(ki')
  PROVE  KiInv'
PROOF
<1>1. ki \in KiStates
  BY DEF KiInv
<1>2. ki' \in KiStates
  BY <1>1, Zenon DEF KiStates
<1>3. ki'.pc = ki.pc /\ ki'.binary = ki.binary /\ ki'.leg = ki.leg /\ ki'.start = ki.start /\ ki'.i = ki.i
  BY <1>1 DEF KiStates
<1>4. ki'.base = ki.base /\ ki'.size = ki.size /\ ki'.mem = ki.mem /\ ki'.entry = ki.entry
  BY <1>1 DEF KiStates
<1>5. ki'.segments = ki.segments /\ ki'.relocations = ki.relocations
  BY <1>1 DEF KiStates
<1>6. ParseInv(ki')
  BY <1>3, <1>5, ParsedSame DEF KiInv
<1>7. EntryInv(ki')
  BY <1>3, <1>4 DEF KiInv, EntryInv
<1>8. Origin(ki') = Origin(ki) /\ Copied(ki') = Copied(ki) /\ Applied(ki') = Applied(ki)
  BY <1>3, <1>5 DEF Origin, Copied, Applied
<1>9. PlaceInv(ki')
  BY <1>3, <1>4, <1>8 DEF KiInv, PlaceInv
<1>10. MemInv(ki')
  BY <1>3, <1>4, <1>8, MemSame DEF KiInv
<1> QED
  BY <1>2, <1>6, <1>7, <1>9, <1>10 DEF KiInv

LEMMA DrawInv == KiInv /\ Draw => KiInv'
PROOF
<1> SUFFICES ASSUME KiInv, Draw PROVE KiInv'
  OBVIOUS
<1> DEFINE old == ki.rng
           rng == [old EXCEPT !.draws = @ + 1]
           weaker == IF rng.source = "rdseed" /\ rng.rand THEN "rdrand" ELSE "rdtsc"
           first == [rng EXCEPT !.halves = 1, !.failures = 0]
           again == [rng EXCEPT !.failures = @ + 1]
           worse == [rng EXCEPT !.source = weaker, !.failures = 0, !.halves = 0]
<1>1. ki \in KiStates /\ old \in Rngs /\ ki.pc = "random" /\ old.source # "rdtsc" /\ Attempts \in Nat \ {0}
  BY StateTyped, KernelImageAssumption DEF KiInv, Draw
<1>2. old.failures \in Nat /\ old.halves \in {0, 1} /\ old.draws \in Nat /\ old.source \in {"rdseed", "rdrand"}
  BY <1>1, RngTyped
<1>3. /\ old.failures < Attempts
      /\ old.source = "rdseed" => old.draws <= (IF old.halves = 0 THEN 0 ELSE Attempts) + old.failures
      /\ old.source = "rdrand" => old.draws <= 2 * Attempts + (IF old.halves = 0 THEN 0 ELSE Attempts) + old.failures
  BY <1>1 DEF KiInv, RngInv
<1>4. rng \in Rngs /\ rng.failures = old.failures /\ rng.halves = old.halves /\ rng.draws = old.draws + 1
      /\ rng.source = old.source
  <2>1. old.draws + 1 \in Nat
    BY <1>2
  <2>2. rng \in Rngs
    BY <1>1, <2>1, Zenon DEF Rngs
  <2> QED
    BY <1>1, <2>2 DEF Rngs
<1>5. rng.draws <= 4 * Attempts
  BY <1>1, <1>2, <1>3, <1>4
<1>6. \/ rng.halves = 0 /\ ki' = [ki EXCEPT !.rng = first]
      \/ rng.halves = 1 /\ \E value \in Randoms : ki' = [Randomize(value) EXCEPT !.rng = rng]
      \/ ki' = [ki EXCEPT !.rng = IF rng.failures + 1 < Attempts THEN again ELSE worse]
  BY Zenon DEF Draw
<1>7. weaker \in {"rdrand", "rdtsc"} /\ (old.source = "rdrand" => weaker = "rdtsc")
  BY <1>4, Zenon
<1> HIDE DEF rng, weaker
<1>8. CASE rng.halves = 0 /\ ki' = [ki EXCEPT !.rng = first]
  <2>1. first \in Rngs
    BY <1>4, Zenon DEF Rngs
  <2>2. first.failures = 0 /\ first.halves = 1 /\ first.draws = rng.draws /\ first.source = rng.source
    BY <1>4 DEF Rngs
  <2> HIDE DEF first
  <2>3. ki'.rng = first
    BY <1>1, <1>8 DEF KiStates
  <2>4. RngInv(ki')
    BY <1>1, <1>2, <1>3, <1>4, <1>5, <1>8, <2>2, <2>3 DEF RngInv
  <2> QED
    BY <1>1, <1>8, <2>1, <2>4, DrawnInv
<1>9. CASE rng.halves = 1 /\ \E value \in Randoms : ki' = [Randomize(value) EXCEPT !.rng = rng]
  <2>1. PICK value \in Randoms : ki' = [Randomize(value) EXCEPT !.rng = rng]
    BY <1>9
  <2>2. value \in Nat
    BY KernelImageAssumption
  <2>3. ki' = [ki EXCEPT !.pc = "relocate", !.i = 1, !.start = ImageBase + (value % Slots[ki.leg]) * SlotLen,
                         !.rng = rng]
    BY <2>1, Zenon DEF Randomize
  <2> QED
    BY <1>1, <1>3, <1>4, <1>5, <2>2, <2>3, RandomizeInv
<1>10. CASE rng.failures + 1 < Attempts /\ ki' = [ki EXCEPT !.rng = again]
  <2>0. rng.failures + 1 \in Nat
    BY <1>2, <1>4
  <2>1. again \in Rngs
    BY <1>4, <2>0, Zenon DEF Rngs
  <2>2. again.failures = rng.failures + 1 /\ again.halves = rng.halves /\ again.draws = rng.draws
        /\ again.source = rng.source
    BY <1>4 DEF Rngs
  <2> HIDE DEF again
  <2>3. ki'.rng = again
    BY <1>1, <1>10 DEF KiStates
  <2>4. RngInv(ki')
    BY <1>1, <1>2, <1>3, <1>4, <1>5, <1>10, <2>2, <2>3 DEF RngInv
  <2> QED
    BY <1>1, <1>10, <2>1, <2>4, DrawnInv
<1>11. CASE ~(rng.failures + 1 < Attempts) /\ ki' = [ki EXCEPT !.rng = worse]
  <2>1. worse \in Rngs
    BY <1>4, <1>7, Zenon DEF Rngs
  <2>2. worse.failures = 0 /\ worse.halves = 0 /\ worse.draws = rng.draws /\ worse.source = weaker
    BY <1>4 DEF Rngs
  <2> HIDE DEF worse
  <2>3. ki'.rng = worse
    BY <1>1, <1>11 DEF KiStates
  <2>4. RngInv(ki')
    BY <1>1, <1>2, <1>3, <1>4, <1>5, <1>7, <1>11, <2>2, <2>3 DEF RngInv
  <2> QED
    BY <1>1, <1>11, <2>1, <2>4, DrawnInv
<1> QED
  BY <1>6, <1>8, <1>9, <1>10, <1>11, Zenon

-----------------------------------------------------------------------------
LEMMA ApplyRelocationInv == KiInv /\ ApplyRelocation => KiInv'
PROOF
<1> SUFFICES ASSUME KiInv, ApplyRelocation PROVE KiInv'
  OBVIOUS
<1> DEFINE relocations == ki.relocations
           reloc == relocations[ki.i]
           at == ki.base + reloc.offset
           value == (ki.start + reloc.addend) % AddressEnd
           cells == [k \in 0 .. WordLen - 1 |-> WordCell(value, k)]
           new == Write(ki.mem, at, cells)
<1>1. ki \in KiStates /\ ki.pc = "relocate" /\ ki.binary \in ElfKernels /\ relocations \in Seq(Relas)
      /\ ki.i \in Nat \ {0} /\ ki.mem \in Memories /\ ki.leg \in {"uefi", "legacy"} /\ ki.start \in Nat
  BY StateTyped DEF KiInv, ApplyRelocation
<1>2. ki.binary.pie /\ ki.base \in Nat /\ All(relocations) = Of(All(ki.binary.relas), "RELATIVE")
  BY <1>1 DEF KiInv, PlaceInv, ParseInv, EntryInv
<1>3. ki.i \in 1..Len(relocations) /\ ki.i + 1 \in Nat \ {0}
  BY <1>1 DEF ApplyRelocation
<1>4. reloc \in Relas /\ reloc \in Patches(ki.binary)
      /\ Before(relocations, ki.i + 1) = Before(relocations, ki.i) \cup {reloc}
      /\ Before(relocations, ki.i) \subseteq Patches(ki.binary)
  <2>1. reloc \in All(relocations)
    BY <1>1, <1>3 DEF All
  <2>2. Before(relocations, ki.i) \subseteq All(relocations)
    BY Zenon DEF Before, All
  <2>3. Patches(ki.binary) = All(relocations)
    BY <1>1, <1>2, LoadsAndPatches, Zenon
  <2> HIDE DEF relocations
  <2>4. \A n \in 1..Len(relocations) : relocations[n] \in Relas
          /\ Before(relocations, n + 1) = Before(relocations, n) \cup {relocations[n]}
    BY <1>1, AllOf, Zenon
  <2> QED
    BY <1>3, <2>1, <2>2, <2>3, <2>4, Zenon
<1>5. ki' = [ki EXCEPT !.i = ki.i + 1, !.mem = new]
  BY Zenon DEF ApplyRelocation
<1>6. at = ki.base + reloc.offset /\ value = (ki.start + reloc.addend) % AddressEnd
  OBVIOUS
<1>7. value \in Int
  <2>1. reloc.addend \in Int /\ AddressEnd \in Nat \ {0}
    BY <1>4, RelaTyped, KernelImageAssumption
  <2> QED
    BY <1>1, <2>1
<1> HIDE DEF value
<1>8. /\ DOMAIN cells = 0 .. WordLen - 1 /\ \A n \in 0 .. WordLen - 1 : cells[n] = WordCell(value, n)
      /\ \A n \in DOMAIN cells : cells[n] \in CellSet
  <2>1. \A n \in 0 .. WordLen - 1 : n \in Int
    BY KernelImageAssumption
  <2> QED
    BY <1>7, <2>1, CellsTyped, Zenon
<1> HIDE DEF cells, at, reloc
<1>9. /\ new \in Memories
      /\ \A a \in 0 .. MemLen - 1 : new[a] = IF a - at \in 0 .. WordLen - 1 THEN WordCell(value, a - at) ELSE ki.mem[a]
  <2>1. /\ new \in Memories
        /\ \A a \in 0 .. MemLen - 1 : new[a] = IF a - at \in DOMAIN cells THEN cells[a - at] ELSE ki.mem[a]
    BY <1>1, <1>8, WriteIs, Zenon
  <2> QED
    BY <1>8, <2>1, Zenon
<1> HIDE DEF new
<1>10. ki' \in KiStates
  BY <1>1, <1>3, <1>5, <1>9, Zenon DEF KiStates
<1>11. ki'.pc = "relocate" /\ ki'.binary = ki.binary /\ ki'.leg = ki.leg /\ ki'.rng = ki.rng
  BY <1>1, <1>5 DEF KiStates
<1>12. ki'.base = ki.base /\ ki'.size = ki.size /\ ki'.mem = new /\ ki'.start = ki.start
  BY <1>1, <1>5 DEF KiStates
<1>13. ki'.segments = ki.segments /\ ki'.relocations = relocations /\ ki'.i = ki.i + 1 /\ ki'.entry = ki.entry
  BY <1>1, <1>5 DEF KiStates
<1>14. ParseInv(ki')
  BY <1>1, <1>11, <1>13, ParsedSame DEF KiInv
<1>15. EntryInv(ki')
  BY <1>1, <1>11, <1>12, <1>13 DEF KiInv, EntryInv
<1>16. RngInv(ki')
  BY <1>1, <1>11, RngSame DEF KiInv
<1>17. PlaceInv(ki')
  BY <1>1, <1>2, <1>11, <1>12 DEF KiInv, PlaceInv, NoBase
<1>18. Origin(ki') = 0 /\ Origin(ki) = 0
  BY <1>2, <1>11 DEF Origin
<1>19. MemInv(ki')
  <2> SUFFICES ASSUME Linked(ki.binary), ki.leg = "uefi" \/ Flat(ki.binary)
               PROVE  InImage(ki') /\ Holds(ki', Copied(ki'), Applied(ki'))
    BY <1>11, Zenon DEF MemInv
  <2>1. Applied(ki) = Before(relocations, ki.i) /\ Applied(ki') = Applied(ki) \cup {reloc}
        /\ Copied(ki') = Copied(ki)
    BY <1>1, <1>4, <1>11, <1>13 DEF Copied, Applied
  <2>2. ki.base # NoBase
    BY <1>2 DEF NoBase
  <2>3. InImage(ki) /\ Holds(ki, Copied(ki), Applied(ki))
    BY <2>2, Zenon DEF KiInv, MemInv
  <2>4. InImage(ki')
    BY <1>11, <1>12, <1>18, <2>3, Zenon DEF InImage
  <2>5. Applied(ki) \subseteq Patches(ki.binary)
    BY <1>4, <2>1, Zenon
  <2>6. \A a \in 0 .. MemLen - 1 :
          ki'.mem[a] = IF a - at \in 0 .. WordLen - 1 THEN WordCell(value, a - at) ELSE ki.mem[a]
    BY <1>9, <1>12, Zenon
  <2>7. Origin(ki') = Origin(ki)
    BY <1>18
  <2>8. Holds(ki', Copied(ki), Applied(ki) \cup {reloc})
    <3>1. ki \in KiStates /\ Linked(ki.binary) /\ Origin(ki) = 0 /\ ki.base \in Nat /\ InImage(ki)
      BY <1>1, <1>2, <1>18, <2>3
    <3>2. ki'.leg = ki.leg /\ ki'.base = ki.base /\ ki'.size = ki.size /\ ki'.start = ki.start
      BY <1>11, <1>12
    <3>3. reloc \in Patches(ki.binary)
      BY <1>4
    <3>4. Holds(ki, Copied(ki), Applied(ki))
      BY <2>3
    <3> DEFINE copied == Copied(ki)
               patched == Applied(ki)
    <3>5. Holds(ki, copied, patched) /\ patched \subseteq Patches(ki.binary)
      BY <2>5, <3>4
    <3> HIDE DEF copied, patched
    <3>6. ASSUME NEW l, Origin(l) = Origin(ki), l.leg = ki.leg, l.base = ki.base, l.size = ki.size, l.start = ki.start,
                 \A a \in 0 .. MemLen - 1 :
                   l.mem[a] = IF a - at \in 0 .. WordLen - 1 THEN WordCell(value, a - at) ELSE ki.mem[a]
          PROVE  Holds(l, copied, patched \cup {reloc})
      BY <1>6, <3>1, <3>3, <3>5, <3>6, ApplyHolds, SMTT(30)
    <3>7. Holds(ki', copied, patched \cup {reloc})
      BY <2>6, <2>7, <3>2, <3>6, Zenon
    <3> QED
      BY <3>7 DEF copied, patched
  <2> QED
    BY <2>1, <2>4, <2>8
<1> QED
  BY <1>10, <1>14, <1>15, <1>16, <1>17, <1>19 DEF KiInv

LEMMA RelocateEntryInv == KiInv /\ RelocateEntry => KiInv'
PROOF
<1> SUFFICES ASSUME KiInv, RelocateEntry PROVE KiInv'
  OBVIOUS
<1> DEFINE entry == (ki.entry + ki.start) % AddressEnd
<1>1. ki \in KiStates /\ ki.pc = "relocate" /\ ki.binary \in ElfKernels /\ ki.relocations \in Seq(Relas)
      /\ ki.i \in Nat /\ ki.start \in Nat /\ ki.entry \in Nat
      /\ ki' = [ki EXCEPT !.pc = "done", !.entry = entry]
  BY StateTyped DEF KiInv, RelocateEntry
<1>2. ki.binary.pie /\ ki.base \in Nat /\ ki.entry = ki.binary.entry
      /\ ki.start \in ImageBase .. ImageBase + (Slots[ki.leg] - 1) * SlotLen
  BY <1>1 DEF KiInv, PlaceInv, EntryInv
<1>3. entry \in Nat /\ entry = (ki.start + ki.binary.entry) % AddressEnd
  <2>1. AddressEnd \in Nat \ {0} /\ ki.entry + ki.start = ki.start + ki.entry
    BY <1>1, KernelImageAssumption
  <2> QED
    BY <1>1, <1>2, <2>1
<1> HIDE DEF entry
<1>4. ki' \in KiStates
  BY <1>1, <1>3, Zenon DEF KiStates
<1>5. ki'.pc = "done" /\ ki'.binary = ki.binary /\ ki'.leg = ki.leg /\ ki'.rng = ki.rng /\ ki'.start = ki.start
  BY <1>1 DEF KiStates
<1>6. ki'.base = ki.base /\ ki'.size = ki.size /\ ki'.mem = ki.mem /\ ki'.entry = entry
  BY <1>1 DEF KiStates
<1>7. ki'.segments = ki.segments /\ ki'.relocations = ki.relocations
  BY <1>1 DEF KiStates
<1>8. ParseInv(ki')
  BY <1>1, <1>5, <1>7, ParsedSame DEF KiInv
<1>9. EntryInv(ki')
  BY <1>2, <1>3, <1>5, <1>6, Zenon DEF EntryInv
<1>10. RngInv(ki')
  BY <1>5, RngSame DEF KiInv
<1>11. PlaceInv(ki')
  BY <1>1, <1>2, <1>5, <1>6 DEF KiInv, PlaceInv, NoBase
<1>12. MemInv(ki')
  <2>1. Before(ki.relocations, ki.i) = All(ki.relocations)
    BY <1>1, AllOf DEF RelocateEntry
  <2>2. Copied(ki') = Copied(ki) /\ Applied(ki') = Applied(ki)
    BY <1>1, <1>2, <1>5, <1>7, <2>1 DEF Copied, Applied
  <2>3. Origin(ki') = Origin(ki)
    BY <1>5 DEF Origin
  <2> QED
    BY <1>5, <1>6, <2>2, <2>3, MemSame DEF KiInv
<1> QED
  BY <1>4, <1>8, <1>9, <1>10, <1>11, <1>12 DEF KiInv

LEMMA KiNextInv == KiInv /\ [KiNext]_ki => KiInv'
PROOF
<1>1. ASSUME KiInv, UNCHANGED ki PROVE KiInv'
  BY <1>1 DEF KiInv
<1> QED
  BY <1>1, ParseElfInv, ReadPhdrInv, PhdrsReadInv, ReadRelaInv, RelasReadInv, AllocateImageInv, CopySegmentInv,
     SegmentsCopiedInv, UefiRandomInv, DrawInv, ReadCounterInv, ApplyRelocationInv, RelocateEntryInv DEF KiNext

(* What memory holds at the end is what the ELF format says. *)
LEMMA DoneHolds ==
  ASSUME KiInv, ki.pc = "done", Linked(ki.binary), ki.leg = "uefi" \/ Flat(ki.binary),
         NEW a \in 0 .. MemLen - 1
  PROVE  LET b == ki.binary
             first == IF b.pie THEN 0 ELSE ki.start
         IN  ki.mem[a] = IF a \notin ki.base .. ki.base + ki.size - 1 THEN OtherCell
                         ELSE IF ki.leg = "legacy" /\ ~b.pie THEN FileCell(a - ki.base)
                         ELSE IF ki.leg = "legacy" /\ \A r \in Patches(b) :
                                   a - ki.base \notin r.offset .. r.offset + WordLen - 1
                         THEN FileCell(a - ki.base)
                         ELSE ElfCell(b, first + a - ki.base, ki.start)
PROOF
<1> DEFINE b == ki.binary
           first == IF b.pie THEN 0 ELSE ki.start
           v == a - ki.base
           image == ki.base .. ki.base + ki.size - 1
<1>1. ki \in KiStates /\ b \in ElfKernels /\ ki.leg \in {"uefi", "legacy"} /\ b.pie \in BOOLEAN
  BY StateTyped, KernelTyped DEF KiInv
<1>2. ki.base \in Nat /\ All(ki.segments) = LoadsOf(b) /\ All(ki.relocations) = Of(All(b.relas), "RELATIVE")
  BY DEF KiInv, PlaceInv, ParseInv
<1>3. ki.base # NoBase
  BY <1>2 DEF NoBase
<1>4. Copied(ki) = LoadsOf(b) /\ Applied(ki) = Patches(b)
  <2>1. b.pie => Patches(b) = All(ki.relocations)
    BY <1>1, <1>2, LoadsAndPatches, Zenon
  <2>2. ~b.pie => Patches(b) = {}
    BY <1>1, LoadsAndPatches, Zenon
  <2> QED
    BY <1>2, <2>1, <2>2 DEF Copied, Applied
<1>5. ki.mem[a] = IF a \in image THEN WithWords(Patches(b), v, ki.start, Plain(ki, LoadsOf(b), a)) ELSE OtherCell
  <2>1. Holds(ki, LoadsOf(b), Patches(b))
    BY <1>3, <1>4, Zenon DEF KiInv, MemInv
  <2> QED
    BY <2>1, Zenon DEF Holds
<1>6. ~b.pie => Patches(b) = {}
  BY <1>1, LoadsAndPatches, Zenon
<1>7. ElfCell(b, first + a - ki.base, ki.start)
        = WithWords(Patches(b), first + a - ki.base, ki.start, Loaded(LoadsOf(b), first + a - ki.base))
  BY ElfCellIs, Zenon
<1>8. b.pie => first + a - ki.base = v
  BY <1>2
<1>9. CASE ki.leg = "uefi"
  <2>1. Plain(ki, LoadsOf(b), a) = Loaded(LoadsOf(b), first + a - ki.base)
    BY <1>9 DEF Plain, Origin
  <2>2. WithWords(Patches(b), v, ki.start, Plain(ki, LoadsOf(b), a)) = ElfCell(b, first + a - ki.base, ki.start)
    <3>1. CASE b.pie
      BY <1>7, <1>8, <2>1, <3>1
    <3>2. CASE ~b.pie
      <4>1. \A w, bias, cell : WithWords(Patches(b), w, bias, cell) = cell
        BY <1>6, <3>2, EmptyWords, Zenon
      <4> HIDE DEF first, v
      <4>2. WithWords(Patches(b), v, ki.start, Plain(ki, LoadsOf(b), a)) = Plain(ki, LoadsOf(b), a)
        BY <4>1, Zenon
      <4>3. ElfCell(b, first + a - ki.base, ki.start) = Loaded(LoadsOf(b), first + a - ki.base)
        BY <1>7, <4>1, Zenon
      <4> QED
        BY <2>1, <4>2, <4>3, Zenon
    <3> QED
      BY <3>1, <3>2
  <2>3. ki.leg # "legacy"
    BY <1>9
  <2> HIDE DEF first, v, image
  <2>4. ki.mem[a] = IF a \notin image THEN OtherCell ELSE ElfCell(b, first + a - ki.base, ki.start)
    BY <1>5, <2>2, Zenon
  <2> QED
    BY <2>3, <2>4, Zenon DEF first, image
<1>10. CASE ki.leg = "legacy"
  <2>1. Plain(ki, LoadsOf(b), a) = FileCell(v)
    BY <1>10, Zenon DEF Plain
  <2>2. CASE ~b.pie
    <3>1. \A w, bias, cell : WithWords(Patches(b), w, bias, cell) = cell
      BY <1>6, <2>2, EmptyWords, Zenon
    <3>2. ki.mem[a] = IF a \notin image THEN OtherCell ELSE FileCell(v)
      BY <1>5, <2>1, <3>1, Zenon
    <3> QED
      BY <1>10, <2>2, <3>2, Zenon
  <2>3. CASE b.pie /\ \A r \in Patches(b) : ~WordOf(v, r)
    <3>1. WithWords(Patches(b), v, ki.start, FileCell(v)) = FileCell(v)
      BY <2>3, NoWords, Zenon
    <3>2. ki.mem[a] = IF a \notin image THEN OtherCell ELSE FileCell(v)
      BY <1>5, <2>1, <3>1, Zenon
    <3>3. \A r \in Patches(b) : a - ki.base \notin r.offset .. r.offset + WordLen - 1
      BY <2>3, Zenon DEF WordOf
    <3> QED
      BY <1>10, <2>3, <3>2, <3>3, Zenon
  <2>4. CASE b.pie /\ ~\A r \in Patches(b) : ~WordOf(v, r)
    <3>1. WithWords(Patches(b), v, ki.start, FileCell(v)) = WithWords(Patches(b), v, ki.start, Loaded(LoadsOf(b), v))
      BY <2>4, WordsOver, Zenon
    <3>2. ElfCell(b, first + a - ki.base, ki.start) = WithWords(Patches(b), v, ki.start, Loaded(LoadsOf(b), v))
      BY <1>7, <1>8, <2>4
    <3>3. ki.mem[a] = IF a \notin image THEN OtherCell ELSE ElfCell(b, first + a - ki.base, ki.start)
      BY <1>5, <2>1, <3>1, <3>2, Zenon
    <3>4. ~\A r \in Patches(b) : a - ki.base \notin r.offset .. r.offset + WordLen - 1
      BY <2>4, Zenon DEF WordOf
    <3> QED
      BY <1>10, <2>4, <3>3, <3>4, Zenon
  <2> QED
    BY <1>1, <2>2, <2>3, <2>4, Zenon
<1> QED
  BY <1>1, <1>9, <1>10, Zenon

(***************************************************************************)
(* A kernel a linker makes ends in memory cell for cell as the ELF format  *)
(* says, for every kernel, base and draw (parse_elf, load_kernel_segments, *)
(* apply_relocations, X86KaslrRng::get_u64).                               *)
(***************************************************************************)
THEOREM KernelIsLoaded == KiSpec => []ImageLoads
PROOF
<1>1. KiInv => ImageLoads
  <2> SUFFICES ASSUME KiInv PROVE ImageLoads
    OBVIOUS
  <2>1. ki.rng.draws <= 4 * Attempts
    BY DEF KiInv, RngInv
  <2>2. Linked(ki.binary) /\ ki.pc = "panicked" => ki.base = NoBase
    BY DEF KiInv, PlaceInv
  <2>3. ASSUME ki.pc = "done"
        PROVE  /\ ki.entry = IF ki.binary.pie THEN (ki.start + ki.binary.entry) % AddressEnd ELSE ki.binary.entry
               /\ ki.binary.pie => ki.start \in ImageBase .. ImageBase + (Slots[ki.leg] - 1) * SlotLen
    BY <2>3, Zenon DEF KiInv, EntryInv
  <2>4. DOMAIN ki.mem = 0 .. MemLen - 1
    <3>1. ki.mem \in Memories
      BY StateTyped DEF KiInv
    <3> QED
      BY <3>1, Zenon DEF Memories
  <2>5. ASSUME Linked(ki.binary), ki.pc = "done", ki.leg = "uefi" \/ Flat(ki.binary), NEW a \in DOMAIN ki.mem
        PROVE  LET b == ki.binary
                   first == IF b.pie THEN 0 ELSE ki.start
               IN  ki.mem[a] = IF a \notin ki.base .. ki.base + ki.size - 1 THEN OtherCell
                               ELSE IF ki.leg = "legacy" /\ ~b.pie THEN FileCell(a - ki.base)
                               ELSE IF ki.leg = "legacy" /\ \A r \in Patches(b) :
                                         a - ki.base \notin r.offset .. r.offset + WordLen - 1
                               THEN FileCell(a - ki.base)
                               ELSE ElfCell(b, first + a - ki.base, ki.start)
    BY <2>4, <2>5, DoneHolds, Zenon
  <2> QED
    BY <2>1, <2>2, <2>3, <2>5, Zenon DEF ImageLoads
<1> QED
  BY <1>1, KiInitInv, KiNextInv, PTL DEF KiSpec
=============================================================================
