--------------------------- MODULE LinuxBootProofs ---------------------------
(***************************************************************************)
(* The zero page that prepare_linux_boot makes, for every bzImage, memory  *)
(* map, initrd and load address.                                           *)
(***************************************************************************)
EXTENDS LinuxBoot, TLAPS

LinuxSpec == LinuxInit /\ [][LinuxNext]_lin

LinType ==
  [pc : {"parse", "load", "cmdline", "initrd", "e820", "done"},
   image : BzImages, load : LoadAddresses, cmdline : CmdlineAddresses, initrd : Initrds,
   map : MemoryMaps, i : Nat \ {0}, page : [1 .. PageCells -> Nat],
   result : {"none", "Ok", "ImageTooSmall", "InvalidMagic", "UnsupportedVersion", "EmptyKernel",
             "KernelLoadAddrOverflow", "CmdlineAddrOverflow", "InitrdAddrOverflow"},
   entry : Nat]

(* How far prepare_linux_boot has come without an error. *)
Succeeded == lin.pc = "done" /\ lin.result = "Ok"
Prepared(pcs) == lin.pc \in pcs \/ Succeeded

(* Cell j of a page that populate_from_bzimage has filled. *)
Original(j) == IF j <= SetupSize(lin.image) THEN lin.image.cells[j] ELSE 0

PopulatedInv ==
  Prepared({"load", "cmdline", "initrd", "e820"}) =>
    /\ HeaderError(lin.image) = "none"
    /\ lin.page[TypeOfLoader] = 255
    /\ lin.page[LoadFlags] = 4 * (lin.image.cells[LoadFlags] \div 4) + 3

AddressInv ==
  /\ Prepared({"cmdline", "initrd", "e820"}) => lin.page[Code32Start] = lin.load
  /\ Prepared({"initrd", "e820"}) => lin.page[CmdLinePtr] = lin.cmdline
  /\ Prepared({"e820"}) =>
       IF lin.initrd = NoInitrd THEN lin.page[RamdiskSize] = lin.image.cells[RamdiskSize]
       ELSE lin.page[RamdiskImage] = lin.initrd.phys /\ lin.page[RamdiskSize] = lin.initrd.size
  /\ lin.pc \in {"load", "cmdline", "initrd"} => lin.page[RamdiskSize] = lin.image.cells[RamdiskSize]
  /\ Succeeded => lin.entry = lin.load + SectorCells

(* The entries taken are the first of the map, the count is theirs, and    *)
(* the cells after them are as they were.                                  *)
TableInv ==
  Prepared({"load", "cmdline", "initrd", "e820"}) /\ lin.image.cells[E820Entries] = 0 =>
    /\ lin.pc \in {"load", "cmdline", "initrd"} => lin.i = 1
    /\ lin.page[E820Entries] = lin.i - 1
    /\ lin.i - 1 <= MaxE820 /\ lin.i - 1 <= Len(lin.map)
    /\ \A k \in 1 .. lin.i - 1 : /\ lin.page[E820Table + (k - 1) * EntryCells] = lin.map[k].base
                                 /\ lin.page[E820Table + (k - 1) * EntryCells + 1] = lin.map[k].length
                                 /\ lin.page[E820Table + (k - 1) * EntryCells + 2] = lin.map[k].typ
    /\ \A j \in E820Table + (lin.i - 1) * EntryCells .. PageCells : lin.page[j] = Original(j)
    /\ Succeeded => lin.i - 1 = MaxE820 \/ lin.i - 1 = Len(lin.map)

LinuxInv ==
  /\ lin \in LinType
  /\ lin.pc = "parse" => lin.page = Zeroed /\ lin.i = 1
  /\ lin.pc # "done" => lin.result = "none"
  /\ PopulatedInv /\ AddressInv /\ TableInv

-----------------------------------------------------------------------------
LEMMA Constants ==
  /\ HeaderCells \in Nat /\ SectorCells \in Nat /\ PageCells \in Nat /\ MaxE820 \in Nat
  /\ Limit32 \in Nat /\ Limit64 \in Nat
  /\ HeaderCells >= 9 /\ 2 * SectorCells >= 9 /\ PageCells >= 9 + MaxE820 * 3
  /\ LoadAddresses \subseteq Nat /\ CmdlineAddresses \subseteq Nat
PROOF
  BY LinuxAssumption DEF E820Table, EntryCells

LEMMA MinOfTwo ==
  ASSUME NEW a \in Nat, NEW b \in Nat
  PROVE  Min({a, b}) = IF a <= b THEN a ELSE b
PROOF
<1>1. \E x \in {a, b} : \A y \in {a, b} : x <= y
  OBVIOUS
<1>2. Min({a, b}) \in {a, b} /\ \A y \in {a, b} : Min({a, b}) <= y
  BY <1>1 DEF Min
<1> QED
  BY <1>2

(* A header that parses belongs to an image that is longer than its setup  *)
(* code, which holds the fields.                                           *)
LEMMA ParsedImage ==
  ASSUME NEW image \in BzImages, HeaderError(image) = "none"
  PROVE  /\ image.cells \in Seq(Nat)
         /\ SetupSize(image) \in Nat
         /\ SetupSize(image) >= 9 /\ SetupSize(image) < Len(image.cells)
PROOF
<1>1. image.cells \in Seq(Nat)
  BY LinuxAssumption
<1>2. Len(image.cells) >= HeaderCells /\ ~(Len(image.cells) <= SetupSize(image))
  BY <1>1, Constants DEF HeaderError
<1>3. image.cells[SetupSects] \in Nat
  BY <1>1, <1>2, Constants DEF SetupSects
<1> DEFINE sects == image.cells[SetupSects]
           n == 1 + IF sects = 0 THEN 4 ELSE sects
<1>4. n \in Nat /\ n >= 2 /\ SetupSize(image) = n * SectorCells
  BY <1>3 DEF SetupSize
<1> HIDE DEF n
<1>5. n * SectorCells \in Nat /\ n * SectorCells >= 2 * SectorCells
  BY <1>4, Constants
<1> QED
  BY <1>1, <1>2, <1>4, <1>5, Constants

(* populate_from_bzimage on the zeroed page. *)
LEMMA PopulateIs ==
  ASSUME NEW image \in BzImages, HeaderError(image) = "none"
  PROVE  LET p == Populate(Zeroed, image)
         IN  /\ p \in [1 .. PageCells -> Nat]
             /\ p[TypeOfLoader] = 255
             /\ p[LoadFlags] = 4 * (image.cells[LoadFlags] \div 4) + 3
             /\ \A j \in 1 .. PageCells : j \notin {TypeOfLoader, LoadFlags} =>
                  p[j] = IF j <= SetupSize(image) THEN image.cells[j] ELSE 0
PROOF
<1>1. /\ image.cells \in Seq(Nat) /\ SetupSize(image) \in Nat
      /\ SetupSize(image) >= 9 /\ SetupSize(image) < Len(image.cells)
  BY ParsedImage
<1>2. PageCells \in Nat /\ PageCells >= 9
  BY Constants
<1> DEFINE n == Min({SetupSize(image), PageCells})
           copied == [j \in DOMAIN Zeroed |-> IF j <= n THEN image.cells[j] ELSE Zeroed[j]]
<1>3. n = IF SetupSize(image) <= PageCells THEN SetupSize(image) ELSE PageCells
  BY <1>1, <1>2, MinOfTwo
<1>4. \A j \in 1 .. SetupSize(image) : image.cells[j] \in Nat
  <2>1. \A j \in 1 .. Len(image.cells) : image.cells[j] \in Nat
    BY <1>1
  <2> HIDE DEF n
  <2> QED
    BY <1>1, <2>1
<1>5. DOMAIN Zeroed = 1 .. PageCells /\ \A j \in 1 .. PageCells : Zeroed[j] = 0
  BY DEF Zeroed
<1>6. Populate(Zeroed, image) =
        [copied EXCEPT ![TypeOfLoader] = 255, ![LoadFlags] = 4 * (@ \div 4) + 3]
  BY DEF Populate
<1>7. copied = [j \in 1 .. PageCells |-> IF j <= n THEN image.cells[j] ELSE 0]
  BY <1>5
<1> HIDE DEF n, copied
<1>8. \A j \in 1 .. PageCells : copied[j] = IF j <= SetupSize(image) THEN image.cells[j] ELSE 0
  BY <1>1, <1>2, <1>3, <1>7
<1>9. copied \in [1 .. PageCells -> Nat]
  BY <1>1, <1>2, <1>4, <1>7, <1>8
<1>10. image.cells[4] \in Nat /\ copied[4] = image.cells[4]
  BY <1>1, <1>2, <1>4, <1>8
<1>11. image.cells[4] \div 4 \in Nat
  BY <1>10
<1> DEFINE flags == 4 * (image.cells[4] \div 4) + 3
<1>12. flags \in Nat
  BY <1>11
<1>13. Populate(Zeroed, image) = [copied EXCEPT ![3] = 255, ![4] = flags]
  BY <1>2, <1>6, <1>9, <1>10 DEF TypeOfLoader, LoadFlags
<1> HIDE DEF flags
<1>14. /\ [copied EXCEPT ![3] = 255, ![4] = flags] \in [1 .. PageCells -> Nat]
       /\ [copied EXCEPT ![3] = 255, ![4] = flags][3] = 255
       /\ [copied EXCEPT ![3] = 255, ![4] = flags][4] = flags
       /\ \A j \in 1 .. PageCells : j \notin {3, 4} => [copied EXCEPT ![3] = 255, ![4] = flags][j] = copied[j]
  BY <1>2, <1>9, <1>12
<1> QED
  BY <1>8, <1>13, <1>14 DEF TypeOfLoader, LoadFlags, flags

(* add_e820_entry: a table that is not full takes the region after its     *)
(* entries and counts it; a full one stays as it is.                       *)
LEMMA AddEntryIs ==
  ASSUME NEW page \in [1 .. PageCells -> Nat], NEW region \in [base : Nat, length : Nat, typ : Nat]
  PROVE  LET added == AddE820Entry(page, region)
             at == E820Table + page[E820Entries] * EntryCells
         IN  /\ page[E820Entries] >= MaxE820 => added = page
             /\ page[E820Entries] < MaxE820 =>
                  /\ added \in [1 .. PageCells -> Nat]
                  /\ added[E820Entries] = page[E820Entries] + 1
                  /\ added[at] = region.base /\ added[at + 1] = region.length /\ added[at + 2] = region.typ
                  /\ \A j \in 1 .. PageCells : j \notin {E820Entries, at, at + 1, at + 2} => added[j] = page[j]
PROOF
<1> DEFINE count == page[1]
           at == 9 + count * 3
           added == [page EXCEPT ![at] = region.base, ![at + 1] = region.length, ![at + 2] = region.typ,
                                 ![1] = count + 1]
<1>1. PageCells \in Nat /\ MaxE820 \in Nat /\ PageCells >= 9 + MaxE820 * 3
  BY Constants
<1>2. count \in Nat
  BY <1>1
<1>3. AddE820Entry(page, region) = IF count >= MaxE820 THEN page ELSE added
  BY DEF AddE820Entry, E820Entries, E820Table, EntryCells
<1> HIDE DEF count
<1>4. ASSUME count < MaxE820
      PROVE  /\ added \in [1 .. PageCells -> Nat] /\ added[1] = count + 1
             /\ added[at] = region.base /\ added[at + 1] = region.length /\ added[at + 2] = region.typ
             /\ \A j \in 1 .. PageCells : j \notin {1, at, at + 1, at + 2} => added[j] = page[j]
  <2>1. at \in Nat /\ at >= 9 /\ at + 2 <= PageCells
    BY <1>1, <1>2, <1>4
  <2> HIDE DEF at
  <2>2. region.base \in Nat /\ region.length \in Nat /\ region.typ \in Nat
    OBVIOUS
  <2>3. {1, at, at + 1, at + 2} \subseteq 1 .. PageCells
    BY <1>1, <2>1
  <2>4. added \in [1 .. PageCells -> Nat]
    <3>1. DOMAIN added = 1 .. PageCells
      OBVIOUS
    <3>2. count + 1 \in Nat
      BY <1>2
    <3>3. \A j \in 1 .. PageCells : added[j] \in {count + 1, region.base, region.length, region.typ, page[j]}
      OBVIOUS
    <3>4. added = [j \in 1 .. PageCells |-> added[j]]
      BY <3>1
    <3> HIDE DEF added
    <3>5. \A j \in 1 .. PageCells : added[j] \in Nat
      BY <2>2, <3>2, <3>3
    <3> QED
      BY <3>4, <3>5
  <2>5. added[1] = count + 1
    BY <2>3
  <2>6. added[at] = region.base /\ added[at + 1] = region.length
    BY <2>1, <2>3
  <2>7. added[at + 2] = region.typ
    BY <2>1, <2>3
  <2>8. ASSUME NEW j \in 1 .. PageCells, j \notin {1, at, at + 1, at + 2} PROVE added[j] = page[j]
    BY <2>3, <2>8
  <2> QED
    BY <2>4, <2>5, <2>6, <2>7, <2>8
<1>5. count >= MaxE820 => AddE820Entry(page, region) = page
  BY <1>3
<1>6. count < MaxE820 => AddE820Entry(page, region) = added
  BY <1>1, <1>2, <1>3
<1> HIDE DEF added
<1> QED
  BY <1>4, <1>5, <1>6 DEF E820Entries, E820Table, EntryCells, count

LEMMA ElementOf ==
  ASSUME NEW S, NEW m \in Seq(S), NEW i \in Nat \ {0}, i <= Len(m)
  PROVE  m[i] \in S /\ Len(m) \in Nat
PROOF
  OBVIOUS

-----------------------------------------------------------------------------
LEMMA LinuxInitInv == LinuxInit => LinuxInv
PROOF
<1> SUFFICES ASSUME LinuxInit PROVE LinuxInv
  OBVIOUS
<1>1. PICK image \in BzImages, load \in LoadAddresses, cmdline \in CmdlineAddresses, initrd \in Initrds,
           map \in MemoryMaps :
        lin = [pc |-> "parse", image |-> image, load |-> load, cmdline |-> cmdline, initrd |-> initrd,
               map |-> map, i |-> 1, page |-> Zeroed, result |-> "none", entry |-> 0]
  BY DEF LinuxInit
<1>2. Zeroed \in [1 .. PageCells -> Nat]
  BY DEF Zeroed
<1>3. lin \in LinType /\ lin.pc = "parse" /\ lin.page = Zeroed /\ lin.i = 1 /\ lin.result = "none"
  BY <1>1, <1>2 DEF LinType
<1> QED
  BY <1>3 DEF LinuxInv, PopulatedInv, AddressInv, TableInv, Prepared, Succeeded

(* A step that fails leaves nothing to show. *)
LEMMA FailsInv ==
  ASSUME LinuxInv,
         NEW error \in {"ImageTooSmall", "InvalidMagic", "UnsupportedVersion", "EmptyKernel",
                        "KernelLoadAddrOverflow", "CmdlineAddrOverflow", "InitrdAddrOverflow"},
         LinuxFails(error)
  PROVE  LinuxInv'
PROOF
<1>1. lin' \in LinType /\ lin'.pc = "done" /\ lin'.result = error
  BY DEF LinuxFails, LinuxInv, LinType
<1>2. error # "Ok"
  OBVIOUS
<1> QED
  BY <1>1, <1>2 DEF LinuxInv, PopulatedInv, AddressInv, TableInv, Prepared, Succeeded

LEMMA ParseHeaderInv == LinuxInv /\ ParseHeader => LinuxInv'
PROOF
<1> SUFFICES ASSUME LinuxInv, ParseHeader PROVE LinuxInv'
  OBVIOUS
<1>0. lin \in LinType /\ lin.pc = "parse" /\ lin.page = Zeroed /\ lin.i = 1 /\ lin.image \in BzImages
      /\ lin.map \in MemoryMaps /\ lin.result = "none"
  BY DEF LinuxInv, ParseHeader, LinType
<1>1. CASE HeaderError(lin.image) # "none"
  <2>1. HeaderError(lin.image) \in {"ImageTooSmall", "InvalidMagic", "UnsupportedVersion", "EmptyKernel"}
    BY <1>1 DEF HeaderError
  <2>2. LinuxFails(HeaderError(lin.image))
    BY <1>1 DEF ParseHeader
  <2>3. PICK error \in {"ImageTooSmall", "InvalidMagic", "UnsupportedVersion", "EmptyKernel"} :
          LinuxFails(error)
    BY <2>1, <2>2
  <2> QED
    BY <2>3, FailsInv
<1>2. CASE HeaderError(lin.image) = "none"
  <2> DEFINE p == Populate(Zeroed, lin.image)
  <2>1. lin' = [lin EXCEPT !.pc = "load", !.page = p]
    BY <1>0, <1>2 DEF ParseHeader
  <2>2. /\ p \in [1 .. PageCells -> Nat] /\ p[3] = 255
        /\ p[4] = 4 * (lin.image.cells[4] \div 4) + 3
        /\ \A j \in 1 .. PageCells : j \notin {3, 4} =>
             p[j] = IF j <= SetupSize(lin.image) THEN lin.image.cells[j] ELSE 0
    BY <1>0, <1>2, PopulateIs DEF TypeOfLoader, LoadFlags
  <2> HIDE DEF p
  <2>3. /\ lin' \in LinType /\ lin'.pc = "load" /\ lin'.page = p /\ lin'.i = 1 /\ lin'.image = lin.image
        /\ lin'.map = lin.map /\ lin'.result = "none"
    BY <1>0, <2>1, <2>2 DEF LinType
  <2>4. SetupSize(lin.image) \in Nat /\ SetupSize(lin.image) >= 9
    BY <1>0, <1>2, ParsedImage
  <2>5. PageCells \in Nat /\ PageCells >= 9 /\ MaxE820 \in Nat
    BY Constants
  <2>6. PopulatedInv'
    BY <1>2, <2>2, <2>3 DEF PopulatedInv, TypeOfLoader, LoadFlags
  <2>7. p[7] = lin.image.cells[7] /\ p[1] = lin.image.cells[1]
    BY <2>2, <2>4, <2>5
  <2>8. AddressInv'
    BY <2>3, <2>7 DEF AddressInv, Prepared, Succeeded, RamdiskSize
  <2>9. Len(lin.map) \in Nat
    BY <1>0, LinuxAssumption
  <2>10. \A j \in 9 .. PageCells : p[j] = IF j <= SetupSize(lin.image) THEN lin.image.cells[j] ELSE 0
    BY <2>2, <2>5
  <2>11. TableInv'
    BY <2>3, <2>5, <2>7, <2>9, <2>10 DEF TableInv, Prepared, Succeeded, Original, E820Entries, E820Table, EntryCells
  <2> QED
    BY <2>3, <2>6, <2>8, <2>11 DEF LinuxInv
<1> QED
  BY <1>1, <1>2

(* A step that stores one of the four addresses touches neither the flags  *)
(* nor the table.                                                          *)
LEMMA StoreInv ==
  ASSUME LinuxInv, lin.pc \in {"load", "cmdline", "initrd"},
         lin' \in LinType, lin'.pc \in {"cmdline", "initrd", "e820"},
         lin'.image = lin.image, lin'.map = lin.map, lin'.i = lin.i,
         \A j \in 1 .. PageCells : j \notin {5, 6, 7, 8} => lin'.page[j] = lin.page[j]
  PROVE  PopulatedInv' /\ TableInv'
PROOF
<1>1. PageCells \in Nat /\ PageCells >= 9 /\ MaxE820 \in Nat
  BY Constants
<1>2. lin'.page[1] = lin.page[1] /\ lin'.page[3] = lin.page[3] /\ lin'.page[4] = lin.page[4]
      /\ \A j \in 9 .. PageCells : lin'.page[j] = lin.page[j]
  BY <1>1
<1>3. PopulatedInv'
  BY <1>2 DEF LinuxInv, PopulatedInv, Prepared, TypeOfLoader, LoadFlags
<1>4. lin.image.cells[1] = 0 =>
        /\ lin.i = 1 /\ lin.page[1] = 0 /\ 0 <= Len(lin.map)
        /\ \A j \in 9 .. PageCells : lin.page[j] = Original(j)
  BY DEF LinuxInv, TableInv, Prepared, E820Entries, E820Table, EntryCells
<1>5. TableInv'
  BY <1>1, <1>2, <1>4 DEF TableInv, Succeeded, Original, E820Entries, E820Table, EntryCells
<1> QED
  BY <1>3, <1>5

LEMMA SetCode32Inv == LinuxInv /\ SetCode32 => LinuxInv'
PROOF
<1> SUFFICES ASSUME LinuxInv, SetCode32 PROVE LinuxInv'
  OBVIOUS
<1>1. CASE LinuxFails("KernelLoadAddrOverflow")
  BY <1>1, FailsInv
<1>2. CASE lin' = [lin EXCEPT !.pc = "cmdline", !.page[Code32Start] = lin.load]
  <2>1. lin \in LinType /\ lin.pc = "load" /\ lin.load \in Nat /\ lin.page \in [1 .. PageCells -> Nat]
    BY Constants DEF LinuxInv, SetCode32, LinType
  <2> DEFINE q == [lin.page EXCEPT ![5] = lin.load]
  <2>2. lin' = [lin EXCEPT !.pc = "cmdline", !.page = q]
    BY <1>2 DEF Code32Start
  <2>3. /\ q \in [1 .. PageCells -> Nat] /\ q[5] = lin.load
        /\ \A j \in 1 .. PageCells : j # 5 => q[j] = lin.page[j]
    BY <2>1, Constants
  <2> HIDE DEF q
  <2>4. /\ lin' \in LinType /\ lin'.pc = "cmdline" /\ lin'.page = q /\ lin'.i = lin.i /\ lin'.load = lin.load
        /\ lin'.image = lin.image /\ lin'.map = lin.map /\ lin'.result = lin.result
    BY <2>1, <2>2, <2>3 DEF LinType
  <2>5. PopulatedInv' /\ TableInv'
    BY <2>1, <2>3, <2>4, StoreInv
  <2>6. q[7] = lin.page[7] /\ lin.page[7] = lin.image.cells[7]
    <3>1. lin.page[7] = lin.image.cells[7]
      BY <2>1 DEF LinuxInv, AddressInv, RamdiskSize
    <3>2. 7 \in 1 .. PageCells
      BY Constants
    <3> QED
      BY <2>3, <3>1, <3>2
  <2>7. AddressInv'
    BY <2>3, <2>4, <2>6 DEF AddressInv, Prepared, Succeeded, Code32Start, RamdiskSize
  <2> QED
    BY <2>1, <2>4, <2>5, <2>7 DEF LinuxInv
<1> QED
  BY <1>1, <1>2 DEF SetCode32

LEMMA SetCmdlineInv == LinuxInv /\ SetCmdline => LinuxInv'
PROOF
<1> SUFFICES ASSUME LinuxInv, SetCmdline PROVE LinuxInv'
  OBVIOUS
<1>1. CASE LinuxFails("CmdlineAddrOverflow")
  BY <1>1, FailsInv
<1>2. CASE lin' = [lin EXCEPT !.pc = "initrd", !.page[CmdLinePtr] = lin.cmdline]
  <2>1. lin \in LinType /\ lin.pc = "cmdline" /\ lin.cmdline \in Nat /\ lin.page \in [1 .. PageCells -> Nat]
    BY Constants DEF LinuxInv, SetCmdline, LinType
  <2> DEFINE q == [lin.page EXCEPT ![8] = lin.cmdline]
  <2>2. lin' = [lin EXCEPT !.pc = "initrd", !.page = q]
    BY <1>2 DEF CmdLinePtr
  <2>3. /\ q \in [1 .. PageCells -> Nat] /\ q[8] = lin.cmdline
        /\ \A j \in 1 .. PageCells : j # 8 => q[j] = lin.page[j]
    BY <2>1, Constants
  <2> HIDE DEF q
  <2>4. /\ lin' \in LinType /\ lin'.pc = "initrd" /\ lin'.page = q /\ lin'.i = lin.i /\ lin'.load = lin.load
        /\ lin'.cmdline = lin.cmdline
        /\ lin'.image = lin.image /\ lin'.map = lin.map /\ lin'.result = lin.result
    BY <2>1, <2>2, <2>3 DEF LinType
  <2>5. PopulatedInv' /\ TableInv'
    BY <2>1, <2>3, <2>4, StoreInv
  <2>6. q[7] = lin.image.cells[7] /\ q[5] = lin.load
    <3>1. lin.page[7] = lin.image.cells[7]
      BY <2>1 DEF LinuxInv, AddressInv, RamdiskSize
    <3>2. lin.page[5] = lin.load
      BY <2>1 DEF LinuxInv, AddressInv, Prepared, Code32Start
    <3>3. 5 \in 1 .. PageCells /\ 7 \in 1 .. PageCells
      BY Constants
    <3>4. q[5] = lin.page[5] /\ q[7] = lin.page[7]
      BY <2>3, <3>3
    <3> QED
      BY <3>1, <3>2, <3>4
  <2>7. AddressInv'
    BY <2>3, <2>4, <2>6 DEF AddressInv, Prepared, Succeeded, Code32Start, CmdLinePtr, RamdiskSize
  <2> QED
    BY <2>1, <2>4, <2>5, <2>7 DEF LinuxInv
<1> QED
  BY <1>1, <1>2 DEF SetCmdline

LEMMA SetInitrdInv == LinuxInv /\ SetInitrd => LinuxInv'
PROOF
<1> SUFFICES ASSUME LinuxInv, SetInitrd PROVE LinuxInv'
  OBVIOUS
<1>0. lin \in LinType /\ lin.pc = "initrd" /\ lin.initrd \in Initrds /\ lin.page \in [1 .. PageCells -> Nat]
  BY DEF LinuxInv, SetInitrd, LinType
<1>f. lin.page[5] = lin.load /\ lin.page[8] = lin.cmdline /\ lin.page[7] = lin.image.cells[7]
  BY <1>0 DEF LinuxInv, AddressInv, Prepared, Code32Start, CmdLinePtr, RamdiskSize
<1>1. CASE lin.initrd = NoInitrd /\ lin' = [lin EXCEPT !.pc = "e820"]
  <2>1. /\ lin' \in LinType /\ lin'.pc = "e820" /\ lin'.page = lin.page /\ lin'.i = lin.i
        /\ lin'.load = lin.load /\ lin'.cmdline = lin.cmdline /\ lin'.initrd = lin.initrd
        /\ lin'.image = lin.image /\ lin'.map = lin.map /\ lin'.result = lin.result
    BY <1>0, <1>1 DEF LinType
  <2>2. PopulatedInv' /\ TableInv'
    BY <1>0, <2>1, StoreInv
  <2>3. AddressInv'
    BY <1>1, <1>f, <2>1 DEF AddressInv, Prepared, Succeeded, Code32Start, CmdLinePtr, RamdiskSize
  <2> QED
    BY <1>0, <2>1, <2>2, <2>3 DEF LinuxInv
<1>2. CASE LinuxFails("InitrdAddrOverflow")
  BY <1>2, FailsInv
<1>3. CASE /\ lin.initrd # NoInitrd
           /\ lin' = [lin EXCEPT !.pc = "e820", !.page[RamdiskImage] = lin.initrd.phys,
                                 !.page[RamdiskSize] = lin.initrd.size]
  <2>1. lin.initrd.phys \in Nat /\ lin.initrd.size \in Nat
    BY <1>0, <1>3, LinuxAssumption
  <2> DEFINE q == [lin.page EXCEPT ![6] = lin.initrd.phys, ![7] = lin.initrd.size]
  <2>2. lin' = [lin EXCEPT !.pc = "e820", !.page = q]
    BY <1>0, <1>3 DEF RamdiskImage, RamdiskSize, LinType
  <2>3. /\ q \in [1 .. PageCells -> Nat] /\ q[6] = lin.initrd.phys /\ q[7] = lin.initrd.size
        /\ \A j \in 1 .. PageCells : j \notin {6, 7} => q[j] = lin.page[j]
    <3>1. 6 \in 1 .. PageCells /\ 7 \in 1 .. PageCells /\ lin.page \in [1 .. PageCells -> Nat]
      BY <1>0, Constants
    <3> DEFINE first == lin.initrd.phys
               second == lin.initrd.size
               page == lin.page
    <3>2. first \in Nat /\ second \in Nat /\ page \in [1 .. PageCells -> Nat]
      BY <2>1, <3>1
    <3>3. q = [page EXCEPT ![6] = first, ![7] = second]
      OBVIOUS
    <3>4. page = lin.page /\ first = lin.initrd.phys /\ second = lin.initrd.size
      OBVIOUS
    <3> HIDE DEF first, second, page, q
    <3>5. q \in [1 .. PageCells -> Nat]
      BY <3>1, <3>2, <3>3
    <3>6. q[6] = first /\ q[7] = second
      BY <3>1, <3>2, <3>3
    <3>7. \A j \in 1 .. PageCells : j \notin {6, 7} => q[j] = page[j]
      BY <3>1, <3>2, <3>3
    <3> QED
      BY <3>4, <3>5, <3>6, <3>7
  <2> HIDE DEF q
  <2>4. /\ lin' \in LinType /\ lin'.pc = "e820" /\ lin'.page = q /\ lin'.i = lin.i
        /\ lin'.load = lin.load /\ lin'.cmdline = lin.cmdline /\ lin'.initrd = lin.initrd
        /\ lin'.image = lin.image /\ lin'.map = lin.map /\ lin'.result = lin.result
    BY <1>0, <2>2, <2>3 DEF LinType
  <2>5. PopulatedInv' /\ TableInv'
    BY <1>0, <2>3, <2>4, StoreInv
  <2>6. q[5] = lin.load /\ q[8] = lin.cmdline
    BY <1>f, <2>3, Constants
  <2>7. AddressInv'
    BY <1>3, <2>3, <2>4, <2>6
    DEF AddressInv, Prepared, Succeeded, Code32Start, CmdLinePtr, RamdiskImage, RamdiskSize
  <2> QED
    BY <1>0, <2>4, <2>5, <2>7 DEF LinuxInv
<1> QED
  BY <1>1, <1>2, <1>3 DEF SetInitrd

LEMMA AddRegionInv == LinuxInv /\ AddRegion => LinuxInv'
PROOF
<1> SUFFICES ASSUME LinuxInv, AddRegion PROVE LinuxInv'
  OBVIOUS
<1>0. /\ lin \in LinType /\ lin.pc = "e820" /\ lin.page \in [1 .. PageCells -> Nat]
      /\ lin.i \in Nat \ {0} /\ lin.map \in MemoryMaps /\ lin.i <= Len(lin.map)
  BY DEF LinuxInv, AddRegion, MoreRegions, LinType
<1> DEFINE region == lin.map[lin.i]
           q == AddE820Entry(lin.page, region)
           count == lin.page[1]
           at == 9 + count * 3
<1>1. lin.map \in Seq([base : Nat, length : Nat, typ : Nat])
  BY <1>0, LinuxAssumption
<1>2. region \in [base : Nat, length : Nat, typ : Nat] /\ Len(lin.map) \in Nat
  BY <1>0, <1>1, ElementOf
<1>3. lin' = [lin EXCEPT !.i = lin.i + 1, !.page = q] /\ q # lin.page
  BY DEF AddRegion, MoreRegions
<1>4. PageCells \in Nat /\ MaxE820 \in Nat /\ PageCells >= 9 + MaxE820 * 3
  BY Constants
<1>5. count \in Nat
  BY <1>0, <1>4
<1> HIDE DEF region
<1>6. /\ count < MaxE820 /\ q \in [1 .. PageCells -> Nat] /\ q[1] = count + 1
      /\ q[at] = region.base /\ q[at + 1] = region.length /\ q[at + 2] = region.typ
      /\ \A j \in 1 .. PageCells : j \notin {1, at, at + 1, at + 2} => q[j] = lin.page[j]
  <2>1. count >= MaxE820 => q = lin.page
    BY <1>0, <1>2, AddEntryIs DEF E820Entries
  <2>2. count < MaxE820
    BY <1>3, <1>4, <1>5, <2>1
  <2> QED
    BY <1>0, <1>2, <2>2, AddEntryIs DEF E820Entries, E820Table, EntryCells
<1> HIDE DEF q, count
<1>7. at \in Nat /\ at >= 9 /\ at + 2 <= PageCells
  BY <1>4, <1>5, <1>6
<1>8. /\ lin' \in LinType /\ lin'.pc = "e820" /\ lin'.page = q /\ lin'.i = lin.i + 1
      /\ lin'.load = lin.load /\ lin'.cmdline = lin.cmdline /\ lin'.initrd = lin.initrd
      /\ lin'.image = lin.image /\ lin'.map = lin.map /\ lin'.result = lin.result
  <2>1. lin.i + 1 \in Nat \ {0} /\ q \in [1 .. PageCells -> Nat]
    BY <1>0, <1>6
  <2>2. lin' = [lin EXCEPT !.i = lin.i + 1, !.page = q]
    BY <1>3 DEF q
  <2> QED
    BY <1>0, <2>1, <2>2 DEF LinType
<1>9. \A j \in 2 .. 8 : q[j] = lin.page[j]
  <2> HIDE DEF at
  <2> QED
    BY <1>4, <1>6, <1>7
<1>10. PopulatedInv'
  BY <1>0, <1>8, <1>9 DEF LinuxInv, PopulatedInv, Prepared, TypeOfLoader, LoadFlags
<1>11. AddressInv'
  BY <1>0, <1>8, <1>9
  DEF LinuxInv, AddressInv, Prepared, Succeeded, Code32Start, CmdLinePtr, RamdiskImage, RamdiskSize
<1>12. ASSUME lin.image.cells[1] = 0
       PROVE  /\ count = lin.i - 1 /\ q[1] = lin.i
              /\ lin.i <= MaxE820
              /\ \A k \in 1 .. lin.i : /\ q[9 + (k - 1) * 3] = lin.map[k].base
                                       /\ q[9 + (k - 1) * 3 + 1] = lin.map[k].length
                                       /\ q[9 + (k - 1) * 3 + 2] = lin.map[k].typ
              /\ \A j \in 9 + lin.i * 3 .. PageCells : q[j] = Original(j)
  <2>1. /\ count = lin.i - 1
        /\ \A k \in 1 .. lin.i - 1 : /\ lin.page[9 + (k - 1) * 3] = lin.map[k].base
                                     /\ lin.page[9 + (k - 1) * 3 + 1] = lin.map[k].length
                                     /\ lin.page[9 + (k - 1) * 3 + 2] = lin.map[k].typ
        /\ \A j \in 9 + (lin.i - 1) * 3 .. PageCells : lin.page[j] = Original(j)
    BY <1>0, <1>12 DEF LinuxInv, TableInv, Prepared, E820Entries, E820Table, EntryCells, count
  <2>2. at = 9 + (lin.i - 1) * 3 /\ lin.i <= MaxE820 /\ q[1] = lin.i
    BY <1>0, <1>4, <1>6, <2>1
  <2>3. \A k \in 1 .. lin.i : /\ q[9 + (k - 1) * 3] = lin.map[k].base
                              /\ q[9 + (k - 1) * 3 + 1] = lin.map[k].length
                              /\ q[9 + (k - 1) * 3 + 2] = lin.map[k].typ
    <3> SUFFICES ASSUME NEW k \in 1 .. lin.i
                 PROVE  /\ q[9 + (k - 1) * 3] = lin.map[k].base
                        /\ q[9 + (k - 1) * 3 + 1] = lin.map[k].length
                        /\ q[9 + (k - 1) * 3 + 2] = lin.map[k].typ
      OBVIOUS
    <3>1. CASE k = lin.i
      BY <1>6, <2>2, <3>1 DEF region
    <3>2. CASE k # lin.i
      <4> DEFINE c == 9 + (k - 1) * 3
      <4>1. k \in 1 .. lin.i - 1 /\ c \in Nat /\ c >= 9 /\ c + 2 < at
        BY <1>0, <2>2, <3>2
      <4> HIDE DEF c, at
      <4>2. {c, c + 1, c + 2} \subseteq 1 .. PageCells /\ {c, c + 1, c + 2} \cap {1, at, at + 1, at + 2} = {}
        BY <1>4, <1>7, <4>1
      <4>3. q[c] = lin.page[c] /\ q[c + 1] = lin.page[c + 1] /\ q[c + 2] = lin.page[c + 2]
        BY <1>6, <4>2, Zenon
      <4> QED
        BY <2>1, <4>1, <4>3 DEF c
    <3> QED
      BY <3>1, <3>2
  <2>4. ASSUME NEW j \in 9 + lin.i * 3 .. PageCells PROVE q[j] = Original(j)
    <3>1. j \in 1 .. PageCells /\ j \in 9 + (lin.i - 1) * 3 .. PageCells /\ j > at + 2
      BY <1>0, <1>4, <2>2
    <3> HIDE DEF at
    <3>2. j \notin {1, at, at + 1, at + 2}
      BY <1>7, <3>1
    <3>3. q[j] = lin.page[j]
      BY <1>6, <3>1, <3>2, Zenon
    <3> QED
      BY <2>1, <3>1, <3>3
  <2> QED
    BY <2>1, <2>2, <2>3, <2>4
<1>13. TableInv'
  <2>1. lin.i + 1 - 1 = lin.i
    BY <1>0
  <2>2. \A j : Original(j)' = Original(j)
    BY <1>8 DEF Original
  <2> QED
    BY <1>0, <1>8, <1>12, <2>1, <2>2 DEF TableInv, Succeeded, E820Entries, E820Table, EntryCells
<1> QED
  BY <1>0, <1>8, <1>10, <1>11, <1>13 DEF LinuxInv

LEMMA EntryPointInv == LinuxInv /\ EntryPoint => LinuxInv'
PROOF
<1> SUFFICES ASSUME LinuxInv, EntryPoint PROVE LinuxInv'
  OBVIOUS
<1>1. CASE LinuxFails("KernelLoadAddrOverflow")
  BY <1>1, FailsInv
<1>2. CASE lin' = [lin EXCEPT !.pc = "done", !.result = "Ok", !.entry = lin.load + SectorCells]
  <2>0. /\ lin \in LinType /\ lin.pc = "e820" /\ lin.page \in [1 .. PageCells -> Nat] /\ lin.load \in Nat
        /\ lin.i \in Nat \ {0} /\ lin.map \in MemoryMaps /\ SectorCells \in Nat /\ ~MoreRegions
        /\ PageCells \in Nat /\ PageCells >= 9 /\ MaxE820 \in Nat
    <3>1. lin \in LinType /\ lin.pc = "e820" /\ ~MoreRegions
      BY DEF LinuxInv, EntryPoint
    <3>2. /\ lin.page \in [1 .. PageCells -> Nat] /\ lin.load \in LoadAddresses
          /\ lin.i \in Nat \ {0} /\ lin.map \in MemoryMaps
      BY <3>1 DEF LinType
    <3>3. PageCells \in Nat /\ MaxE820 \in Nat /\ SectorCells \in Nat /\ lin.load \in Nat
      BY <3>2, Constants
    <3>4. PageCells >= 9
      BY <3>3, Constants
    <3> QED
      BY <3>1, <3>2, <3>3, <3>4
  <2>1. lin.map \in Seq([base : Nat, length : Nat, typ : Nat])
    BY <2>0, LinuxAssumption
  <2>2. /\ lin' \in LinType /\ lin'.pc = "done" /\ lin'.page = lin.page /\ lin'.i = lin.i
        /\ lin'.load = lin.load /\ lin'.cmdline = lin.cmdline /\ lin'.initrd = lin.initrd
        /\ lin'.image = lin.image /\ lin'.map = lin.map /\ lin'.result = "Ok"
        /\ lin'.entry = lin.load + SectorCells
    <3>1. lin.load + SectorCells \in Nat
      BY <2>0
    <3> QED
      BY <1>2, <2>0, <3>1 DEF LinType
  <2>3. lin.i > Len(lin.map) \/ lin.page[1] >= MaxE820
    <3> SUFFICES ASSUME lin.i <= Len(lin.map), lin.page[1] < MaxE820 PROVE FALSE
      BY <2>0, <2>1
    <3>1. lin.map[lin.i] \in [base : Nat, length : Nat, typ : Nat]
      BY <2>0, <2>1, ElementOf
    <3>2. AddE820Entry(lin.page, lin.map[lin.i])[1] = lin.page[1] + 1
      BY <2>0, <3>1, AddEntryIs DEF E820Entries
    <3>3. AddE820Entry(lin.page, lin.map[lin.i]) = lin.page
      BY <2>0 DEF MoreRegions
    <3>4. lin.page[1] \in Nat
      BY <2>0
    <3> QED
      BY <3>2, <3>3, <3>4
  <2>4. PopulatedInv'
    BY <2>0, <2>2 DEF LinuxInv, PopulatedInv, Prepared
  <2>5. AddressInv'
    BY <2>0, <2>2 DEF LinuxInv, AddressInv, Prepared
  <2>6. \A j : Original(j)' = Original(j)
    BY <2>2 DEF Original
  <2>7. lin.image.cells[1] = 0 => lin.i - 1 = MaxE820 \/ lin.i - 1 = Len(lin.map)
    <3>1. lin.image.cells[1] = 0 => lin.page[1] = lin.i - 1 /\ lin.i - 1 <= MaxE820 /\ lin.i - 1 <= Len(lin.map)
      BY <2>0 DEF LinuxInv, TableInv, Prepared, E820Entries
    <3>2. Len(lin.map) \in Nat
      BY <2>1
    <3> SUFFICES ASSUME lin.image.cells[1] = 0
                 PROVE  lin.i - 1 = MaxE820 \/ lin.i - 1 = Len(lin.map)
      OBVIOUS
    <3>3. lin.page[1] = lin.i - 1 /\ lin.i - 1 <= MaxE820 /\ lin.i - 1 <= Len(lin.map)
      BY <3>1
    <3>4. lin.i \in Nat /\ MaxE820 \in Nat
      BY <2>0
    <3>5. CASE lin.i > Len(lin.map)
      BY <3>2, <3>3, <3>4, <3>5
    <3>6. CASE lin.page[1] >= MaxE820
      BY <3>2, <3>3, <3>4, <3>6
    <3> QED
      BY <2>3, <3>5, <3>6
  <2>8. TableInv'
    BY <2>0, <2>2, <2>6, <2>7 DEF LinuxInv, TableInv, Prepared, Succeeded, E820Entries
  <2> QED
    BY <2>2, <2>4, <2>5, <2>8 DEF LinuxInv
<1> QED
  BY <1>1, <1>2 DEF EntryPoint

-----------------------------------------------------------------------------
LEMMA PageLength ==
  ASSUME NEW n \in Nat, NEW p \in [1 .. n -> Nat]
  PROVE  Len(p) = n
PROOF
  OBVIOUS

(* The map that a kernel reads from a table with the first n regions. *)
LEMMA TableReads ==
  ASSUME NEW map \in Seq([base : Nat, length : Nat, typ : Nat]), NEW n \in Nat, n <= Len(map),
         NEW page, page[E820Entries] = n,
         \A k \in 1 .. n : /\ page[E820Table + (k - 1) * EntryCells] = map[k].base
                           /\ page[E820Table + (k - 1) * EntryCells + 1] = map[k].length
                           /\ page[E820Table + (k - 1) * EntryCells + 2] = map[k].typ
  PROVE  E820Of(page) = SubSeq(map, 1, n)
PROOF
<1>1. SubSeq(map, 1, n) = [k \in 1 .. n |-> map[k]]
  OBVIOUS
<1>2. \A k \in 1 .. n : map[k] = [base |-> map[k].base, length |-> map[k].length, typ |-> map[k].typ]
  <2>1. ASSUME NEW k \in 1 .. n PROVE map[k] \in [base : Nat, length : Nat, typ : Nat]
    <3>1. Len(map) \in Nat
      OBVIOUS
    <3>2. k \in Nat \ {0} /\ k <= Len(map)
      BY <3>1
    <3> QED
      BY <3>2, ElementOf
  <2> QED
    BY <2>1
<1>3. E820Of(page) =
        [k \in 1 .. n |-> [base |-> page[E820Table + (k - 1) * EntryCells],
                           length |-> page[E820Table + (k - 1) * EntryCells + 1],
                           typ |-> page[E820Table + (k - 1) * EntryCells + 2]]]
  BY DEF E820Of
<1>4. \A k \in 1 .. n : [base |-> page[E820Table + (k - 1) * EntryCells],
                         length |-> page[E820Table + (k - 1) * EntryCells + 1],
                         typ |-> page[E820Table + (k - 1) * EntryCells + 2]] = map[k]
  BY <1>2
<1> DEFINE Read(k) == [base |-> page[E820Table + (k - 1) * EntryCells],
                       length |-> page[E820Table + (k - 1) * EntryCells + 1],
                       typ |-> page[E820Table + (k - 1) * EntryCells + 2]]
<1>5. E820Of(page) = [k \in 1 .. n |-> Read(k)] /\ \A k \in 1 .. n : Read(k) = map[k]
  BY <1>3, <1>4
<1> HIDE DEF Read
<1> QED
  BY <1>1, <1>5

LEMMA InvTells == LinuxInv => ZeroPageTells
PROOF
<1> SUFFICES ASSUME LinuxInv, Succeeded PROVE ZeroPageTells
  BY DEF ZeroPageTells, Succeeded
<1> DEFINE p == lin.page
           n == Min({Len(lin.map), MaxE820})
           flags == lin.image.cells[LoadFlags]
<1>1. /\ lin \in LinType /\ p \in [1 .. PageCells -> Nat] /\ lin.image \in BzImages /\ lin.map \in MemoryMaps
      /\ lin.i \in Nat \ {0} /\ PageCells \in Nat /\ MaxE820 \in Nat
  BY Constants DEF LinuxInv, LinType
<1>2. lin.map \in Seq([base : Nat, length : Nat, typ : Nat]) /\ Len(lin.map) \in Nat
  BY <1>1, LinuxAssumption
<1>3. p[Code32Start] = lin.load /\ lin.entry = lin.load + SectorCells /\ p[CmdLinePtr] = lin.cmdline
  BY DEF LinuxInv, AddressInv, Prepared
<1>4. /\ lin.initrd # NoInitrd => p[RamdiskImage] = lin.initrd.phys /\ p[RamdiskSize] = lin.initrd.size
      /\ lin.initrd = NoInitrd => p[RamdiskSize] = lin.image.cells[RamdiskSize]
  BY DEF LinuxInv, AddressInv, Prepared
<1>5. p[TypeOfLoader] = 255 /\ p[LoadFlags] = 4 * (flags \div 4) + 3 /\ HeaderError(lin.image) = "none"
  BY DEF LinuxInv, PopulatedInv, Prepared
<1>6. p[LoadFlags] % 4 = 3 /\ p[LoadFlags] \div 4 = flags \div 4
  <2>1. lin.image.cells \in Seq(Nat) /\ 9 < Len(lin.image.cells)
    BY <1>1, <1>5, ParsedImage
  <2>2. flags \in Nat
    BY <2>1 DEF LoadFlags
  <2> HIDE DEF flags
  <2>3. flags \div 4 \in Nat
    BY <2>2
  <2>4. ASSUME NEW d \in Nat PROVE (4 * d + 3) % 4 = 3 /\ (4 * d + 3) \div 4 = d
    OBVIOUS
  <2> QED
    BY <1>5, <2>3, <2>4
<1>7. Len(p) = PageCells
  BY <1>1, PageLength
<1>8. ASSUME lin.image.cells[E820Entries] = 0
      PROVE  /\ E820Of(p) = SubSeq(lin.map, 1, n)
             /\ \A j \in E820Table + n * EntryCells - 1 + 1 .. PageCells : p[j] = Original(j)
  <2>1. /\ p[E820Entries] = lin.i - 1 /\ lin.i - 1 <= MaxE820 /\ lin.i - 1 <= Len(lin.map)
        /\ lin.i - 1 = MaxE820 \/ lin.i - 1 = Len(lin.map)
        /\ \A k \in 1 .. lin.i - 1 : /\ p[E820Table + (k - 1) * EntryCells] = lin.map[k].base
                                     /\ p[E820Table + (k - 1) * EntryCells + 1] = lin.map[k].length
                                     /\ p[E820Table + (k - 1) * EntryCells + 2] = lin.map[k].typ
        /\ \A j \in E820Table + (lin.i - 1) * EntryCells .. PageCells : p[j] = Original(j)
    BY <1>8 DEF LinuxInv, TableInv, Prepared
  <2>2. lin.i - 1 \in Nat /\ n = lin.i - 1
    <3>1. n = IF Len(lin.map) <= MaxE820 THEN Len(lin.map) ELSE MaxE820
      BY <1>1, <1>2, MinOfTwo
    <3> HIDE DEF n, p
    <3> QED
      BY <1>1, <1>2, <2>1, <3>1
  <2> HIDE DEF p, n
  <2>3. E820Of(p) = SubSeq(lin.map, 1, n)
    BY <1>2, <2>1, <2>2, TableReads
  <2>4. E820Table + n * EntryCells - 1 + 1 = E820Table + (lin.i - 1) * EntryCells
    BY <2>2 DEF E820Table, EntryCells
  <2> QED
    BY <2>1, <2>3, <2>4
<1> QED
  BY <1>3, <1>4, <1>5, <1>6, <1>7, <1>8 DEF ZeroPageTells, Original

(* prepare_linux_boot, whatever the bzImage, the map and the addresses:    *)
(* the zero page tells the kernel where everything is, holds the memory    *)
(* map up to E820_MAX entries and writes nothing behind it.                *)
THEOREM ZeroPageRight == LinuxSpec => []ZeroPageTells
PROOF
<1>1. LinuxInv /\ UNCHANGED lin => LinuxInv'
  BY DEF LinuxInv, PopulatedInv, AddressInv, TableInv, Prepared, Succeeded, Original
<1>2. LinuxInv /\ [LinuxNext]_lin => LinuxInv'
  BY <1>1, ParseHeaderInv, SetCode32Inv, SetCmdlineInv, SetInitrdInv, AddRegionInv, EntryPointInv
  DEF LinuxNext
<1> QED
  BY LinuxInitInv, <1>2, InvTells, PTL DEF LinuxSpec
==============================================================================
