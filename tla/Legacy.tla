------------------------------- MODULE Legacy -------------------------------
(***************************************************************************)
(* The BIOS boot path of the feature legacy_trampoline: kmain of           *)
(* zamak-bios/src/main.rs with its FAT32 driver (fat32.rs) over INT 13h    *)
(* (disk.rs), the VBE and E820 calls (vbe.rs, mmap.rs) and the keyboard    *)
(* (input.rs).  A panic halts the machine.                                 *)
(***************************************************************************)
EXTENDS FatVolume

CONSTANTS
  LegacyDisks,      \* [mbr, vol, conf, flaky]: partition table, volume, parsed zamak.conf
  ConfPath,         \* "zamak.conf"
  ConfBuffer,       \* 4096: the buffer the configuration is read into
  SectorsPerRead,   \* MAX_SECTORS_PER_READ
  LegacyKeys,       \* keys of BiosInput::read_key, "none" when there is none
  MaxKeys           \* bound on the iterations of the menu loop

VARIABLE leg

LegacyIdle == leg = [pc |-> "idle"]

LegacyInit ==
  \E d \in LegacyDisks :
    leg = [pc |-> "mbr", disk |-> d, path |-> <<>>, part |-> 1, current |-> 0, cluster |-> 0,
           ofs |-> 1, then |-> "", limit |-> 0, facts |-> NoFacts, left |-> 0, bytes |-> <<>>,
           selected |-> 0, chosen |-> 0, editing |-> FALSE, buffer |-> "", time |-> 0, keys |-> 0,
           handoff |-> <<>>]

Panic == leg' = [leg EXCEPT !.pc = "panic"]

(* MUTANT of ReadSectors: the start of the next chunk is not moved on. *)
RECURSIVE ReadSectorsSameLba(_, _, _)
ReadSectorsSameLba(image, lba, count) ==
  LET chunk == Min({count, SectorsPerRead})
  IN  IF count = 0 THEN <<>>
      ELSE SubSeq(image, lba, lba + chunk - 1) \o ReadSectorsSameLba(image, lba, count - chunk)

(* read_sectors: chunks of at most SectorsPerRead through the bounce buffer. *)
RECURSIVE ReadSectors(_, _, _)
ReadSectors(image, lba, count) ==
  LET chunk == Min({count, SectorsPerRead})
  IN  IF count = 0 THEN <<>>
      ELSE SubSeq(image, lba, lba + chunk - 1) \o ReadSectors(image, lba + chunk, count - chunk)

(* The data area: cluster c starts at cluster_to_lba(c); a unit is a sector. *)
DataArea(v) ==
  LET last == Max(DOMAIN v.data)
  IN  [i \in 1 .. (last - 1) * PerCluster |->
         v.data[((i - 1) \div PerCluster) + 2][((i - 1) % PerCluster) + 1]]

ClusterToLba(c) == (c - 2) * PerCluster + 1

ReadCluster(c) == ReadSectors(DataArea(leg.disk.vol), ClusterToLba(c), PerCluster)

OnDisk(c) == c \in DOMAIN leg.disk.vol.data

(* A read that INT 13h refuses: the error ends find_file and read_file, and *)
(* every caller in kmain expects an Ok.                                     *)
ReadFails == leg.pc \in {"mbr", "dir", "chain", "read", "follow"} /\ leg.disk.flaky /\ Panic

(* The first partition entry of a known type and a start. *)
ReadMbr ==
  LET known == {i \in DOMAIN leg.disk.mbr : leg.disk.mbr[i].known /\ leg.disk.mbr[i].lba # 0}
  IN  /\ leg.pc = "mbr"
      /\ IF known = {} THEN Panic
         ELSE leg' = [leg EXCEPT !.pc = "probe", !.current = leg.disk.mbr[Min(known)].lba]

FindFile(l, path, then, limit) ==
  [l EXCEPT !.pc = "dir", !.path = path, !.part = 1, !.current = l.disk.vol.root,
            !.cluster = l.disk.vol.root, !.ofs = 1, !.then = then, !.limit = limit]

(* Fat32::parse keeps the sector as it is and never refuses one, so a      *)
(* volume of another kind is searched as if it were FAT32.                 *)
Probe ==
  /\ leg.pc = "probe"
  /\ IF leg.disk.vol.ok /\ leg.current = leg.disk.vol.lba
     THEN leg' = FindFile(leg, ConfPath, "conf", ConfBuffer)
     ELSE leg' \in {[leg EXCEPT !.pc = "panic"], [leg EXCEPT !.pc = "hung"]}

NotFound == Panic

CompareName(e, search) == e.name = NameTo83(search)

(* find_in_cluster, and find_file with the entry that matches. *)
DirEntry ==
  /\ leg.pc = "dir"
  /\ IF ~OnDisk(leg.cluster) THEN Panic
     ELSE IF leg.ofs > PerCluster THEN leg' = [leg EXCEPT !.pc = "chain"]
     ELSE LET e == ReadCluster(leg.cluster)[leg.ofs]
              dir == IF e.dir THEN e.cluster ELSE leg.current
          IN  IF e.kind = "end" THEN NotFound
              ELSE IF e.kind # "short" \/ ~CompareName(e, leg.path[leg.part])
              THEN leg' = [leg EXCEPT !.ofs = @ + 1]
              ELSE IF leg.part < Len(leg.path)
              THEN leg' = [leg EXCEPT !.part = @ + 1, !.current = dir, !.cluster = dir, !.ofs = 1]
              ELSE leg' = [leg EXCEPT
                     !.pc = "read", !.cluster = e.cluster, !.bytes = <<>>,
                     !.facts = [found |-> TRUE, cluster |-> e.cluster, len |-> e.len, dir |-> e.dir],
                     !.left = IF leg.then = "kernel" THEN e.len ELSE Min({e.len, leg.limit})]

NextCluster ==
  /\ leg.pc = "chain"
  /\ IF leg.disk.vol.fat[leg.cluster] >= EndOfChain THEN NotFound
     ELSE leg' = [leg EXCEPT !.pc = "dir", !.cluster = leg.disk.vol.fat[@], !.ofs = 1]

(* One iteration of read_file, in two reads: the cluster, then the FAT. *)
ReadData ==
  /\ leg.pc = "read"
  /\ IF leg.left = 0 \/ leg.cluster >= EndOfChain THEN leg' = [leg EXCEPT !.pc = leg.then]
     ELSE IF ~OnDisk(leg.cluster) THEN Panic
     ELSE LET n == Min({leg.left, PerCluster})
          IN  leg' = [leg EXCEPT !.pc = "follow", !.left = @ - n,
                                 !.bytes = @ \o SubSeq(ReadCluster(leg.cluster), 1, n)]

FollowChain ==
  /\ leg.pc = "follow"
  /\ leg' = [leg EXCEPT !.pc = "read", !.cluster = leg.disk.vol.fat[@]]

(* The text is cut at the entry's size, which the buffer may not hold. *)
ParseConfig ==
  /\ leg.pc = "conf"
  /\ IF leg.facts.len > ConfBuffer THEN Panic
     ELSE leg' = [leg EXCEPT !.pc = "video"]

(* find_and_set_vbe_mode, 1024x768 and then 800x600; without either there  *)
(* is no menu.                                                             *)
SetVideoMode ==
  /\ leg.pc = "video"
  /\ \E mode \in {"1024x768", "800x600", "none"} :
       leg' = IF mode = "none" THEN [leg EXCEPT !.pc = "load"]
              ELSE [leg EXCEPT !.pc = "menu", !.time = 10 * leg.disk.conf.timeout]

(* The arms of the menu's match on a key, in their order. *)
HandleKey(l, key) ==
  LET n == Len(l.disk.conf.entries)
      stopped == [l EXCEPT !.time = 0]
  IN  CASE key = "up" -> [stopped EXCEPT !.selected = IF @ > 0 THEN @ - 1 ELSE 0]
        [] key = "down" -> [stopped EXCEPT !.selected = IF n = 0 \/ @ < n - 1 THEN @ + 1 ELSE @]
        [] key \in {"edit", "i"} ->
             [stopped EXCEPT !.editing = ~@,
                             !.buffer = IF ~l.editing /\ l.selected < n
                                        THEN l.disk.conf.entries[l.selected + 1].cmdline ELSE @]
        [] key = "a" /\ l.editing -> [l EXCEPT !.buffer = "edited"]
        [] key = "esc" \/ (key = "enter" /\ l.editing) -> [l EXCEPT !.editing = FALSE]
        [] key = "enter" /\ ~l.editing -> [l EXCEPT !.pc = "load", !.chosen = l.selected]
        [] OTHER -> l

(* One turn of the menu loop: a key, then the countdown. *)
MenuTurn ==
  /\ leg.pc = "menu"
  /\ \E key \in LegacyKeys :
       LET l == HandleKey(leg, key)
       IN  /\ key = "none" \/ leg.keys < MaxKeys
           /\ leg' = [l EXCEPT !.keys = IF key = "none" THEN @ ELSE @ + 1,
                               !.pc = IF @ = "menu" /\ l.time = 1 THEN "load" ELSE @,
                               !.time = IF l.pc = "menu" /\ @ > 0 THEN @ - 1 ELSE @]

LoadKernel ==
  /\ leg.pc = "load"
  /\ IF leg.chosen >= Len(leg.disk.conf.entries) THEN Panic
     ELSE leg' = FindFile(leg, leg.disk.conf.entries[leg.chosen + 1].kernel, "kernel", 0)

(* get_memory_map: the entries of INT 15h up to the first answer without   *)
(* the signature, or the last; types it does not know are reserved.        *)
MapType(typ) == IF typ \in {"usable", "acpi", "nvs", "bad"} THEN typ ELSE "reserved"

GetMemoryMap(e820) ==
  LET stop == Min({i \in DOMAIN e820 : ~e820[i].smap \/ e820[i].last} \cup {Len(e820)})
      n    == IF stop > 0 /\ ~e820[stop].smap THEN stop - 1 ELSE stop
  IN  [i \in 1 .. n |-> MapType(e820[i].type)]

(* parse_elf refuses what is not an ELF image; then the file response, the *)
(* memory map, the page tables and the jump.  No statement copies the      *)
(* segments to the physical addresses that are scanned and mapped.         *)
HandOff ==
  /\ leg.pc = "kernel"
  /\ IF ~leg.disk.conf.entries[leg.chosen + 1].elf THEN Panic
     ELSE leg' = [leg EXCEPT
                    !.pc = "jumped",
                    !.handoff = <<leg.bytes, leg.disk.conf.entries[leg.chosen + 1].cmdline,
                                  GetMemoryMap(leg.disk.e820)>>]

LegacyNext ==
  \/ ReadFails \/ ReadMbr \/ Probe \/ DirEntry \/ NextCluster \/ ReadData \/ FollowChain
  \/ ParseConfig \/ SetVideoMode \/ MenuTurn \/ LoadKernel \/ HandOff

(* A disk as the image builder makes it: one FAT32 partition that is sound *)
(* along every path, a configuration that fits, kernels that are there.    *)
GoodDisk(d) ==
  /\ d.vol.ok /\ ~d.flaky
  /\ \E i \in DOMAIN d.mbr : d.mbr[i].known /\ d.mbr[i].lba = d.vol.lba
                              /\ \A j \in 1 .. i - 1 : ~d.mbr[j].known \/ d.mbr[j].lba = 0
  /\ d.conf.entries # <<>>
  /\ Resolve(d.vol, ConfPath, 1).found /\ Resolve(d.vol, ConfPath, 1).len <= ConfBuffer
  /\ \A i \in DOMAIN d.conf.entries :
       LET e == d.conf.entries[i]
       IN  e.elf /\ FatBinding(d.vol, e.kernel) /\ Resolve(d.vol, e.kernel, Len(e.kernel)).found

(* On such a disk the legacy path never panics, whatever keys are pressed, *)
(* and the kernel file it hands over is the whole file of the entry        *)
(* chosen, with the command line of the configuration: what the editor     *)
(* held is dropped.                                                        *)
LegacyBoots ==
  leg.pc # "idle" /\ GoodDisk(leg.disk) =>
    /\ leg.pc \notin {"panic", "hung"}
    /\ leg.pc = "jumped" =>
         LET e  == leg.disk.conf.entries[leg.chosen + 1]
             to == Resolve(leg.disk.vol, e.kernel, Len(e.kernel))
         IN  /\ leg.handoff[1] = SubSeq(Contents(leg.disk.vol, to.cluster), 1, to.len)
             /\ leg.handoff[2] = e.cmdline
=============================================================================
