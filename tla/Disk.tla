-------------------------------- MODULE Disk --------------------------------
(***************************************************************************)
(* The boot disk as zamak-cli and stage 1 see it: sectors on the platter,  *)
(* and the host's page cache above them.  File::write_all and File::flush  *)
(* reach the cache only (install.rs calls no sync_all), the operating      *)
(* system writes dirty sectors back in any order, and a power loss drops   *)
(* those it has not written.                                               *)
(***************************************************************************)
EXTENDS Integers, Sequences

CONSTANTS
  NumSectors,   \* sectors of the disk
  NotCached     \* "the cache holds nothing for this sector"

VARIABLES
  disk,         \* what is on the platter, by sector
  cached        \* what the page cache holds, by sector

SectorNo == 0 .. NumSectors - 1

(* Sector contents: the boot sector with the two fields that install       *)
(* patches, one sector of a stage 2 image, or anything else.               *)
MbrSector(code, lba, size) == <<"mbr", code, lba, size>>

Stage2Sector(image, part) == <<"stage2", image, part>>

Other == <<"other">>

IsMbr(sector) == sector[1] = "mbr"

(* What a process on the host reads. *)
View == [s \in SectorNo |-> IF cached[s] = NotCached THEN disk[s] ELSE cached[s]]

Clean == \A s \in SectorNo : cached[s] = NotCached

DiskInit ==
  /\ disk = [s \in SectorNo |-> Other]
  /\ cached = [s \in SectorNo |-> NotCached]

WriteSector(s, content) ==
  /\ cached' = [cached EXCEPT ![s] = content]
  /\ disk' = disk

Writeback(s) ==
  /\ cached[s] # NotCached
  /\ disk' = [disk EXCEPT ![s] = cached[s]]
  /\ cached' = [cached EXCEPT ![s] = NotCached]

DropCache ==
  /\ cached' = [s \in SectorNo |-> NotCached]
  /\ disk' = disk
=============================================================================
