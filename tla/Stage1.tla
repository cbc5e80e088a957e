------------------------------- MODULE Stage1 -------------------------------
(***************************************************************************)
(* zamak-stage1/src/mbr.rs: the boot sector loads stage 2 in chunks with   *)
(* INT 13h extended reads and jumps to it.  Memory is counted in slots of  *)
(* one sector: a segment register step of 32 paragraphs is one slot, and   *)
(* 16-bit segment arithmetic wraps at MemSlots.                            *)
(***************************************************************************)
EXTENDS Disk

CONSTANTS
  Chunk,        \* 64 sectors, 32 KiB
  StartSlot,    \* 0x8000 / 512: where stage 2 goes
  CodeSlot,     \* 0x7C00 / 512: where the BIOS put this sector
  RamTop,       \* 0xA0000 / 512: writes above do not reach RAM
  MemSlots,     \* 2^16 paragraphs / 32
  Free          \* "memory nobody has written"

VARIABLES
  boot,         \* "off", "probe", "read", "jumped", "halted" or "wild"
  mem,          \* memory by slot
  slot,         \* .Ldap_segment
  lba,          \* .Ldap_lba
  left          \* cx: sectors still to read

loadVars == <<boot, mem, slot, lba, left>>

(* Slots come in chunks, two to a 64 KiB segment; the wrap and the start   *)
(* are on chunk boundaries, and the loader sits below its load address.    *)
ASSUME ChunkAssumption == Chunk \in Nat \ {0}
ASSUME SlotAssumption ==
  /\ StartSlot \in Nat /\ \E q \in 0 .. StartSlot : StartSlot = q * Chunk
  /\ MemSlots \in Nat /\ \E q \in 0 .. MemSlots : MemSlots = q * Chunk
  /\ CodeSlot \in 0 .. StartSlot - 1
  /\ RamTop \in StartSlot + 1 .. MemSlots
ASSUME NumSectorsAssumption == NumSectors \in Nat \ {0}

MemSlot == 0 .. MemSlots - 1

LoadInit ==
  /\ boot = "off"
  /\ mem = [m \in MemSlot |-> Free]
  /\ slot = StartSlot
  /\ lba = 0
  /\ left = 0

(* The BIOS reads sector 0 to 0x7C00 and enters it if it is signed. *)
PowerOn ==
  /\ boot = "off"
  /\ IsMbr(disk[0])
  /\ boot' = "probe"
  /\ mem' = [m \in MemSlot |-> IF m = CodeSlot THEN disk[0] ELSE Free]
  /\ UNCHANGED <<slot, lba, left>>

(* Mutant: .Ldap_segment is left at zero. *)
CheckExtensionsNoSegment ==
  /\ boot = "probe"
  /\ \/ boot' = "halted" /\ UNCHANGED <<slot, lba, left>>
     \/ /\ boot' = "read"
        /\ slot' = 0
        /\ lba' = mem[CodeSlot][3]
        /\ left' = mem[CodeSlot][4]
  /\ mem' = mem

(* INT 13h AH=41h, then the read loop is set up from the patched fields. *)
CheckExtensions ==
  /\ boot = "probe"
  /\ \/ boot' = "halted" /\ UNCHANGED <<slot, lba, left>>
     \/ /\ boot' = "read"
        /\ slot' = StartSlot
        /\ lba' = mem[CodeSlot][3]
        /\ left' = mem[CodeSlot][4]
  /\ mem' = mem

(* Mutant: everything is read in one transfer. *)
CountAll == left

Count == IF left >= Chunk THEN Chunk ELSE left

Intact == IsMbr(mem[CodeSlot])

(* Mutant: the segment is not advanced. *)
ReadChunkInPlace ==
  /\ boot = "read"
  /\ Intact
  /\ left > 0
  /\ lba + Count <= NumSectors
  /\ mem' = [m \in MemSlot |->
               IF m \in slot .. slot + Count - 1 /\ m < RamTop
               THEN disk[lba + (m - slot)] ELSE mem[m]]
  /\ lba' = lba + Count
  /\ left' = left - Count
  /\ UNCHANGED <<boot, slot>>

(* Mutant: cx is decremented by a whole chunk, whatever was read. *)
ReadChunkUnderflow ==
  /\ boot = "read"
  /\ Intact
  /\ left > 0
  /\ lba + Count <= NumSectors
  /\ lba' = lba + Count
  /\ slot' = (slot + Count) % MemSlots
  /\ left' = left - Chunk
  /\ UNCHANGED <<boot, mem>>

ReadChunk ==
  /\ boot = "read"
  /\ Intact
  /\ left > 0
  /\ lba + Count <= NumSectors
  /\ mem' = [m \in MemSlot |->
               IF m \in slot .. slot + Count - 1 /\ m < RamTop
               THEN disk[lba + (m - slot)] ELSE mem[m]]
  /\ lba' = lba + Count
  /\ slot' = (slot + Count) % MemSlots
  /\ left' = left - Count
  /\ UNCHANGED boot

(* Mutant: a failed read is tried again for ever. *)
ReadErrorRetries ==
  /\ boot = "read"
  /\ Intact
  /\ left > 0
  /\ UNCHANGED <<boot, mem, slot, lba, left>>

(* INT 13h sets CF: past the end of the disk, or at any read. *)
ReadError ==
  /\ boot = "read"
  /\ Intact
  /\ left > 0
  /\ boot' = "halted"
  /\ UNCHANGED <<mem, slot, lba, left>>

Jump ==
  /\ boot = "read"
  /\ Intact
  /\ left = 0
  /\ boot' = "jumped"
  /\ UNCHANGED <<mem, slot, lba, left>>

(* The loader has read over its own code: what runs next is not stage 1. *)
Overrun ==
  /\ boot = "read"
  /\ ~Intact
  /\ boot' = "wild"
  /\ UNCHANGED <<mem, slot, lba, left>>

LoadStep == CheckExtensions \/ ReadChunk \/ ReadError \/ Jump \/ Overrun

(* Reset of a machine that has jumped or stopped. *)
PowerOff ==
  /\ boot \in {"jumped", "halted", "wild"}
  /\ boot' = "off"
  /\ mem' = [m \in MemSlot |-> Free]
  /\ slot' = StartSlot
  /\ lba' = 0
  /\ left' = 0
=============================================================================
