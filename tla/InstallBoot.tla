---------------------------- MODULE InstallBoot ----------------------------
(***************************************************************************)
(* The installer and the boot sector on one disk: the host runs            *)
(* `zamak install` any number of times, its page cache is written back or  *)
(* lost, and the machine boots from what reached the platter.              *)
(***************************************************************************)
EXTENDS Install, Stage1

VARIABLE
  fresh         \* history: the arguments of the last run whose writes were all made,
                \* until something else is written or the cache is lost

vars == <<disk, cached, cliVars, loadVars, fresh>>

Init == DiskInit /\ InstallInit /\ LoadInit /\ fresh = NoRun

(* The disk is in the host until the machine is started. *)
HostStep ==
  /\ boot = "off"
  /\ InstallNext
  /\ fresh' = IF cached' # cached THEN NoRun
              ELSE IF cli = "write_stage2" /\ result' = "ok" THEN args ELSE fresh
  /\ UNCHANGED loadVars

HostWriteback ==
  /\ boot = "off"
  /\ \E s \in SectorNo : Writeback(s)
  /\ UNCHANGED <<cliVars, loadVars, fresh>>

(* The host loses power: the run dies, and the cache with it. *)
PowerLoss ==
  /\ boot = "off"
  /\ ~Clean
  /\ DropCache
  /\ cli' = "idle"
  /\ result' = "none"
  /\ args' = NoRun
  /\ done' = 0
  /\ fresh' = NoRun
  /\ UNCHANGED <<runs, loadVars>>

StartMachine ==
  /\ cli = "idle"
  /\ Clean
  /\ PowerOn
  /\ UNCHANGED <<disk, cached, cliVars, fresh>>

MachineStep == LoadStep /\ UNCHANGED <<disk, cached, cliVars, fresh>>

StopMachine == PowerOff /\ UNCHANGED <<disk, cached, cliVars, fresh>>

Next == HostStep \/ HostWriteback \/ PowerLoss \/ StartMachine \/ MachineStep \/ StopMachine

Spec == Init /\ [][Next]_vars

(* The processor keeps executing the boot sector. *)
FairSpec == Spec /\ WF_vars(MachineStep)

-----------------------------------------------------------------------------
(* The two fields of the boot sector that stage 1 reads. *)
Stage2Lba == disk[0][3]

Stage2Size == disk[0][4]

(* Type invariant: which sectors, memory slots and program points occur.   *)
TypeOK ==
  /\ disk \in [SectorNo -> Content]
  /\ cached \in [SectorNo -> Content \cup {NotCached}]
  /\ cli \in {"idle", "write_mbr", "write_stage2"}
  /\ args \in Args \cup {NoRun}
  /\ done \in Nat
  /\ result \in {"none", "error", "ok", "no_op", "dry_run"}
  /\ runs \in 0 .. MaxRuns
  /\ boot \in {"off", "probe", "read", "jumped", "halted", "wild"}
  /\ mem \in [MemSlot -> Content \cup {Free}]
  /\ slot \in MemSlot
  /\ lba \in Nat
  /\ left \in Nat
  /\ fresh \in Args \cup {NoRun}

(* A run of install that made all its writes leaves the host's view of the *)
(* disk with the patched boot sector in sector 0 and the whole of stage 2  *)
(* where that sector says, whatever is written back meanwhile.             *)
FreshOnDisk ==
  fresh # NoRun =>
    /\ View[0] = Patched(fresh)
    /\ \A k \in 0 .. SectorsOf[fresh.image] - 1 :
         View[fresh.lba + k] = Stage2Sector(fresh.image, k)

(* mbr.rs, the read loop: "no single INT 13h transfer crosses a 64 KiB     *)
(* real-mode segment boundary", for every size that install may patch in,  *)
(* also after the segment register has wrapped.                            *)
NoCrossing ==
  boot = "read" /\ left > 0 =>
    \E b \in 0 .. MemSlots :
      b * (2 * Chunk) <= slot /\ slot + Count <= (b + 1) * (2 * Chunk)

(* Stage 1 reads over its own code at 0x7C00 only for a stage 2 so large   *)
(* that the 16-bit segment register wraps.                                 *)
LoaderSurvives ==
  boot = "wild" => Stage2Size > MemSlots - StartSlot

(* When stage 1 jumps to 0x8000, memory from there on holds the sectors    *)
(* that the boot sector names, in order, if they fit below 0xA0000.        *)
LoadedWhole ==
  boot = "jumped" /\ Stage2Size <= RamTop - StartSlot =>
    \A k \in 0 .. Stage2Size - 1 : mem[StartSlot + k] = disk[Stage2Lba + k]

(* From the command line to the jump: a machine started after a run of     *)
(* install that made all its writes, and after their writeback, enters the *)
(* image that was given on the command line.                               *)
FreshBoots ==
  boot = "jumped" /\ fresh # NoRun /\ SectorsOf[fresh.image] <= RamTop - StartSlot =>
    \A k \in 0 .. SectorsOf[fresh.image] - 1 :
      mem[StartSlot + k] = Stage2Sector(fresh.image, k)

(* Stage 1 does not loop for ever: it jumps, stops with a message, or has  *)
(* lost control of the machine.                                            *)
BootEnds ==
  boot \in {"probe", "read"} ~> boot \in {"jumped", "halted", "wild"}

(* SKILL.md:72: install "writes stage2 starting at an LBA of your choice"; *)
(* its report has the field stage2_bytes_written.  A run that ends well,   *)
(* and is no dry run, leaves that stage 2 on the disk.                     *)
OkMeansInstalled ==
  cli = "idle" /\ result \in {"ok", "no_op"} =>
    \A k \in 0 .. SectorsOf[args.image] - 1 :
      /\ args.lba + k \in SectorNo
      /\ View[args.lba + k] = Stage2Sector(args.image, k)
=============================================================================
