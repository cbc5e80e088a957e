------------------------------ MODULE Install ------------------------------
(***************************************************************************)
(* zamak-cli/src/commands/install.rs: `zamak install` writes the stage 1   *)
(* boot sector and then stage 2.  A run is its checks (Start), then one    *)
(* step per sector it writes, each of which may fail or be the last before *)
(* the process dies.                                                       *)
(***************************************************************************)
EXTENDS Disk

CONSTANTS
  Images,       \* the stage 2 files
  SectorsOf,    \* stage2_sectors of each file; 0 for an empty one
  MbrFiles,     \* the --mbr files, a subset of which is valid
  ValidMbr,     \* 512 bytes long and signed
  Lbas,         \* the --stage2-lba values tried
  MaxLba,       \* 0x7FFF_FFFF of check_bounds
  U16Max,       \* u16::MAX
  MaxRuns       \* bound on the number of runs

ASSUME ImagesAssumption == SectorsOf \in [Images -> Nat]
ASSUME BoundsAssumption == Lbas \subseteq Nat /\ MaxLba \in Nat /\ U16Max \in Nat /\ MaxRuns \in Nat

VARIABLES
  cli,          \* "idle", "write_mbr" or "write_stage2"
  args,         \* the arguments of the run, if it gets past its checks
  done,         \* stage 2 sectors written by the run
  result,       \* how the last run ended: "none", "error", "ok", "no_op" or "dry_run"
  runs          \* runs started

cliVars == <<cli, args, done, result, runs>>

Args == [mbr : MbrFiles, image : Images, lba : Lbas, dry_run : BOOLEAN, yes : BOOLEAN]

NoRun == [mbr |-> "none", image |-> "none", lba |-> 0, dry_run |-> TRUE, yes |-> FALSE]

(* Every sector that install can produce, and the others. *)
Content ==
  {MbrSector(m, l, n) : m \in MbrFiles, l \in Lbas, n \in 0 .. U16Max}
    \cup {Stage2Sector(im, k) : im \in Images, k \in 0 .. U16Max}
    \cup {Other}

ASSUME NamesAssumption == NoRun \notin Args /\ NotCached \notin Content

InstallInit ==
  /\ cli = "idle"
  /\ args = NoRun
  /\ done = 0
  /\ result = "none"
  /\ runs = 0

(* Mutant: the field holds the sector after the one stage 2 is written to. *)
PatchedNext(a) == MbrSector(a.mbr, a.lba + 1, SectorsOf[a.image])

(* The boot sector with the location and size of stage 2 patched in. *)
Patched(a) == MbrSector(a.mbr, a.lba, SectorsOf[a.image])

(* Mutant: the lower bound is off by one. *)
BoundsFromZero(a) == 0 <= a.lba /\ a.lba <= MaxLba

BoundsOk(a) == 1 <= a.lba /\ a.lba <= MaxLba

(* What the run decides before it writes; readable is whether fs::read of  *)
(* the target succeeds (a failure skips the idempotency check).            *)
Verdict(a, readable) ==
  CASE ~BoundsOk(a)                            -> "error"
    [] a.mbr \notin ValidMbr                   -> "error"
    [] SectorsOf[a.image] = 0                  -> "error"
    [] SectorsOf[a.image] > U16Max             -> "error"
    [] a.dry_run                               -> "dry_run"
    [] readable /\ View[0] = Patched(a)        -> "no_op"
    [] ~a.yes                                  -> "error"
    [] OTHER                                   -> "write"

Start(a, readable) ==
  /\ cli = "idle"
  /\ runs < MaxRuns
  /\ runs' = runs + 1
  /\ args' = IF Verdict(a, readable) \in {"write", "no_op"} THEN a ELSE NoRun
  /\ done' = 0
  /\ IF Verdict(a, readable) = "write"
     THEN cli' = "write_mbr" /\ result' = "none"
     ELSE cli' = "idle" /\ result' = Verdict(a, readable)
  /\ UNCHANGED <<disk, cached>>

(* The boot sector goes first. *)
WriteMbr ==
  /\ cli = "write_mbr"
  /\ WriteSector(0, Patched(args))
  /\ cli' = "write_stage2"
  /\ UNCHANGED <<args, done, result, runs>>

WriteStage2 ==
  /\ cli = "write_stage2"
  /\ done < SectorsOf[args.image]
  /\ args.lba + done < NumSectors
  /\ WriteSector(args.lba + done, Stage2Sector(args.image, done))
  /\ done' = done + 1
  /\ UNCHANGED <<cli, args, result, runs>>

(* flush() of a File does nothing; the run reports success. *)
Finish ==
  /\ cli = "write_stage2"
  /\ done = SectorsOf[args.image]
  /\ cli' = "idle"
  /\ result' = "ok"
  /\ done' = 0
  /\ UNCHANGED <<disk, cached, args, runs>>

(* open, seek or write fails, past the end of the disk or anywhere else;   *)
(* or the process is killed.  What it wrote stays.                         *)
Abandon ==
  /\ cli # "idle"
  /\ cli' = "idle"
  /\ result' = "error"
  /\ args' = NoRun
  /\ done' = 0
  /\ UNCHANGED <<disk, cached, runs>>

InstallNext ==
  \/ \E a \in Args, readable \in BOOLEAN : Start(a, readable)
  \/ WriteMbr \/ WriteStage2 \/ Finish \/ Abandon
=============================================================================
