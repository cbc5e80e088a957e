------------------------------ MODULE RamFat32 ------------------------------
(***************************************************************************)
(* RamFat32 of zamak-core/src/ram_fat32.rs: a FAT32 partition that was     *)
(* loaded into memory.  find_path walks directories entry by entry, with   *)
(* long names put together by LfnAccum, and read_file walks the chain of   *)
(* the file.                                                               *)
(***************************************************************************)
EXTENDS FatVolume

VARIABLE fat

(* LfnAccum *)
LfnNew ==
  [chars |-> [i \in 1 .. MaxSegments * SegLen |-> "nul"], count |-> 0,
   valid |-> FALSE, have_last |-> FALSE]

LfnReset(lfn) == [LfnNew EXCEPT !.chars = lfn.chars]

(* The characters of the segment up to the first that is not ASCII. *)
Taken(text) == Min({i \in 1 .. SegLen : text[i] = "wide"} \cup {SegLen + 1}) - 1

(* MUTANT of Slot: segments counted from zero. *)
SlotFromZero(seq) == seq * SegLen

Slot(seq) == (seq - 1) * SegLen

Placed(lfn, e) ==
  LET base == Slot(e.seq)
      n    == Taken(e.text)
      ends == {i \in 1 .. n : e.text[i] \in Terminator}
  IN  [lfn EXCEPT
         !.chars = [i \in DOMAIN @ |->
                      IF i - base \in 1 .. n
                      THEN IF i - base \in ends THEN "nul" ELSE e.text[i - base]
                      ELSE @[i]],
         !.count = Min({base + i - 1 : i \in ends} \cup {@}),
         !.valid = @ /\ n = SegLen]

Absorb(lfn, e) ==
  IF e.seq \notin 1 .. MaxSegments THEN LfnReset(lfn)
  ELSE IF e.last
  THEN Placed([LfnReset(lfn) EXCEPT !.have_last = TRUE, !.valid = TRUE, !.count = e.seq * SegLen], e)
  ELSE IF lfn.have_last THEN Placed(lfn, e)
  ELSE lfn

LfnMatches(lfn, part) ==
  lfn.valid /\ lfn.count > 0 /\ EqIgnoreCase(SubSeq(lfn.chars, 1, lfn.count), part)

ClusterBytes(cluster) == cluster \in DOMAIN fat.vol.data
InChain(cluster) == cluster >= 2 /\ cluster < EndOfChain
HasNext(cluster) == cluster \in DOMAIN fat.vol.fat

FatIdle == fat = [pc |-> "idle"]

FatInit ==
  \E v \in FatVolumes, p \in FatPaths, n \in FatBuffers :
    fat = [pc |-> "parse", vol |-> v, path |-> p, part |-> 1, buf |-> n, cluster |-> 0,
           promise |-> FatPromise(v, p, n),
           current |-> 0, ofs |-> 1, lfn |-> LfnNew, facts |-> NoFacts, dest |-> <<>>]

Give(facts) == fat' = [fat EXCEPT !.pc = IF facts.found THEN "read" ELSE "done",
                                  !.facts = facts, !.cluster = facts.cluster]

(* RamFat32::parse, and find_path up to its first part. *)
FatParse ==
  /\ fat.pc = "parse"
  /\ IF fat.vol.ok /\ fat.path # <<>>
     THEN fat' = [fat EXCEPT !.pc = "dir", !.current = fat.vol.root, !.cluster = fat.vol.root]
     ELSE Give(NoFacts)

(* The entry is the one looked for: the next part, or the answer. *)
Descend(e) ==
  LET facts == [found |-> TRUE, cluster |-> e.cluster, len |-> e.len, dir |-> e.dir]
      dir   == IF e.dir THEN e.cluster ELSE fat.current
  IN  IF fat.part = Len(fat.path) THEN Give(facts)
      ELSE fat' = [fat EXCEPT !.part = @ + 1, !.current = dir, !.cluster = dir, !.ofs = 1,
                              !.lfn = LfnNew]

(* One iteration of the loop of find_in_dir: an entry, or a cluster's end. *)
FatDirStep ==
  /\ fat.pc = "dir"
  /\ IF ~ClusterBytes(fat.cluster) THEN Give(NoFacts)
     ELSE IF fat.ofs > PerCluster
     THEN IF HasNext(fat.cluster) /\ InChain(fat.vol.fat[fat.cluster])
          THEN fat' = [fat EXCEPT !.cluster = fat.vol.fat[@], !.ofs = 1]
          ELSE Give(NoFacts)
     ELSE LET e == fat.vol.data[fat.cluster][fat.ofs]
              Skip(lfn) == fat' = [fat EXCEPT !.ofs = @ + 1, !.lfn = lfn]
          IN  \/ e.kind = "end" /\ Give(NoFacts)
              \/ e.kind = "deleted" /\ Skip(LfnReset(fat.lfn))
              \/ e.kind = "lfn" /\ Skip(Absorb(fat.lfn, e))
              \/ /\ e.kind = "short"
                 /\ IF LfnMatches(fat.lfn, fat.path[fat.part]) \/ e.name = NameTo83(fat.path[fat.part])
                    THEN Descend(e)
                    ELSE Skip(LfnReset(fat.lfn))

(* One iteration of the loop of read_file. *)
FatReadStep ==
  LET total == Min({fat.facts.len, fat.buf})
      take  == Min({total - Len(fat.dest), PerCluster})
      dest  == fat.dest \o SubSeq(fat.vol.data[fat.cluster], 1, take)
      More  == Len(dest) < total /\ HasNext(fat.cluster)
  IN  /\ fat.pc = "read"
      /\ IF Len(fat.dest) < total /\ InChain(fat.cluster) /\ ClusterBytes(fat.cluster)
         THEN fat' = [fat EXCEPT !.dest = dest, !.pc = IF More THEN "read" ELSE "done",
                                 !.cluster = IF More THEN fat.vol.fat[@] ELSE @]
         ELSE fat' = [fat EXCEPT !.pc = "done"]

FatNext == FatParse \/ FatDirStep \/ FatReadStep

FatPromised == IF fat.pc = "idle" THEN NoPromise ELSE fat.promise

FatService == INSTANCE FileService WITH
  None    <- NoAnswer,
  IoError <- IoFailed,
  promise <- FatPromised,
  entry   <- IF fat.pc \in {"idle", "parse", "dir"} THEN NoAnswer ELSE fat.facts,
  data    <- IF fat.pc = "done" /\ fat.facts.found THEN fat.dest ELSE NoAnswer

(* On a volume an operating system wrote, find_path gives the entry the    *)
(* path names, by its long name or by its short one, and read_file gives   *)
(* the first bytes of that file and no others; both return.                *)
FatServes == FatService!Service
=============================================================================
