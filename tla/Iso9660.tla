------------------------------ MODULE Iso9660 ------------------------------
(***************************************************************************)
(* The ISO 9660 driver, zamak-core/src/iso9660.rs, on a device that may    *)
(* fail.  A sector is a volume descriptor, a piece of a directory or       *)
(* SectorBytes bytes of a file; files and directories are contiguous.      *)
(***************************************************************************)
EXTENDS Integers, Sequences, FiniteSetsExt

CONSTANTS
  IsoVolumes,   \* [sectors, bad]
  IsoPaths,     \* sequences of names
  IsoBuffers,   \* lengths of the destination buffers
  SectorBytes,  \* SECTOR_SIZE, in bytes of a file
  SectorUnits,  \* SECTOR_SIZE, in the units of a record's length
  PvdSector,    \* PVD_SECTOR
  LastVd,       \* 32: the last sector looked at for a volume descriptor
  NoIsoReply, IsoReadFailed  \* no answer yet, and the answer Error::IoError

VARIABLE iso

IsoOk(value) == [kind |-> "Ok", value |-> value]
IsoErr(kind) == [kind |-> kind]

IsoReadable(v, s) == s \in DOMAIN v.sectors \ v.bad

(* trim_end_matches(";1") and eq_ignore_ascii_case. *)
SameName(record, name) == record.version \in {"", ";1"} /\ record.fold = name.fold

(* parse_directory_record: "." and "..", and records too short, are None. *)
FileEntryOf(r) == [lba |-> r.lba, size |-> r.size, dir |-> r.dir]

SectorsOf(size) == (size + SectorBytes - 1) \div SectorBytes

(***************************************************************************)
(* What the volume holds.                                                  *)
(***************************************************************************)
RECURSIVE RecordsAt(_, _)
RecordsAt(sector, offset) ==
  IF offset >= SectorUnits \/ sector[offset].len = 0 THEN <<>>
  ELSE <<sector[offset]>> \o RecordsAt(sector, offset + sector[offset].len)

DirRecords(v, dir) ==
  UNION {{RecordsAt(v.sectors[s], 0)[i] : i \in DOMAIN RecordsAt(v.sectors[s], 0)} :
           s \in dir.lba .. dir.lba + SectorsOf(dir.size) - 1}

(* The first descriptor that is not a supplement: the primary one, if the  *)
(* set has one within reach.                                               *)
Primary(v) ==
  LET stops == {s \in PvdSector .. LastVd : v.sectors[s].type # "supplement"}
      vd    == v.sectors[Min(stops)]
  IN  IF stops = {} \/ vd.type # "primary" THEN IsoErr("InvalidFilesystem")
      ELSE IsoOk([lba |-> vd.lba, size |-> vd.size, dir |-> TRUE])

RECURSIVE IsoNames(_, _, _)
IsoNames(v, path, n) ==
  IF n = 0 THEN Primary(v)
  ELSE LET up == IsoNames(v, path, n - 1)
       IN  IF up.kind # "Ok" THEN up
           ELSE IF ~up.value.dir THEN IsoErr("NotADirectory")
           ELSE LET hits == {r \in DirRecords(v, up.value) : r.named /\ SameName(r, path[n])}
                IN  IF hits = {} THEN IsoErr("FileNotFound")
                    ELSE IsoOk(FileEntryOf(CHOOSE r \in hits : TRUE))

IsoBytes(v, file, n) ==
  [i \in 1 .. n |-> v.sectors[file.lba + (i - 1) \div SectorBytes][((i - 1) % SectorBytes) + 1]]

NoIsoPromise == [binding |-> FALSE, faulty |-> FALSE, found |-> FALSE, entry |-> 0, data |-> 0]

IsoPromise(v, path, buf) ==
  LET to == IsoNames(v, path, Len(path))
      isFile == to.kind = "Ok" /\ ~to.value.dir
  IN  [binding |-> TRUE, faulty |-> v.bad # {}, found |-> isFile, entry |-> to,
       data |-> IF isFile THEN IsoBytes(v, to.value, Min({to.value.size, buf})) ELSE <<>>]

(***************************************************************************)
(* The driver.                                                             *)
(***************************************************************************)
IsoIdle == iso = [pc |-> "idle"]

IsoInit ==
  \E v \in IsoVolumes, p \in IsoPaths, n \in IsoBuffers :
    iso = [pc |-> "mount", vol |-> v, path |-> p, part |-> 1, buf |-> n, vd |-> PvdSector,
           promise |-> IsoPromise(v, p, n), dir |-> [lba |-> 0, size |-> 0, dir |-> TRUE], sector |-> 0, offset |-> 0,
           entry |-> NoIsoReply, dest |-> <<>>, data |-> NoIsoReply]

IsoFound(answer) ==
  iso' = [iso EXCEPT !.entry = answer, !.sector = 0,
                     !.pc = IF answer.kind = "Ok" /\ ~answer.value.dir THEN "read" ELSE "done"]

(* One iteration of the loop of mount. *)
IsoMount ==
  LET vd == iso.vol.sectors[iso.vd]
      root == [lba |-> vd.lba, size |-> vd.size, dir |-> TRUE]
  IN  /\ iso.pc = "mount"
      /\ IF ~IsoReadable(iso.vol, iso.vd) THEN IsoFound(IsoErr("IoError"))
         ELSE IF vd.type \in {"foreign", "terminator"} THEN IsoFound(IsoErr("InvalidFilesystem"))
         ELSE IF vd.type = "primary"
         THEN IF iso.path = <<>> THEN IsoFound(IsoOk(root))
              ELSE iso' = [iso EXCEPT !.pc = "sector", !.dir = root, !.sector = 0]
         ELSE IF iso.vd + 1 > LastVd THEN IsoFound(IsoErr("InvalidFilesystem"))
         ELSE iso' = [iso EXCEPT !.vd = @ + 1]

(* The next sector of the directory, in find_in_directory. *)
IsoDirSector ==
  /\ iso.pc = "sector"
  /\ IF iso.sector >= SectorsOf(iso.dir.size) THEN IsoFound(IsoErr("FileNotFound"))
     ELSE IF ~IsoReadable(iso.vol, iso.dir.lba + iso.sector) THEN IsoFound(IsoErr("IoError"))
     ELSE iso' = [iso EXCEPT !.pc = "record", !.offset = 0]

(* MUTANT of EndOfSector: a zero length ends the directory's sector only   *)
(* when the sector is full, so the padding is read as records.             *)
EndOfSectorOnlyFull(r, offset) == offset >= SectorUnits \/ offset + r.len > SectorUnits

EndOfSector(r, offset) == r.len = 0 \/ offset + r.len > SectorUnits

(* One record, and what find_file does with the one that matches. *)
IsoRecord ==
  /\ iso.pc = "record"
  /\ IF iso.offset >= SectorUnits THEN iso' = [iso EXCEPT !.pc = "sector", !.sector = @ + 1]
     ELSE LET r == iso.vol.sectors[iso.dir.lba + iso.sector][iso.offset]
          IN  IF EndOfSector(r, iso.offset) THEN iso' = [iso EXCEPT !.pc = "sector", !.sector = @ + 1]
              ELSE IF ~(r.named /\ SameName(r, iso.path[iso.part]))
              THEN iso' = [iso EXCEPT !.offset = @ + r.len]
              ELSE IF iso.part = Len(iso.path) THEN IsoFound(IsoOk(FileEntryOf(r)))
              ELSE IF ~r.dir THEN IsoFound(IsoErr("NotADirectory"))
              ELSE iso' = [iso EXCEPT !.pc = "sector", !.part = @ + 1, !.sector = 0,
                                      !.dir = FileEntryOf(r)]

IsoDone(answer) == iso' = [iso EXCEPT !.pc = "done", !.data = answer]

(* One iteration of read_extent. *)
IsoRead ==
  LET file == iso.entry.value
      have == Len(iso.dest)
      take == Min({file.size - have, SectorBytes})
      from == iso.vol.sectors[file.lba + iso.sector]
  IN  /\ iso.pc = "read"
      /\ IF iso.sector >= SectorsOf(file.size) THEN IsoDone(IsoOk(iso.dest))
         ELSE IF ~IsoReadable(iso.vol, file.lba + iso.sector) THEN IsoDone(IsoErr("IoError"))
         ELSE IF have + take > iso.buf
         THEN IsoDone(IsoOk(iso.dest \o SubSeq(from, 1, iso.buf - have)))
         ELSE iso' = [iso EXCEPT !.dest = @ \o SubSeq(from, 1, take), !.sector = @ + 1]

IsoNext == IsoMount \/ IsoDirSector \/ IsoRecord \/ IsoRead

IsoReplyOf(answer) == IF answer = IsoErr("IoError") THEN IsoReadFailed ELSE answer

IsoService == INSTANCE FileService WITH
  None    <- NoIsoReply,
  IoError <- IsoReadFailed,
  promise <- IF iso.pc = "idle" THEN NoIsoPromise ELSE iso.promise,
  entry   <- IF iso.pc = "idle" THEN NoIsoReply ELSE IsoReplyOf(iso.entry),
  data    <- IF iso.pc = "idle" \/ iso.data = NoIsoReply THEN NoIsoReply
             ELSE IF iso.data.kind = "Ok" THEN iso.data.value ELSE IsoReplyOf(iso.data)

(* From the primary descriptor, wherever it stands in the set, find_file   *)
(* gives the record the path names, also when a directory has several      *)
(* padded sectors, and read_file the file's first bytes up to its size or  *)
(* the buffer's; a failing device shows as IoError; both return.           *)
IsoServes == IsoService!Service
=============================================================================
