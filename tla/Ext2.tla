-------------------------------- MODULE Ext2 --------------------------------
(***************************************************************************)
(* The ext2 driver, zamak-core/src/ext2.rs, on a block device that may     *)
(* fail.  A block holds a descriptor table, inodes, directory records,     *)
(* pointers or bytes; every step below reads at most the blocks that one   *)
(* iteration of the code reads.                                            *)
(***************************************************************************)
EXTENDS Integers, Sequences, FiniteSetsExt

CONSTANTS
  ExtVolumes,   \* [magic, small, ipg, isize, blocks, bad]
  ExtPaths,     \* sequences of names
  ExtBuffers,   \* lengths of the destination buffers
  BlockBytes,   \* block_size, in bytes of a file
  DirUnits,     \* block_size, in the units of rec_len
  DescPerBlock, InodesPerBlock, PtrsPerBlock,
  NDirect,      \* 12 direct pointers in an inode
  NoReply, ReadFailed  \* no answer yet, and the answer Error::IoError

VARIABLE ext

Ok(value) == [kind |-> "Ok", value |-> value]
Err(kind) == [kind |-> kind]

(* Disk errors, and blocks that lie past the end of the device. *)
Readable(v, b) == b \in DOMAIN v.blocks \ v.bad

(* The superblock's own block counts; descriptors start in the next one. *)
SuperBlock(v) == IF v.small THEN 1 ELSE 0
BgdStart(v) == IF v.small THEN 2 ELSE 1

GetBgd(v, group) ==
  LET b == BgdStart(v) + group \div DescPerBlock
  IN  IF ~Readable(v, b) THEN Err("IoError")
      ELSE Ok(v.blocks[b][(group % DescPerBlock) + 1])

GetInode(v, num) ==
  IF num = 0 THEN Err("FileNotFound")
  ELSE LET bgd   == GetBgd(v, (num - 1) \div v.ipg)
           index == (num - 1) % v.ipg
           b     == bgd.value + index \div InodesPerBlock
       IN  IF bgd.kind # "Ok" THEN bgd
           ELSE IF ~Readable(v, b) THEN Err("IoError")
           ELSE Ok(v.blocks[b][(index % InodesPerBlock) + 1])

(* The block that holds block number idx of the file; 0 is a hole. *)
RealBlock(v, inode, idx) ==
  IF idx < NDirect THEN Ok(inode.block[idx + 1])
  ELSE IF idx >= NDirect + PtrsPerBlock THEN Err("IoError")
  ELSE IF inode.block[NDirect + 1] = 0 THEN Ok(0)
  ELSE IF ~Readable(v, inode.block[NDirect + 1]) THEN Err("IoError")
  ELSE Ok(v.blocks[inode.block[NDirect + 1]][idx - NDirect + 1])

(***************************************************************************)
(* What the volume holds.                                                  *)
(***************************************************************************)
RECURSIVE Walk(_, _)
Walk(block, ptr) ==
  IF ptr >= DirUnits THEN <<>>
  ELSE <<block[ptr]>> \o IF block[ptr].rec_len = 0 THEN <<>> ELSE Walk(block, ptr + block[ptr].rec_len)

DirBlocks(inode) ==
  {inode.block[i] : i \in 1 .. Min({NDirect, (inode.size + BlockBytes - 1) \div BlockBytes})} \ {0}

LiveRecords(v, inode) ==
  UNION {{r \in {Walk(v.blocks[b], 0)[i] : i \in DOMAIN Walk(v.blocks[b], 0)} : r.inode # 0} :
           b \in DirBlocks(inode)}

InodeOf(v, num) == GetInode([v EXCEPT !.bad = {}], num).value

RECURSIVE Names2(_, _, _)
Names2(v, path, n) ==
  IF n = 0 THEN Ok(2)
  ELSE LET up == Names2(v, path, n - 1)
       IN  IF up.kind # "Ok" THEN up
           ELSE IF ~InodeOf(v, up.value).dir THEN Err("NotADirectory")
           ELSE LET hits == {r \in LiveRecords(v, InodeOf(v, up.value)) : r.name = path[n]}
                IN  IF hits = {} THEN Err("FileNotFound") ELSE Ok((CHOOSE r \in hits : TRUE).inode)

FileBytes(v, inode, n) ==
  [i \in 1 .. n |->
     LET b == RealBlock([v EXCEPT !.bad = {}], inode, (i - 1) \div BlockBytes).value
     IN  IF b = 0 THEN "zero" ELSE v.blocks[b][((i - 1) % BlockBytes) + 1]]

(* A directory this driver claims to read: 128-byte inodes, at most NDirect *)
(* blocks, records that fill their block, none unused before another.       *)
SoundExtDir(v, inode) ==
  /\ inode.size <= NDirect * BlockBytes
  /\ \A b \in DirBlocks(inode) :
       LET w == Walk(v.blocks[b], 0)
       IN  /\ w[Len(w)].rec_len > 0
           /\ \A i \in DOMAIN w : w[i].inode = 0 => i = Len(w)

ExtBinding(v, path, buf) ==
  v.magic =>
    /\ v.isize = 1
    /\ \A n \in 0 .. Len(path) :
         LET to == Names2(v, path, n)
         IN  to.kind = "Ok" =>
               LET inode == InodeOf(v, to.value)
               IN  IF inode.dir THEN SoundExtDir(v, inode)
                   ELSE /\ buf <= inode.size
                        /\ inode.size <= (NDirect + PtrsPerBlock) * BlockBytes

(* The FileEntry of an inode. *)
EntryOf(v, num) == [ino |-> num, size |-> InodeOf(v, num).size, dir |-> InodeOf(v, num).dir]

NoExtPromise == [binding |-> FALSE, faulty |-> FALSE, found |-> FALSE, entry |-> 0, data |-> 0]

ExtPromise(v, path, buf) ==
  IF ~ExtBinding(v, path, buf) THEN NoExtPromise
  ELSE LET to == IF v.magic THEN Names2(v, path, Len(path)) ELSE Err("InvalidFilesystem")
           isFile == to.kind = "Ok" /\ ~InodeOf(v, to.value).dir
       IN  [binding |-> TRUE, faulty |-> v.bad # {}, found |-> isFile,
            entry |-> IF to.kind = "Ok" THEN Ok(EntryOf(v, to.value)) ELSE to,
            data |-> IF isFile THEN FileBytes(v, InodeOf(v, to.value), buf) ELSE <<>>]

(***************************************************************************)
(* The driver.                                                             *)
(***************************************************************************)
ExtIdle == ext = [pc |-> "idle"]

ExtInit ==
  \E v \in ExtVolumes, p \in ExtPaths, n \in ExtBuffers :
    ext = [pc |-> "mount", vol |-> v, path |-> p, part |-> 1, buf |-> n, ino |-> 2,
           promise |-> ExtPromise(v, p, n), inode |-> [dir |-> FALSE, size |-> 0, block |-> <<>>], idx |-> 0, ptr |-> 0,
           entry |-> NoReply, dest |-> <<>>, data |-> NoReply]

Found(answer) ==
  ext' = [ext EXCEPT !.entry = answer,
                     !.pc = IF answer.kind = "Ok" /\ ~answer.value.dir THEN "open" ELSE "done"]

ExtMount ==
  /\ ext.pc = "mount"
  /\ IF ~Readable(ext.vol, SuperBlock(ext.vol)) THEN Found(Err("IoError"))
     ELSE IF ~ext.vol.magic THEN Found(Err("InvalidFilesystem"))
     ELSE ext' = [ext EXCEPT !.pc = "part"]

(* The head of the loop of find_file, and what follows it. *)
ExtPart ==
  LET got == GetInode(ext.vol, ext.ino)
  IN  /\ ext.pc = "part"
      /\ IF got.kind # "Ok" THEN Found(got)
         ELSE IF ext.part > Len(ext.path)
         THEN Found(Ok([ino |-> ext.ino, size |-> got.value.size, dir |-> got.value.dir]))
         ELSE IF ~got.value.dir THEN Found(Err("NotADirectory"))
         ELSE ext' = [ext EXCEPT !.pc = "block", !.inode = got.value, !.idx = 0]

(* A block of the directory: holes are passed over, and only the first     *)
(* NDirect blocks are searched.                                            *)
ExtDirBlock ==
  /\ ext.pc = "block"
  /\ IF ext.idx * BlockBytes >= ext.inode.size \/ ext.idx >= NDirect THEN Found(Err("FileNotFound"))
     ELSE IF ext.inode.block[ext.idx + 1] = 0 THEN ext' = [ext EXCEPT !.idx = @ + 1]
     ELSE IF ~Readable(ext.vol, ext.inode.block[ext.idx + 1]) THEN Found(Err("IoError"))
     ELSE ext' = [ext EXCEPT !.pc = "record", !.ptr = 0]

(* MUTANT of ExtRecord: the next record is taken to follow the name and    *)
(* not rec_len further on, so the remains of a removed record are met.     *)
ExtRecordByName ==
  /\ ext.pc = "record"
  /\ LET r == ext.vol.blocks[ext.inode.block[ext.idx + 1]][ext.ptr]
     IN  IF ext.ptr >= DirUnits \/ r.inode = 0 THEN ext' = [ext EXCEPT !.pc = "block", !.idx = @ + 1]
         ELSE IF r.name = ext.path[ext.part]
         THEN ext' = [ext EXCEPT !.pc = "part", !.part = @ + 1, !.ino = r.inode]
         ELSE ext' = [ext EXCEPT !.ptr = @ + 1]

(* One iteration of the inner loop of find_in_dir. *)
ExtRecord ==
  /\ ext.pc = "record"
  /\ IF ext.ptr >= DirUnits THEN ext' = [ext EXCEPT !.pc = "block", !.idx = @ + 1]
     ELSE LET r == ext.vol.blocks[ext.inode.block[ext.idx + 1]][ext.ptr]
          IN  IF r.inode = 0 THEN ext' = [ext EXCEPT !.pc = "block", !.idx = @ + 1]
              ELSE IF r.name = ext.path[ext.part]
              THEN ext' = [ext EXCEPT !.pc = "part", !.part = @ + 1, !.ino = r.inode]
              ELSE ext' = [ext EXCEPT !.ptr = @ + r.rec_len]

Done(answer) == ext' = [ext EXCEPT !.pc = "done", !.data = answer]

(* read_file looks the inode up again. *)
ExtOpen ==
  LET got == GetInode(ext.vol, ext.ino)
  IN  /\ ext.pc = "open"
      /\ IF got.kind # "Ok" THEN Done(got)
         ELSE ext' = [ext EXCEPT !.pc = "data", !.inode = got.value]

(* One iteration of read_inode_data. *)
ExtData ==
  LET have == Len(ext.dest)
      real == RealBlock(ext.vol, ext.inode, have \div BlockBytes)
      take == Min({BlockBytes - (have % BlockBytes), ext.buf - have})
      From(b) == [i \in 1 .. take |-> IF b = 0 THEN "zero" ELSE ext.vol.blocks[b][(have % BlockBytes) + i]]
  IN  /\ ext.pc = "data"
      /\ IF have >= ext.buf THEN Done(Ok(ext.dest))
         ELSE IF real.kind # "Ok" THEN Done(real)
         ELSE IF real.value # 0 /\ ~Readable(ext.vol, real.value) THEN Done(Err("IoError"))
         ELSE ext' = [ext EXCEPT !.dest = @ \o From(real.value)]

ExtNext == ExtMount \/ ExtPart \/ ExtDirBlock \/ ExtRecord \/ ExtOpen \/ ExtData

ReplyOf(answer) == IF answer = Err("IoError") THEN ReadFailed ELSE answer

ExtService == INSTANCE FileService WITH
  None    <- NoReply,
  IoError <- ReadFailed,
  promise <- IF ext.pc = "idle" THEN NoExtPromise ELSE ext.promise,
  entry   <- IF ext.pc = "idle" THEN NoReply ELSE ReplyOf(ext.entry),
  data    <- IF ext.pc = "idle" \/ ext.data = NoReply THEN NoReply
             ELSE IF ext.data.kind = "Ok" THEN ext.data.value ELSE ReplyOf(ext.data)

(* On a volume within the driver's stated limits, find_file gives the      *)
(* inode the path names, or the error that fits, read_file gives the bytes *)
(* of the file, holes as zeros, through direct and indirect pointers; a    *)
(* failing device shows as IoError and never as wrong data; both return.   *)
ExtServes == ExtService!Service
=============================================================================
