------------------------------ MODULE FatVolume ------------------------------
(***************************************************************************)
(* A FAT32 volume as data: the chains of its FAT and what its clusters     *)
(* hold, PerCluster directory entries or bytes each.  Both FAT readers,    *)
(* zamak-core/src/ram_fat32.rs and zamak-bios/src/fat32.rs, are run on it  *)
(* and compared with what is read here from the structure as a whole.      *)
(***************************************************************************)
EXTENDS Integers, Sequences, SequencesExt, FiniteSetsExt

CONSTANTS
  FatVolumes,   \* [ok, root, fat, data]
  FatPaths,     \* the paths looked up: sequences of parts, a part of characters
  FatBuffers,   \* lengths of the destination buffers
  PerCluster,
  EndOfChain,   \* FAT32_END_OF_CHAIN
  SegLen,       \* 13: characters in an entry of a long name
  MaxSegments,  \* MAX_LFN_SEGMENTS
  BaseLen, ExtLen,  \* 8 and 3
  NoAnswer, IoFailed  \* no answer yet, and the answer Error::IoError

NoFacts == [found |-> FALSE, cluster |-> 0, len |-> 0, dir |-> FALSE]

Capital == [a |-> "A", b |-> "B", c |-> "C"]
ToUpper(ch) == IF ch \in DOMAIN Capital THEN Capital[ch] ELSE ch

EqIgnoreCase(s, t) ==
  Len(s) = Len(t) /\ \A i \in 1 .. Len(s) : ToUpper(s[i]) = ToUpper(t[i])

(* A '.' jumps to the extension; what does not fit is cut off. *)
RECURSIVE PutChar(_, _, _)
PutChar(out, idx, rest) ==
  IF rest = <<>> THEN out
  ELSE IF Head(rest) = "." THEN PutChar(out, BaseLen, Tail(rest))
  ELSE IF idx >= BaseLen + ExtLen THEN out
  ELSE PutChar([out EXCEPT ![idx + 1] = ToUpper(Head(rest))], idx + 1, Tail(rest))

NameTo83(part) == PutChar([i \in 1 .. BaseLen + ExtLen |-> " "], 0, part)

Terminator == {"nul", "pad"}

(* What the volume holds, read from its structure and not entry by entry. *)
RECURSIVE ChainFrom(_, _, _)
ChainFrom(v, c, fuel) ==
  <<c>> \o IF fuel > 0 /\ c \in DOMAIN v.fat /\ v.fat[c] \in DOMAIN v.data
           THEN ChainFrom(v, v.fat[c], fuel - 1) ELSE <<>>

Chain(v, first) == ChainFrom(v, first, Cardinality(DOMAIN v.fat))

Contents(v, first) ==
  LET chain == Chain(v, first)
  IN  [i \in 1 .. PerCluster * Len(chain) |->
         v.data[chain[((i - 1) \div PerCluster) + 1]][((i - 1) % PerCluster) + 1]]

(* The entries of a directory, up to the mark of its end. *)
Listing(v, dir) ==
  LET all == Contents(v, dir)
  IN  SubSeq(all, 1, Min({i \in DOMAIN all : all[i].kind = "end"} \cup {Len(all) + 1}) - 1)

(* The entry at i has the long name that the k entries before it spell. *)
Spelled(list, i, k) ==
  /\ k < i
  /\ \A j \in 1 .. k : /\ list[i - j].kind = "lfn"
                       /\ list[i - j].seq = j
                       /\ list[i - j].last = (j = k)

LongName(list, i, k) ==
  LET text == [n \in 1 .. k * SegLen |-> list[i - ((n - 1) \div SegLen) - 1].text[((n - 1) % SegLen) + 1]]
  IN  SubSeq(text, 1, Min({n \in DOMAIN text : text[n] \in Terminator} \cup {Len(text) + 1}) - 1)

Names(list, i, part) ==
  /\ list[i].kind = "short" /\ ~list[i].label
  /\ \/ list[i].name = NameTo83(part)
     \/ \E k \in 1 .. MaxSegments : Spelled(list, i, k) /\ EqIgnoreCase(LongName(list, i, k), part)

LookUp(v, dir, part) ==
  LET list == Listing(v, dir)
      hits == {i \in DOMAIN list : Names(list, i, part)}
  IN  IF hits = {} THEN NoFacts
      ELSE [found |-> TRUE, cluster |-> list[Min(hits)].cluster, len |-> list[Min(hits)].len,
            dir |-> list[Min(hits)].dir]

(* The entry the first n parts of the path lead to; the root for n = 0. *)
RECURSIVE Resolve(_, _, _)
Resolve(v, path, n) ==
  IF n = 0 THEN [found |-> TRUE, cluster |-> v.root, len |-> 0, dir |-> TRUE]
  ELSE LET up == Resolve(v, path, n - 1)
       IN  IF up.found /\ up.dir THEN LookUp(v, up.cluster, path[n]) ELSE NoFacts

(* A directory as an operating system keeps it: it lies on the volume, its *)
(* chain ends, a long name is whole and stands before its short entry, and *)
(* the volume label is not what is looked for.                             *)
SoundDir(v, dir, part) ==
  LET list == Listing(v, dir)
  IN  /\ dir \in DOMAIN v.data
      /\ IsInjective(Chain(v, dir))
      /\ \A i \in DOMAIN list :
           /\ list[i].kind = "lfn" =>
                /\ i < Len(list)
                /\ IF list[i].seq = 1 THEN list[i + 1].kind = "short"
                   ELSE list[i + 1].kind = "lfn" /\ ~list[i + 1].last
                        /\ list[i + 1].seq = list[i].seq - 1
           /\ list[i].kind = "short" /\ list[i].label => list[i].name # NameTo83(part)

FatBinding(v, path) ==
  v.ok => \A n \in DOMAIN path :
            LET up == Resolve(v, path, n - 1)
                to == Resolve(v, path, n)
            IN  /\ up.found => up.dir /\ SoundDir(v, up.cluster, path[n])
                /\ to.found => to.cluster \in DOMAIN v.data
                /\ to.found /\ ~to.dir => Len(Contents(v, to.cluster)) >= to.len

(* What FileService promises of this call. *)
FatPromise(v, path, buf) ==
  LET binding == FatBinding(v, path)
      to == IF binding /\ v.ok /\ path # <<>> THEN Resolve(v, path, Len(path)) ELSE NoFacts
  IN  [binding |-> binding, faulty |-> FALSE, found |-> to.found, entry |-> to,
       data |-> IF to.found THEN SubSeq(Contents(v, to.cluster), 1, Min({to.len, buf})) ELSE <<>>]

NoPromise == [binding |-> FALSE, faulty |-> FALSE, found |-> FALSE, entry |-> NoFacts, data |-> <<>>]
=============================================================================
