------------------------------ MODULE Multiboot ------------------------------
(***************************************************************************)
(* The Multiboot 1 and Multiboot 2 protocols (multiboot.rs,               *)
(* multiboot2.rs): finding the header of a kernel image, reading what it   *)
(* asks for, and building the information handed to the kernel.            *)
(*                                                                         *)
(* An image is the sequence of its 32-bit words, of which the last `cut`   *)
(* bytes are missing; offsets and sizes are in bytes, as in the code.  A   *)
(* word holds a number below WordLimit (2^32).  Where the code reads a     *)
(* 16-bit tag type and 16-bit flags it never looks at, the word holds the  *)
(* type.  A buffer under construction is a sequence of bytes.              *)
(***************************************************************************)
EXTENDS Integers, Sequences

CONSTANTS
  Kernels,      \* the images offered: [proto, before, arch, tags, cut]
  WordLimit,    \* 2^32
  Magic,        \* Magic[p]: the header magic of Multiboot p
  SearchLimit,  \* SearchLimit[p]: how far into the image a header is sought
  BootInfos,    \* what Multiboot 1 may be given to pass on
  InfoTags,     \* the add_* calls a loader may make: [type, payload]
  MaxInfoTags   \* bound: how many of them it makes

VARIABLE mb

(***************************************************************************)
(* The types of the header tags and of the information tags the code       *)
(* tells apart.                                                            *)
(***************************************************************************)
TagEnd == 0
TagRequest == 1
TagEntry == 3
TagFramebuffer == 5
TagModuleAlign == 6
TagEfiBs == 7
TagEntryEfi64 == 9
InfoFramebuffer == 8

(***************************************************************************)
(* How a kernel lays its header out in its image: the words before it, the *)
(* fixed words with the checksum that makes them add up to zero, and for   *)
(* Multiboot 2 its tags, each padded to 8 bytes, and the end tag.          *)
(***************************************************************************)
Checksum(words) ==
  LET RECURSIVE Total(_)
      Total(s) == IF s = <<>> THEN 0 ELSE Head(s) + Total(Tail(s))
  IN (WordLimit - (Total(words) % WordLimit)) % WordLimit

TagWords(tag) ==
  <<tag.type, tag.size>> \o tag.args
    \o (IF Len(tag.args) % 2 = 1 THEN <<0>> ELSE <<>>)

RECURSIVE TagsWords(_)
TagsWords(tags) ==
  IF tags = <<>> THEN <<TagEnd, 8>> ELSE TagWords(Head(tags)) \o TagsWords(Tail(tags))

HeaderWords(k) ==
  IF k.proto = 1
  THEN LET fixed == <<Magic[1], k.arch>>
       IN fixed \o <<Checksum(fixed)>> \o k.tags
  ELSE LET body == TagsWords(k.tags)
           fixed == <<Magic[2], k.arch, 16 + 4 * Len(body)>>
       IN fixed \o <<Checksum(fixed)>> \o body

Image(k) == [proto |-> k.proto, words |-> k.before \o HeaderWords(k), cut |-> k.cut]

Bytes(image) == 4 * Len(image.words) - image.cut

Word(image, at) == image.words[(at \div 4) + 1]

(***************************************************************************)
(* find_header of both protocols: the first aligned offset inside the      *)
(* searched part where the magic stands and the fixed words add up to 0.   *)
(***************************************************************************)
FixedBytes(proto) == IF proto = 1 THEN 12 ELSE 16

Step(proto) == IF proto = 1 THEN 4 ELSE 8

HeaderAt(image, at) ==
  /\ Word(image, at) = Magic[image.proto]
  /\ Checksum(SubSeq(image.words, (at \div 4) + 1,
                     (at \div 4) + (FixedBytes(image.proto) \div 4))) = 0

SearchEnd(image) ==
  IF Bytes(image) < SearchLimit[image.proto] THEN Bytes(image) ELSE SearchLimit[image.proto]

FindHeader(image) ==
  {at \in 0..SearchEnd(image) :
     /\ at % Step(image.proto) = 0
     /\ at + FixedBytes(image.proto) <= SearchEnd(image)
     /\ HeaderAt(image, at)
     /\ \A early \in 0..(at - 1) :
          early % Step(image.proto) = 0 => ~HeaderAt(image, early)}

(***************************************************************************)
(* parse_header of Multiboot 1: the 48 bytes of the header, those past the *)
(* end of the image read as zero; a word the end cuts keeps the bytes that *)
(* are there, which the words modelled (below 256) show as the word itself.*)
(***************************************************************************)
ParseHeader1(image, at) ==
  [i \in 1..12 |-> IF at + 4 * (i - 1) < Bytes(image) THEN Word(image, at + 4 * (i - 1)) ELSE 0]

(***************************************************************************)
(* build_info: which parts of the Multiboot 1 information are marked valid *)
(* and what is filled in; the addresses are left for the caller.           *)
(***************************************************************************)
BuildInfo(boot) ==
  [valid |-> {"memory", "loader_name"}
               \cup (IF boot.modules # <<>> THEN {"mods"} ELSE {})
               \cup (IF boot.mmap # <<>> THEN {"mmap"} ELSE {})
               \cup (IF boot.cmdline # <<>> THEN {"cmdline"} ELSE {})
               \cup (IF boot.framebuffer # <<>> THEN {"framebuffer"} ELSE {}),
   mem |-> boot.mem,
   mods_count |-> Len(boot.modules),
   framebuffer |-> boot.framebuffer]

(***************************************************************************)
(* One tag of a Multiboot 2 header, read at `at` with its type and size.   *)
(***************************************************************************)
NothingParsed ==
  [requested |-> <<>>, framebuffer |-> FALSE, mode |-> <<0, 0, 0>>, module_align |-> FALSE,
   efi_bs |-> FALSE, entry |-> <<>>, entry_efi64 |-> <<>>]

Requested(image, at, size) ==
  LET asked == (size - 8) \div 4
      held == (Bytes(image) - (at + 8)) \div 4
  IN [i \in 1..(IF asked < held THEN asked ELSE held) |-> Word(image, at + 8 + 4 * (i - 1))]

Holds(image, end) == end <= Bytes(image)

ReadTag(image, p, at, type, size) ==
  CASE type = TagRequest -> [p EXCEPT !.requested = @ \o Requested(image, at, size)]
    [] type = TagFramebuffer ->
         [p EXCEPT !.framebuffer = TRUE,
                   !.mode = IF Holds(image, at + 20)
                            THEN [i \in 1..3 |-> Word(image, at + 4 + 4 * i)] ELSE @]
    [] type = TagModuleAlign -> [p EXCEPT !.module_align = TRUE]
    [] type = TagEfiBs -> [p EXCEPT !.efi_bs = TRUE]
    [] type = TagEntry /\ Holds(image, at + 12) -> [p EXCEPT !.entry = <<Word(image, at + 8)>>]
    [] type = TagEntryEfi64 /\ Holds(image, at + 12) ->
         [p EXCEPT !.entry_efi64 = <<Word(image, at + 8)>>]
    [] OTHER -> p

Advance(size) == ((size + 7) \div 8) * 8

----------------------------------------------------------------------------
(***************************************************************************)
(* BootInfoBuilder: every add_* call aligns the buffer and appends a tag   *)
(* whose size field counts its own 8 bytes and the payload.  The           *)
(* framebuffer tag is the exception: its size field says 32, and the 8     *)
(* bytes of colour information appended after them are not counted.        *)
(***************************************************************************)
U32(n) == <<n, 0, 0, 0>>

Padding(n) == [i \in 1..((8 - (n % 8)) % 8) |-> 0]

Align8None(buf) == buf

Align8(buf) == buf \o Padding(Len(buf))

ColorInfo == 8

SizeField(tag) ==
  8 + Len(tag.payload) - (IF tag.type = InfoFramebuffer THEN ColorInfo ELSE 0)

AddTag(buf, tag) == Align8(buf) \o U32(tag.type) \o U32(SizeField(tag)) \o tag.payload

NewInfo == U32(0) \o U32(0)

Finish(buf) ==
  LET ended == AddTag(buf, [type |-> TagEnd, payload |-> <<>>])
  IN [ended EXCEPT ![1] = Len(ended)]

----------------------------------------------------------------------------
MbIdle == mb = [pc |-> "idle"]

MbInit ==
  \E k \in Kernels :
    mb = [pc |-> "find", kernel |-> k, image |-> Image(k), at |-> 0, pos |-> 0,
          parsed |-> NothingParsed, info |-> <<>>, added |-> <<>>, buf |-> <<>>]

Find ==
  /\ mb.pc = "find"
  /\ IF FindHeader(mb.image) = {}
     THEN mb' = [mb EXCEPT !.pc = "none"]
     ELSE \E at \in FindHeader(mb.image) :
            mb' = [mb EXCEPT !.pc = IF mb.image.proto = 1 THEN "multiboot1" ELSE "tags",
                             !.at = at, !.pos = at + 16]

Parse1 ==
  /\ mb.pc = "multiboot1"
  /\ \E boot \in BootInfos :
       mb' = [mb EXCEPT !.pc = "started", !.parsed = ParseHeader1(mb.image, mb.at),
                        !.info = <<boot, BuildInfo(boot)>>]

HeaderLength == Word(mb.image, mb.at + 8)

MoreTags ==
  /\ mb.pos + 8 <= mb.at + HeaderLength
  /\ mb.pos + 8 <= Bytes(mb.image)
  /\ Word(mb.image, mb.pos) # TagEnd

(* tag_size - 8 underflows for a request tag smaller than its own header: *)
(* a panic where overflow is checked.                                     *)
ParseTag ==
  /\ mb.pc = "tags"
  /\ MoreTags
  /\ LET type == Word(mb.image, mb.pos)
         size == Word(mb.image, mb.pos + 4)
     IN mb' = IF type = TagRequest /\ size < 8
              THEN [mb EXCEPT !.pc = "panic"]
              ELSE [mb EXCEPT !.parsed = ReadTag(mb.image, @, mb.pos, type, size),
                              !.pos = @ + Advance(size)]

TagsDone ==
  /\ mb.pc = "tags"
  /\ ~MoreTags
  /\ mb' = [mb EXCEPT !.pc = "build", !.buf = NewInfo]

AddInfo ==
  /\ mb.pc = "build"
  /\ Len(mb.added) < MaxInfoTags
  /\ \E tag \in InfoTags :
       mb' = [mb EXCEPT !.added = Append(@, tag), !.buf = AddTag(@, tag)]

FinishInfo ==
  /\ mb.pc = "build"
  /\ mb' = [mb EXCEPT !.pc = "started", !.buf = Finish(@)]

MbNext == Find \/ Parse1 \/ ParseTag \/ TagsDone \/ AddInfo \/ FinishInfo

----------------------------------------------------------------------------
(***************************************************************************)
(* What the kernel meant: a request for every type its request tags name,  *)
(* the mode of its last framebuffer tag, and so on; tags after an end tag  *)
(* do not count.                                                           *)
(***************************************************************************)
RECURSIVE Meant(_, _)
Meant(tags, p) ==
  IF tags = <<>> \/ Head(tags).type = TagEnd THEN p
  ELSE LET t == Head(tags) IN
    Meant(Tail(tags),
      [requested |-> IF t.type = TagRequest THEN p.requested \o t.args ELSE p.requested,
       framebuffer |-> p.framebuffer \/ t.type = TagFramebuffer,
       mode |-> IF t.type = TagFramebuffer THEN t.args ELSE p.mode,
       module_align |-> p.module_align \/ t.type = TagModuleAlign,
       efi_bs |-> p.efi_bs \/ t.type = TagEfiBs,
       entry |-> IF t.type = TagEntry THEN t.args ELSE p.entry,
       entry_efi64 |-> IF t.type = TagEntryEfi64 THEN t.args ELSE p.entry_efi64])

(* A kernel whose image is whole, whose tags say their size and whose      *)
(* header lies, aligned, where the protocol wants it.                      *)
SoundKernel(k) ==
  /\ k.cut = 0
  /\ k.proto = 2 => \A i \in DOMAIN k.tags : k.tags[i].size = 8 + 4 * Len(k.tags[i].args)
  /\ (4 * Len(k.before)) % Step(k.proto) = 0
  /\ 4 * Len(k.before) + FixedBytes(k.proto) <= SearchLimit[k.proto]

(***************************************************************************)
(* The kernel's walk of the Multiboot 2 information (external): from tag   *)
(* to tag by the size fields, up to the end tag.  It stops at a            *)
(* framebuffer tag, whose size field leaves the walk inside the tag, and   *)
(* is lost where no tag can be.                                            *)
(***************************************************************************)
RECURSIVE Walk(_, _)
Walk(buf, at) ==
  IF at + 8 > Len(buf) \/ buf[at + 5] < 8 \/ at + buf[at + 5] > Len(buf)
  THEN <<[type |-> -1, payload |-> <<>>]>>
  ELSE LET tag == [type |-> buf[at + 1], payload |-> SubSeq(buf, at + 9, at + buf[at + 5])]
       IN <<tag>> \o (IF tag.type \in {TagEnd, InfoFramebuffer} THEN <<>>
                      ELSE Walk(buf, at + Advance(buf[at + 5])))

RECURSIVE Told(_)
Told(added) ==
  IF added = <<>> THEN <<[type |-> TagEnd, payload |-> <<>>]>>
  ELSE IF Head(added).type = InfoFramebuffer
       THEN <<[type |-> InfoFramebuffer,
               payload |-> SubSeq(Head(added).payload, 1, Len(Head(added).payload) - ColorInfo)]>>
       ELSE <<Head(added)>> \o Told(Tail(added))

(***************************************************************************)
(* Loader and kernel understand each other.  For a whole image the header  *)
(* is found where the kernel put it (not at words before it that look like *)
(* one) and what is parsed is what its tags mean; a Multiboot 1 kernel is  *)
(* told of modules exactly when it is given some; and a Multiboot 2 kernel *)
(* that walks the finished information by its size fields reads exactly    *)
(* the tags added, in order and unaltered, up to the first framebuffer     *)
(* tag, and with none reaches the end tag at the very end of the total     *)
(* size (find_header, parse_header, build_info, BootInfoBuilder).          *)
(***************************************************************************)
MultibootAgrees ==
  /\ mb.pc \notin {"idle", "find"} /\ SoundKernel(mb.kernel) =>
       mb.pc # "none" /\ mb.at = 4 * Len(mb.kernel.before)
  /\ mb.pc \in {"build", "started"} /\ SoundKernel(mb.kernel) =>
       mb.parsed = IF mb.kernel.proto = 1
                   THEN SubSeq(mb.image.words \o [i \in 1..12 |-> 0],
                               Len(mb.kernel.before) + 1, Len(mb.kernel.before) + 12)
                   ELSE Meant(mb.kernel.tags, NothingParsed)
  /\ mb.pc = "started" =>
       IF mb.image.proto = 1
       THEN ("mods" \in mb.info[2].valid) <=> (mb.info[2].mods_count > 0)
       ELSE /\ Walk(mb.buf, 8) = Told(mb.added)
            /\ mb.buf[1] = Len(mb.buf)
=============================================================================
