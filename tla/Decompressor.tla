----------------------------- MODULE Decompressor -----------------------------
(***************************************************************************)
(* The BIOS stage-2 decompressor (zamak-decompressor): the entry code, the *)
(* gzip header, inflating into a buffer from the bump allocator, the copy  *)
(* to stage 3's address and the jump.                                      *)
(*                                                                         *)
(* A blob is [head, body, place]: its header bytes, then a body of         *)
(* body.len bytes, a "zlib" stream, a raw "deflate" stream or "broken",    *)
(* inflating to body.out bytes.  It lies "after" the decompressor's own    *)
(* image, where its BSS is, or "elsewhere".                                *)
(***************************************************************************)
EXTENDS Integers, Sequences

CONSTANTS
  Blobs,          \* the compressed images tried
  DecoderBytes,   \* the size of the inflater's boxed state
  LoadedAt        \* where stage 1 puts the decompressor

VARIABLE dec

STAGE3_LOAD_ADDR == 61440

HEAP_SIZE == 262144

MAX_ALIGN == 16

(* Stage 1 leaves room for all that the heap can hold below itself, and a  *)
(* zlib stream has at least its header.                                    *)
ASSUME DecompressorAssumption ==
  /\ DecoderBytes \in Nat
  /\ LoadedAt \in Nat /\ STAGE3_LOAD_ADDR + HEAP_SIZE <= LoadedAt
  /\ Blobs \subseteq [head : Seq(0..255), body : [kind : {"zlib", "deflate", "broken"}, len : Nat, out : Nat],
                      place : {"after", "elsewhere"}]
  /\ \A b \in Blobs : b.body.kind = "zlib" => b.body.len > 0

----------------------------------------------------------------------------
(* Bytes of the blob, counted from 0; no byte of a body is the end of a    *)
(* header field.                                                           *)
Length(b) == Len(b.head) + b.body.len

ByteAt(b, i) == IF i < Len(b.head) THEN b.head[i + 1] ELSE 255

Bit(flags, n) == (flags \div 2 ^ n) % 2 = 1

(* After the NUL at or after an offset, or one past the end.               *)
AfterNul(b, offset) ==
  LET nuls == {i \in offset..(Len(b.head) - 1) : ByteAt(b, i) = 0}
      past == IF offset < Length(b) THEN Length(b) ELSE offset
  IN 1 + IF nuls = {} THEN past ELSE CHOOSE i \in nuls : \A j \in nuls : i <= j

ExtraBytes(b) == ByteAt(b, 10) + 256 * ByteAt(b, 11)

(* The offset of the stream for each of the flags set.                     *)
HeaderEndNoCrc(b) ==
  LET flags == ByteAt(b, 3)
      extra == IF Bit(flags, 2) THEN 12 + ExtraBytes(b) ELSE 10
      name == IF Bit(flags, 3) THEN AfterNul(b, extra) ELSE extra
  IN IF Bit(flags, 4) THEN AfterNul(b, name) ELSE name

HeaderEnd(b) ==
  LET flags == ByteAt(b, 3)
      extra == IF Bit(flags, 2) THEN 12 + ExtraBytes(b) ELSE 10
      name == IF Bit(flags, 3) THEN AfterNul(b, extra) ELSE extra
      comment == IF Bit(flags, 4) THEN AfterNul(b, name) ELSE name
  IN IF Bit(flags, 1) THEN comment + 2 ELSE comment

(* skip_gzip_header: how many bytes are skipped, none for anything that is *)
(* not a whole gzip header.                                                *)
SkipGzipHeader(b) ==
  CASE Length(b) < 10 -> 0
    [] Length(b) >= 10 /\ (ByteAt(b, 0) # 31 \/ ByteAt(b, 1) # 139) -> 0
    [] OTHER -> IF (Bit(ByteAt(b, 3), 2) /\ Length(b) < 12) \/ HeaderEnd(b) >= Length(b)
                THEN 0 ELSE HeaderEnd(b)

----------------------------------------------------------------------------
AlignedUp(n, align) == ((n + align - 1) \div align) * align

(* The bump allocator: [ok, at, offset].                                   *)
Alloc(offset, size, align) ==
  LET aligned == AlignedUp(offset, IF align > MAX_ALIGN THEN align ELSE MAX_ALIGN)
  IN [ok |-> aligned + size <= HEAP_SIZE, at |-> aligned, offset |-> aligned + size]

DecIdle == dec = [pc |-> "idle"]

DecInit ==
  \E b \in Blobs :
    dec = [pc |-> "entry", blob |-> b, zeroed |-> FALSE, skip |-> 0, offset |-> 0,
           blocks |-> <<>>, buffer |-> 0, stage3 |-> 0]

(* The entry code zeroes the BSS, and with it a blob that lies there; then *)
(* bump::init.                                                             *)
EnterStage2 ==
  /\ dec.pc = "entry"
  /\ dec' = [dec EXCEPT !.pc = "skip", !.zeroed = dec.blob.place = "after", !.offset = 0]

Skip ==
  /\ dec.pc = "skip"
  /\ dec' = [dec EXCEPT !.pc = "buffer",
                        !.skip = IF dec.zeroed THEN 0 ELSE SkipGzipHeader(dec.blob)]

HaltWithError == [dec EXCEPT !.pc = "halted"]

(* An allocation that fails panics, and the panic handler halts.           *)
Allocating(size, then) ==
  LET block == Alloc(dec.offset, size, 1)
  IN dec' = IF block.ok
            THEN [then EXCEPT !.offset = block.offset,
                              !.blocks = Append(@, [at |-> block.at, size |-> size])]
            ELSE HaltWithError

(* decompress_to_vec_zlib: an output buffer of twice the input, the        *)
(* decoder's state, then doubling the buffer, in a new block each time,    *)
(* until the output fits.                                                  *)
FirstBuffer ==
  /\ dec.pc = "buffer"
  /\ LET size == 2 * (Length(dec.blob) - dec.skip)
     IN Allocating(size, [dec EXCEPT !.pc = "decoder", !.buffer = size])

Decoder ==
  /\ dec.pc = "decoder"
  /\ Allocating(DecoderBytes, [dec EXCEPT !.pc = "inflate"])

(* What follows the skipped bytes is a zlib stream.                        *)
ZlibAtSkip ==
  ~dec.zeroed /\ dec.blob.body.kind = "zlib" /\ dec.skip = Len(dec.blob.head)

Inflate ==
  /\ dec.pc = "inflate"
  /\ IF ~ZlibAtSkip THEN dec' = HaltWithError
     ELSE IF dec.blob.body.out <= dec.buffer THEN dec' = [dec EXCEPT !.pc = "copy"]
     ELSE Allocating(2 * dec.buffer, [dec EXCEPT !.buffer = 2 * @])

(* The copy to STAGE3_LOAD_ADDR and the jump.                              *)
CopyAndJump ==
  /\ dec.pc = "copy"
  /\ dec' = [dec EXCEPT !.pc = "jumped", !.stage3 = dec.blob.body.out]

DecNext == EnterStage2 \/ Skip \/ FirstBuffer \/ Decoder \/ Inflate \/ CopyAndJump

----------------------------------------------------------------------------
(* A gzip header by its fields (RFC 1952): fixed bytes, extra field, name, *)
(* comment and CRC, ending after x, n, c and all bytes.                    *)
GzipHeader(h) ==
  LET Has(bit) == Bit(h[4], bit)
      Text(from, to) == to > from /\ h[to] = 0 /\ \A i \in (from + 1)..(to - 1) : h[i] # 0
  IN /\ Len(h) >= 10 /\ h[1] = 31 /\ h[2] = 139
     /\ Has(2) => Len(h) >= 12
     /\ \E x, n, c \in 10..Len(h) :
          /\ x = IF Has(2) THEN 12 + h[11] + 256 * h[12] ELSE 10
          /\ IF Has(3) THEN Text(x, n) ELSE n = x
          /\ IF Has(4) THEN Text(n, c) ELSE c = n
          /\ Len(h) = IF Has(1) THEN c + 2 ELSE c

(* 2^0 and on, as far as a buffer can be doubled in the heap.              *)
Doubled ==
  <<1, 2, 4, 8, 16, 32, 64, 128, 256, 512, 1024, 2048, 4096, 8192, 16384, 32768, 65536, 131072, 262144>>

(* Buffers of twice the stream, doubled k - 1 times, hold the output; all  *)
(* of them and the decoder fit the heap, with room to align each.          *)
Loadable(b) ==
  /\ b.place = "elsewhere"
  /\ b.body.kind = "zlib"
  /\ b.head = <<>> \/ GzipHeader(b.head)
  /\ \E k \in DOMAIN Doubled :
       LET first == 2 * b.body.len
           last == first * Doubled[k]
       IN /\ Doubled[k] <= HEAP_SIZE \div first
          /\ b.body.out <= last
          /\ (2 * last - first) + k * MAX_ALIGN + DecoderBytes + MAX_ALIGN <= HEAP_SIZE

(***************************************************************************)
(* Whatever optional fields the gzip header has: a zlib stream that lies   *)
(* outside the decompressor's BSS and whose buffers fit the heap is        *)
(* inflated and jumped to, and anything else halts with an error rather    *)
(* than jump into part of an image.  The blocks of the allocator are       *)
(* aligned, disjoint and inside the heap, and the copy to stage 3's        *)
(* address never reaches the running decompressor (skip_gzip_header,       *)
(* BumpAllocator::alloc, decompress_and_jump).                             *)
(***************************************************************************)
StageLoads ==
  dec.pc # "idle" =>
    /\ dec.pc = "jumped" =>
         /\ dec.blob.body.kind = "zlib" /\ dec.blob.place = "elsewhere"
         /\ dec.stage3 = dec.blob.body.out
         /\ STAGE3_LOAD_ADDR + dec.stage3 <= LoadedAt
    /\ dec.pc = "halted" => ~Loadable(dec.blob)
    /\ \A i \in DOMAIN dec.blocks :
         LET x == dec.blocks[i]
         IN /\ x.at % MAX_ALIGN = 0
            /\ x.at + x.size <= HEAP_SIZE
            /\ \A j \in 1..(i - 1) : dec.blocks[j].at + dec.blocks[j].size <= x.at
=============================================================================
