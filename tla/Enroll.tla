------------------------------- MODULE Enroll -------------------------------
(***************************************************************************)
(* `zamak enroll-config`: the hash of the configuration is written into    *)
(* the slot of the EFI binary (zamak-cli/src/commands/enroll_config.rs,    *)
(* validate.rs), from which the bootloader reads it back                   *)
(* (zamak-core/src/enrolled_hash.rs, verify_config_hash of config.rs).     *)
(*                                                                         *)
(* A binary is a sequence of cells: Sig is the signature, Zero a cell of   *)
(* an empty slot; a hash takes HashLen cells.  fs::write truncates the     *)
(* file and writes its pieces, and may fail or be cut off between them.    *)
(* The command is run several times.                                       *)
(***************************************************************************)
EXTENDS Integers, Sequences, FiniteSetsExt

CONSTANTS
  CellValues,  \* the values of a cell
  Binaries,    \* the EFI binaries, sequences of cells
  Configs,     \* the contents of the configuration
  HashOf(_),   \* blake2b_256, a sequence of HashLen cells
  HashLen, Sig, Zero,
  MaxEnrolls   \* bound on the number of invocations

VARIABLE en

(* A hash of zeros alone, which the slot cannot tell from no hash, is left *)
(* out: nobody knows a configuration that has it.                          *)
ASSUME EnrollAssumption ==
  /\ HashLen \in Nat
  /\ Binaries \subseteq Seq(CellValues)
  /\ \A config \in Configs :
       /\ HashOf(config) \in Seq(CellValues) /\ Len(HashOf(config)) = HashLen
       /\ \E i \in 1 .. HashLen : HashOf(config)[i] # Zero

(* find_hash_slot: the first signature. *)
FindHashSlot(bin) == Min({i \in DOMAIN bin : bin[i] = Sig} \cup {Len(bin) + 1})
HasSlot(bin) == FindHashSlot(bin) <= Len(bin)

(* MUTANT of SlotCells: the slot starts at the signature. *)
SlotCellsAtSig(bin) == FindHashSlot(bin) .. FindHashSlot(bin) + HashLen - 1

SlotCells(bin) == FindHashSlot(bin) + 1 .. FindHashSlot(bin) + HashLen

PatchHash(bin, hash) ==
  LET slot == SlotCells(bin)
  IN  [i \in DOMAIN bin |-> IF i \in slot THEN hash[i - Min(slot) + 1] ELSE bin[i]]

(* read_hash_at and EnrolledHashSlot::read: nothing for an empty slot. *)
ReadHash(bin) ==
  LET o == FindHashSlot(bin)
      h == SubSeq(bin, o + 1, o + HashLen)
  IN  IF o + HashLen > Len(bin) \/ \A i \in DOMAIN h : h[i] = Zero THEN <<>> ELSE h

(* verify_config_hash, with the hash the bootloader finds in itself. *)
VerifyConfigHash(bin, config) == ReadHash(bin) = <<>> \/ ReadHash(bin) = HashOf(config)

EnrollIdle == en = [pc |-> "idle"]

EnrollInit ==
  \E bin \in Binaries :
    en = [pc |-> "shell", bin |-> bin, before |-> bin, data |-> <<>>, hash |-> <<>>, config |-> <<>>,
          flags |-> [dry |-> FALSE, yes |-> FALSE, tty |-> FALSE], result |-> "none", runs |-> 0]

Finish(e, result) == [e EXCEPT !.pc = "shell", !.result = result]

(* The options, and the two files read. *)
EnrollStart ==
  /\ en.pc = "shell" /\ en.runs < MaxEnrolls
  /\ \E config \in Configs, flags \in [dry : BOOLEAN, yes : BOOLEAN, tty : BOOLEAN] :
       LET e == [en EXCEPT !.before = en.bin, !.flags = flags, !.config = config,
                           !.hash = HashOf(config), !.data = en.bin, !.runs = @ + 1]
       IN  \/ en' = Finish(e, "usage")        \* an option missing, unknown or with control characters
           \/ en' = Finish(e, "io")           \* a file that cannot be read
           \/ en' = [e EXCEPT !.pc = "slot"]

(* The slot found and compared, up to the question. *)
EnrollSlot ==
  /\ en.pc = "slot"
  /\ LET o == FindHashSlot(en.data)
         already == SubSeq(en.data, o + 1, o + HashLen) = en.hash
     IN  en' = CASE ~HasSlot(en.data) -> Finish(en, "not_found")
                 [] HasSlot(en.data) /\ o + HashLen > Len(en.data) -> Finish(en, "panic")
                 [] OTHER -> IF en.flags.dry THEN Finish(en, "dry_run")
                             ELSE IF already THEN Finish(en, "no_op")
                             ELSE [en EXCEPT !.pc = "confirm"]

(* confirm_destructive: without a terminal it refuses, with one it asks. *)
ConfirmDestructive ==
  /\ en.pc = "confirm" /\ (en.flags.yes \/ en.flags.tty)
  /\ en' = [en EXCEPT !.pc = "write", !.data = PatchHash(@, en.hash), !.bin = <<>>]

Declined ==
  /\ en.pc = "confirm" /\ ~en.flags.yes  \* no terminal, or another answer than yes
  /\ en' = Finish(en, "usage")

(* fs::write after its truncation: one piece, an error, or a crash. *)
WritePiece ==
  /\ en.pc = "write"
  /\ \/ /\ Len(en.bin) < Len(en.data)
        /\ en' = [en EXCEPT !.bin = SubSeq(en.data, 1, Len(@) + 1)]
     \/ Len(en.bin) = Len(en.data) /\ en' = Finish(en, "patched")
     \/ en' = Finish(en, "io_write")
     \/ en' = Finish(en, "crash")

EnrollNext == EnrollStart \/ EnrollSlot \/ ConfirmDestructive \/ Declined \/ WritePiece

(* A run that reports success leaves a binary that differs from the one it *)
(* found in the hash alone and accepts exactly the configurations with     *)
(* that hash; a run that refuses, only looks or finds the hash in place    *)
(* leaves the file as it was; and only a write that fails or is cut off    *)
(* leaves anything else, a prefix of the patched binary.                   *)
EnrollPatches ==
  en.pc = "shell" /\ en.runs > 0 =>
    CASE en.result = "patched" ->
           /\ Len(en.bin) = Len(en.before)
           /\ \E o \in DOMAIN en.before :
                /\ en.before[o] = Sig /\ \A i \in 1 .. o - 1 : en.before[i] # Sig
                /\ \A i \in DOMAIN en.bin :
                     en.bin[i] = IF i \in o + 1 .. o + HashLen THEN en.hash[i - o] ELSE en.before[i]
           /\ en.bin # en.before /\ ~en.flags.dry
           /\ \A c \in Configs : VerifyConfigHash(en.bin, c) <=> HashOf(c) = HashOf(en.config)
      [] en.result \in {"io_write", "crash"} ->
           \E n \in 0 .. Len(en.before) : en.bin = SubSeq(PatchHash(en.before, en.hash), 1, n)
      [] en.result = "no_op" -> en.bin = en.before /\ VerifyConfigHash(en.bin, en.config)
      [] OTHER -> en.bin = en.before
=============================================================================
