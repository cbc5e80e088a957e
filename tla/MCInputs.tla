------------------------------ MODULE MCInputs ------------------------------
(***************************************************************************)
(* What a boot takes in, each part on small instances of its own: the file *)
(* systems, the configuration, the menu's editor, the enrolled hash, and   *)
(* kernels and EFI images.                                                 *)
(***************************************************************************)
EXTENDS MCFiles, Config, MenuEditor, Enroll, KernelImage, PeImage

inputVars == <<filesVars, cfg, ed, en, ki, pe>>

Lit(t) == <<"lit", t>>
Ref(n) == <<"ref", n>>
Hd(depth, plus, text) == [kind |-> "head", depth |-> depth, plus |-> plus, value |-> text]
Opt(key, text) == [kind |-> "option", key |-> key, value |-> text]
Mac(name, text) == [kind |-> "macro", name |-> name, value |-> text]
UpTo(n, S) == UNION {[1 .. m -> S] : m \in 0 .. n}

(* Trees of every shape up to four entries; macros defined before, after   *)
(* and again around their uses; and the keys of entries and modules.       *)
MCConfigFiles ==
  UpTo(4, {Hd(1, TRUE, <<Lit("t")>>), Hd(2, TRUE, <<Ref("A")>>), Hd(2, FALSE, <<Lit("t")>>),
           Hd(3, FALSE, <<Lit("t")>>)})
  \cup UpTo(3, {Hd(1, FALSE, <<Lit("t")>>), Opt("PATH", <<Ref("A"), Lit("p")>>),
                Opt("CMDLINE", <<Ref("B")>>), Mac("A", <<Lit("x")>>), Mac("B", <<Ref("A"), Lit("y")>>),
                Mac("A", <<Lit("3")>>), Opt("TIMEOUT", <<Ref("A")>>), Opt("THEME", <<Ref("ARCH")>>)})
  \cup UpTo(4, {Hd(1, FALSE, <<Lit("t")>>), Opt("MODULE_PATH", <<Lit("m")>>),
                Opt("MODULE_STRING", <<Ref("ARCH")>>), Opt("OTHER", <<Lit("o")>>)})
  \cup UpTo(3, {[kind |-> "skip"], Opt("EDITOR_ENABLED", <<Lit("no")>>), Opt("QUIET", <<Lit("yes")>>),
                Opt("HASH_MISMATCH_PANIC", <<Lit("no")>>), Opt("PROTOCOL", <<Lit("p")>>)})

Struct(type, len, strings) == [type |-> type, len |-> len, strings |-> strings]
OemLine(config, line) == [config |-> config, line |-> line]
Seven == <<OemLine(FALSE, Hd(1, FALSE, <<>>)), OemLine(TRUE, Opt("TIMEOUT", <<Lit("7")>>))>>
MCSmbiosTables ==
  {<<>>,
   <<Struct(1, "fits", Seven), Struct(11, "fits", Seven), Struct(127, "fits", <<>>), Struct(11, "fits", Seven)>>,
   <<Struct(11, "fits", Seven), Struct(1, "short", <<>>), Struct(1, "past", <<>>)>>,
   <<Struct(1, "past", <<>>)>>}
MCBuiltIns == [ARCH |-> <<Lit("x86_64")>>]
MCNumbers == {<<Lit("3")>>, <<Lit("7")>>}
MCYes == {<<Lit(t)>> : t \in {"yes", "true", "1"}}
MCNo == <<Lit("no")>>

(* The editor: a buffer that ends in a "b" is refused. *)
MCCmdlines == {<<>>, <<"a">>, <<"b">>}
MCRefused(buffer) == buffer # <<>> /\ buffer[Len(buffer)] = "b"

(* Binaries with an empty, a filled, a second, a cut-off and no slot. *)
MCBinaries ==
  {<<"x", "S", "0", "0", "y">>, <<"S", "0", "0", "S", "0", "0">>, <<"x", "S", "0">>, <<"x", "y">>,
   <<"S", "h1", "h2">>}
MCHashOf(config) == IF config = "one" THEN <<"h1", "h2">> ELSE <<"g1", "g2">>

(* Kernels as a linker makes them, one linked above page 0, one with a     *)
(* hole and a note, overlapping ones, ones that are no ELF64, whose file   *)
(* is short, that have more in the file than in memory, and that do not    *)
(* fit the address space.                                                  *)
Ph(vaddr, mem, file, offset) ==
  [type |-> "LOAD", vaddr |-> vaddr, mem |-> mem, file |-> file, offset |-> offset]
Note == [Ph(0, 2, 2, 0) EXCEPT !.type = "NOTE"]
Rela(offset, addend) == [type |-> "RELATIVE", offset |-> offset, addend |-> addend]
Elf(pie, phdrs, relas) ==
  [elf64 |-> TRUE, pie |-> pie, entry |-> IF phdrs = <<>> THEN 0 ELSE phdrs[1].vaddr + 1,
   bytes |-> 6, phdrs |-> phdrs, relas |-> relas]
MCElfKernels ==
  {[Elf(FALSE, <<>>, <<>>) EXCEPT !.elf64 = FALSE], Elf(FALSE, <<>>, <<>>),
   Elf(FALSE, <<Ph(17, 3, 2, 1), Note, Ph(22, 5, 1, 4)>>, <<>>),
   Elf(FALSE, <<Ph(8, 4, 4, 0), Ph(10, 4, 2, 4)>>, <<>>),
   Elf(FALSE, <<Ph(8, 4, 4, 4)>>, <<>>), Elf(FALSE, <<Ph(8, 2, 6, 0)>>, <<>>),
   Elf(FALSE, <<Ph(125, 3, 1, 0)>>, <<>>), Elf(FALSE, <<Ph(120, 2, 1, 0)>>, <<>>),
   Elf(TRUE, <<Ph(0, 6, 6, 0)>>, <<Rela(1, 3), Rela(4, -2)>>),
   Elf(TRUE, <<Ph(2, 3, 2, 0), Ph(6, 5, 4, 2)>>, <<Rela(7, 0), [Rela(2, 1) EXCEPT !.type = "COPY"], Rela(3, 60)>>),
   Elf(TRUE, <<Ph(9, 3, 2, 0)>>, <<Rela(9, 0)>>), Elf(TRUE, <<Ph(0, 3, 3, 0)>>, <<Rela(0, 1), Rela(1, 2)>>)}
MCSlots == [way \in {"uefi", "legacy"} |-> IF way = "uefi" THEN 4 ELSE 2]

(* rng.rs's kaslr_base keeps its word on every range below the end of the  *)
(* address space.                                                          *)
ASSUME \A min, max, size \in 0 .. 13, r \in 0 .. 4 : KaslrRight(min, max, size, 4, r)

(* Headers complete and cut at every step; tables in one and in two        *)
(* blocks, with padding, overlapping words, words outside the image, cut,  *)
(* of odd and of no size.                                                  *)
Pe(len, sections, dirs) ==
  [len |-> len, mz |-> TRUE, lfanew |-> 64, sig |-> TRUE, machine |-> TRUE, magic |-> TRUE,
   optional |-> 240, dirs |-> dirs, sections |-> sections]
MCPeFiles ==
  {Pe(408, 2, 16), Pe(368, 1, 5), [Pe(240, 0, 16) EXCEPT !.optional = 0]}
  \cup {Pe(len, 2, 16) : len \in {63, 67, 87, 199, 407}}
  \cup {[Pe(408, 2, 16) EXCEPT ![field] = FALSE] : field \in {"mz", "sig", "machine", "magic"}}
MCDeltas == {0, 9, -5, 64, 1000000}
MCPeImages == {<<1, 2, 3, 4, 5, 6, 7, 0, 1, 2, 3>>, <<7, 7, 7, 7, 7, 7, 7, 7, 7, 0, 0>>}
En(type, offset) == [type |-> type, offset |-> offset]
Bk(rva, entries) == [rva |-> rva, entries |-> entries]
MCPeTables ==
  {<<>>, <<Bk(0, <<En(10, 1), En(0, 0)>>)>>, <<Bk(0, <<En(3, 0)>>), Bk(4, <<En(1, 1), En(2, 3)>>)>>,
   <<Bk(0, <<En(2, 3), En(10, 3), En(7, 3)>>)>>, <<Bk(0, <<En(10, 0), En(3, 2)>>)>>,
   <<Bk(8, <<En(2, 0), En(2, 1), En(2, 2)>>)>>, <<Bk(4, <<En(3, 0), En(10, 0)>>)>>}
MCDamages == {Whole} \cup {[keep |-> n, size |-> m] : n \in {7, 9, 10, 13, 30}, m \in {0, 7, 8, 9, 10, 11, 14}}

Init ==
  \/ FilesInit /\ ConfigIdle /\ EditorIdle /\ EnrollIdle /\ KiIdle /\ PeIdle
  \/ ConfigInit /\ FilesIdle /\ EditorIdle /\ EnrollIdle /\ KiIdle /\ PeIdle
  \/ EditorInit /\ FilesIdle /\ ConfigIdle /\ EnrollIdle /\ KiIdle /\ PeIdle
  \/ EnrollInit /\ FilesIdle /\ ConfigIdle /\ EditorIdle /\ KiIdle /\ PeIdle
  \/ KiInit /\ FilesIdle /\ ConfigIdle /\ EditorIdle /\ EnrollIdle /\ PeIdle
  \/ PeInit /\ FilesIdle /\ ConfigIdle /\ EditorIdle /\ EnrollIdle /\ KiIdle

Next ==
  \/ FilesNext /\ UNCHANGED <<cfg, ed, en, ki, pe>>
  \/ ConfigNext /\ UNCHANGED <<filesVars, ed, en, ki, pe>>
  \/ EditorNext /\ UNCHANGED <<filesVars, cfg, en, ki, pe>>
  \/ EnrollNext /\ UNCHANGED <<filesVars, cfg, ed, ki, pe>>
  \/ KiNext /\ UNCHANGED <<filesVars, cfg, ed, en, pe>>
  \/ PeNext /\ UNCHANGED <<filesVars, cfg, ed, en, ki>>

Spec == Init /\ [][Next]_inputVars /\ WF_filesVars(FilesNext)
=============================================================================
