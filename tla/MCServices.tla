------------------------------ MODULE MCServices ------------------------------
(***************************************************************************)
(* The parts around the boot path, each on small instances of its own: the *)
(* page-table builders, the Linux and Multiboot hand-overs, starting the   *)
(* other processors, the decompressor, the test harness and the command    *)
(* line.                                                                   *)
(***************************************************************************)
EXTENDS PageTables, LinuxBoot, Multiboot, Smp, Decompressor, TestRunner, Cli

serviceVars == <<pt, lin, mb, smp, dec, tr, cli>>

(* Kernels, direct maps and framebuffers, overlapping and unaligned. *)
Seg(virt, phys, len, w, x) ==
  [virt |-> virt, phys |-> phys, len |-> len,
   perms |-> [r |-> TRUE, w |-> w, x |-> x, user |-> FALSE]]
Rg(phys, len) == [phys |-> phys, len |-> len]
MCLayouts ==
  {[kernel |-> <<Seg(60, 10, 3, FALSE, TRUE), Seg(62, 14, 2, TRUE, FALSE)>>,
    hhdm |-> <<Rg(0, 6)>>, fb |-> <<Rg(2, 2)>>],
   [kernel |-> <<Seg(60, 10, 2, FALSE, TRUE), Seg(62, 14, 5, TRUE, FALSE)>>,
    hhdm |-> <<>>, fb |-> <<>>],
   [kernel |-> <<Seg(60, 10, 0, FALSE, TRUE)>>,
    hhdm |-> <<Rg(0, 4), Rg(8, 3)>>, fb |-> <<Rg(8, 4)>>],
   [kernel |-> <<Seg(61, 11, 2, FALSE, FALSE)>>, hhdm |-> <<Rg(1, 2)>>, fb |-> <<>>]}

(* bzImages with and without entries in the E820 count, short ones, old    *)
(* ones and no Linux at all; maps that fill the table and overflow it.     *)
Bz(n, count, sects, version) ==
  [cells |-> [i \in 1 .. n |-> IF i = 1 THEN count ELSE IF i = 2 THEN sects ELSE 5],
   magic |-> TRUE, version |-> version]
MCBzImages ==
  {Bz(24, 0, 1, 2), Bz(18, 0, 2, 1), Bz(40, 0, 0, 2), Bz(24, 1, 1, 2), Bz(24, 2, 1, 2),
   Bz(9, 0, 1, 2), Bz(24, 0, 1, 0), [Bz(24, 0, 1, 2) EXCEPT !.magic = FALSE], Bz(12, 0, 1, 2)}
Ram(base) == [base |-> base, length |-> 1, typ |-> 1]
MCMemoryMaps == {<<>>, <<Ram(1)>>, <<Ram(1), Ram(2)>>, <<Ram(1), Ram(2), Ram(3)>>}
MCInitrds == {NoInitrd, [phys |-> 5, size |-> 6], [phys |-> 8, size |-> 1]}

(* Headers at several offsets of both protocols, cut short, with tags that *)
(* are known, unknown, optional, undersized and of size 0.                 *)
Tg(type, args) == [type |-> type, size |-> 8 + 4 * Len(args), args |-> args]
ShortTag(type, n) == [type |-> type, size |-> n, args |-> <<>>]
MCTags ==
  {<<>>, <<Tg(1, <<4, 6, 8>>), Tg(5, <<2, 3, 4>>)>>, <<Tg(6, <<>>), Tg(3, <<5>>), Tg(9, <<6>>)>>,
   <<Tg(7, <<>>), Tg(0, <<>>), Tg(6, <<>>)>>, <<Tg(1, <<4>>), Tg(4, <<1>>), Tg(1, <<6>>)>>,
   <<ShortTag(1, 4)>>, <<ShortTag(6, 0)>>, <<ShortTag(7, 4), Tg(6, <<>>)>>}
MCKernels ==
  {[proto |-> p, before |-> b, arch |-> 0, tags |-> IF p = 1 THEN <<7>> ELSE t, cut |-> c] :
     p \in {1, 2}, c \in {0, 1, 8, 17}, t \in MCTags,
     b \in {<<>>, <<9>>, <<9, 9>>, <<210, 1, 2, 210>>, <<9, 9, 9, 9, 9, 9, 9, 9>>}}
MCMagic == [p \in {1, 2} |-> IF p = 1 THEN 178 ELSE 210]
MCSearchLimit == [p \in {1, 2} |-> IF p = 1 THEN 32 ELSE 48]
MCBootInfos ==
  {[modules |-> m, mmap |-> <<>>, cmdline |-> <<>>, framebuffer |-> f, mem |-> 1] :
     m \in {<<>>, <<1>>}, f \in {<<>>, <<1>>}}
MCInfoTags ==
  {[type |-> 1, payload |-> <<65, 0>>], [type |-> 1, payload |-> <<65, 66, 67, 68, 69, 70, 71, 0>>],
   [type |-> 4, payload |-> <<1, 0, 0, 0, 2, 0, 0, 0>>], [type |-> 8, payload |-> [i \in 1 .. 32 |-> i]],
   [type |-> 14, payload |-> <<1, 2, 3, 4, 5, 6, 7, 8, 9, 10>>]}

(* No MADT, two of them, a processor listed twice, one that is not there,  *)
(* and an entry of length 0.                                               *)
Apic(id) == [type |-> 0, length |-> 8, id |-> id]
Other(type, length) == [type |-> type, length |-> length, id |-> 9]
Table(sig) == [sig |-> sig, entries |-> <<>>]
Madt(entries) == [sig |-> "APIC", entries |-> entries]
MCFirmware ==
  {<<Table("FACP")>>,
   <<Table("FACP"), Madt(<<Apic(0), Apic(1), Other(1, 12), Apic(2)>>), Madt(<<Apic(1)>>)>>,
   <<Madt(<<Apic(2), Apic(0), Apic(2)>>)>>,
   <<Madt(<<Apic(1), Other(4, 0), Apic(2)>>)>>,
   <<Madt(<<Apic(1), Apic(7), Apic(2)>>)>>}

(* gzip headers with every choice of optional fields, and cut ones; bodies *)
(* that fit the heap and that do not.                                      *)
GzHead(extra, name, comment, crc) ==
  LET Bits(b, n) == IF b THEN n ELSE 0
      Field(b, bytes) == IF b THEN bytes ELSE <<>>
  IN <<31, 139, 8, Bits(crc, 2) + Bits(extra, 4) + Bits(name, 8) + Bits(comment, 16),
       0, 0, 0, 0, 0, 3>>
     \o Field(extra, <<3, 0, 7, 0, 7>>) \o Field(name, <<65, 0>>)
     \o Field(comment, <<0>>) \o Field(crc, <<9, 0>>)
MCBlobs ==
  {[head |-> h, body |-> b, place |-> p] :
     h \in {<<>>} \cup {GzHead(e, n, c, r) : e \in BOOLEAN, n \in BOOLEAN, c \in BOOLEAN, r \in BOOLEAN},
     b \in [kind : {"zlib", "deflate"}, len : {1, 9, 20000, 50000}, out : {2, 45000, 120000, 200000}],
     p \in {"after", "elsewhere"}}
  \cup {[head |-> SubSeq(GzHead(TRUE, TRUE, TRUE, TRUE), 1, n),
         body |-> [kind |-> "broken", len |-> 0, out |-> 0], place |-> "elsewhere"] : n \in 1 .. 19}

MCArgLists ==
  {<<"--suite", "boot-smoke">>, <<"--suite", "asm-verification", "--timeout", "5">>,
   <<"--timeout", "0", "--suite", "boot-smoke">>, <<"--suite", "linux-bzimage">>,
   <<"--bios", "x">>, <<"--uefi", "x">>, <<"--suite", "nope">>, <<"--help">>,
   <<"--bios", "x", "--suite", "boot-smoke">>, <<"--frob">>, <<"--bios">>, <<>>}
MCSecondsOf == [s \in {"0", "5"} |-> IF s = "0" THEN 0 ELSE 5]
MCMissing == {{}, {"bios-boot-smoke"}}
MCFirmwares == {{"qemu", "ovmf"}, {"qemu"}}

(* Global flags before, after and inside a command's own arguments.        *)
Line(words) == [i \in DOMAIN words |-> <<words[i]>>]
InstallWords == <<"install", "--mbr", "x", "--stage2", "x", "--target", "y">>
MCCommandLines ==
  {Line(w) : w \in
     {InstallWords, InstallWords \o <<"--dry-run">>, <<"-n">> \o InstallWords,
      InstallWords \o <<"--yes">>, <<"--force", "-n">> \o InstallWords,
      InstallWords \o <<"--", "--yes">>, <<"--fields", "--yes">> \o InstallWords,
      <<"--fields", "--fields", "--yes">> \o InstallWords, <<"--fields", "--", "-n">> \o InstallWords \o <<"-y">>,
      <<"-E">> \o InstallWords \o <<"-y">>, InstallWords \o <<"--stage2-lba">>,
      <<"install", "--mbr", "x", "--target", "--dry-run", "--stage2", "x">>,
      <<"sbom", "--output", "x", "y", "--dry-run">>, <<"sbom", "--frob">>,
      <<"describe", "--format", "explore">>, <<"describe", "--color", "always">>,
      <<"describe", "x">>, <<"schema", "x", "--no-color", "-v">>,
      <<"bench", "parse-serial", "--tsc-mhz", "x", "y", "-q", "--json">>,
      <<"completions", "bash">>, <<"--help">>, <<"--version", "x">>, <<"frob">>, <<>>,
      <<"--format", "frob">>, <<"--format">>, <<"--fields">>}}
  \cup {<<<<"--color", "frob">>>>,
        Line(<<"enroll-config", "--config", "x", "--efi", "y", "-y">>) \o <<<<"--format", "jsonl">>>>}
MCWords ==
  {"x", "y", "install", "enroll-config", "sbom", "schema", "describe", "bench", "completions",
   "bash", "parse-serial", "frob", "help", "explore", "always"}
Shell(stdout, stdin) ==
  [AI_AGENT |-> "unset", AGENT |-> "unset", CI |-> "unset", NO_COLOR |-> "unset",
   FORCE_COLOR |-> "unset", CLICOLOR |-> "unset", TERM |-> "xterm", stdout |-> stdout, stdin |-> stdin]
MCVariables ==
  {Shell(out, in) : out \in BOOLEAN, in \in BOOLEAN}
  \cup {[Shell(TRUE, TRUE) EXCEPT !.AI_AGENT = "1"], [Shell(TRUE, TRUE) EXCEPT !.CI = "true"],
        [Shell(TRUE, TRUE) EXCEPT !.AGENT = "0", !.TERM = "dumb"],
        [Shell(FALSE, TRUE) EXCEPT !.FORCE_COLOR = "1"], [Shell(TRUE, FALSE) EXCEPT !.NO_COLOR = "1"]}

(* One part runs, the others stay idle. *)
Init ==
  \/ PtInit /\ LinuxIdle /\ MbIdle /\ SmpIdle /\ DecIdle /\ TrIdle /\ CliIdle
  \/ LinuxInit /\ PtIdle /\ MbIdle /\ SmpIdle /\ DecIdle /\ TrIdle /\ CliIdle
  \/ MbInit /\ PtIdle /\ LinuxIdle /\ SmpIdle /\ DecIdle /\ TrIdle /\ CliIdle
  \/ SmpInit /\ PtIdle /\ LinuxIdle /\ MbIdle /\ DecIdle /\ TrIdle /\ CliIdle
  \/ DecInit /\ PtIdle /\ LinuxIdle /\ MbIdle /\ SmpIdle /\ TrIdle /\ CliIdle
  \/ TrInit /\ PtIdle /\ LinuxIdle /\ MbIdle /\ SmpIdle /\ DecIdle /\ CliIdle
  \/ CliInit /\ PtIdle /\ LinuxIdle /\ MbIdle /\ SmpIdle /\ DecIdle /\ TrIdle

Next ==
  \/ PtNext /\ UNCHANGED <<lin, mb, smp, dec, tr, cli>>
  \/ LinuxNext /\ UNCHANGED <<pt, mb, smp, dec, tr, cli>>
  \/ MbNext /\ UNCHANGED <<pt, lin, smp, dec, tr, cli>>
  \/ SmpNext /\ UNCHANGED <<pt, lin, mb, dec, tr, cli>>
  \/ DecNext /\ UNCHANGED <<pt, lin, mb, smp, tr, cli>>
  \/ TrNext /\ UNCHANGED <<pt, lin, mb, smp, dec, cli>>
  \/ CliNext /\ UNCHANGED <<pt, lin, mb, smp, dec, tr>>

Spec == Init /\ [][Next]_serviceVars /\ TrFairness
=============================================================================
