------------------------------ MODULE MCFiles ------------------------------
(***************************************************************************)
(* The file systems a boot may read, each on a few small volumes: sound    *)
(* ones of every shape that matters, and damaged ones.                     *)
(***************************************************************************)
EXTENDS RamFat32, Ext2, Iso9660, Legacy, TLC

filesVars == <<fat, ext, iso, leg>>

(* FAT32: root 2 -> 3, a file in 5 -> 6, a directory in 4; the entries of   *)
(* a long name lie in two clusters.                                         *)
End == [kind |-> "end"]
Gone == [kind |-> "deleted"]
Long(seq, last, text) == [kind |-> "lfn", seq |-> seq, last |-> last, text |-> text]
Short(name, dir, cluster, len) ==
  [kind |-> "short", name |-> name, dir |-> dir, label |-> FALSE, cluster |-> cluster, len |-> len]
Label(name) == [Short(name, FALSE, 0, 0) EXCEPT !.label = TRUE]
Bytes(c) == [i \in 1 .. 3 |-> <<c, i>>]

MCSound ==
  [ok |-> TRUE, root |-> 2,
   fat |-> 2 :> 3 @@ 3 :> 15 @@ 4 :> 15 @@ 5 :> 6 @@ 6 :> 15,
   data |-> 2 :> <<Label(<<"C", " ", " ">>), Gone, Long(2, TRUE, <<"b", "nul">>)>>
         @@ 3 :> <<Long(1, FALSE, <<"a", "b">>), Short(<<"A", "~", " ">>, TRUE, 4, 0),
                   Short(<<"B", " ", "A">>, FALSE, 5, 4)>>
         @@ 4 :> <<Short(<<"A", " ", " ">>, FALSE, 6, 2), Long(1, TRUE, <<"c", "a">>),
                   Short(<<"C", "B", " ">>, FALSE, 5, 5)>>
         @@ 5 :> Bytes(5) @@ 6 :> Bytes(6)]

MCFatVolumes ==
  {MCSound,
   [MCSound EXCEPT !.ok = FALSE],
   [MCSound EXCEPT !.data = [@ EXCEPT ![4] = <<Gone, @[1], End>>]],
   [MCSound EXCEPT !.data = [@ EXCEPT ![4] = <<Long(1, TRUE, <<"wide", "a">>), @[1], End>>]],
   (* A directory chain that comes back on itself. *)
   [MCSound EXCEPT !.fat = [@ EXCEPT ![3] = 2, ![6] = 5]],
   (* A directory whose cluster lies past the image. *)
   [MCSound EXCEPT !.data = [@ EXCEPT ![3] = [@ EXCEPT ![2] = Short(<<"A", "~", " ">>, TRUE, 9, 0)]]],
   (* Entries of a long name missing or out of range. *)
   [MCSound EXCEPT !.data = [@ EXCEPT ![3] = <<Long(3, FALSE, <<"a", "b">>), @[2], End>>]],
   [MCSound EXCEPT !.data = [@ EXCEPT ![3] = <<@[2], Long(1, FALSE, <<"c", "c">>), @[3]>>]]}

MCFatPaths ==
  {<<>>, <<<<"a", "b", "b">>>>, <<<<"A", "B", "b">>, <<"c", "A">>>>, <<<<"b", ".", "a">>>>,
   <<<<"b", ".", "a">>, <<"a", "~">>>>, <<<<"c">>>>, <<<<"a", "~">>, <<"a">>>>,
   <<<<"a", "~">>, <<"b">>>>}
MCFatBuffers == {1, 3, 8}

(* Ext2: descriptors in block 2, inodes in 3 and 4 and, of the second      *)
(* group, in 5; the root has a hole and two directory blocks.              *)
Rec(inode, name, len) == [inode |-> inode, name |-> name, rec_len |-> len]
Inode(dir, size, block) == [dir |-> dir, size |-> size, block |-> block]
DirBlock(a, b, c) == 0 :> a @@ 1 :> b @@ 2 :> c

MCExt ==
  [magic |-> TRUE, small |-> TRUE, ipg |-> 4, isize |-> 1, bad |-> {},
   blocks |-> 1 :> "super" @@ 2 :> <<3, 5>>
      @@ 3 :> <<Inode(FALSE, 0, <<0, 0, 0, 0>>), Inode(TRUE, 6, <<6, 0, 7, 0>>)>>
      @@ 4 :> <<Inode(TRUE, 2, <<8, 0, 0, 0>>), Inode(FALSE, 8, <<9, 0, 10, 11>>)>>
      @@ 5 :> <<Inode(FALSE, 3, <<9, 10, 0, 0>>), Inode(FALSE, 2, <<0, 0, 0, 0>>)>>
      @@ 6 :> DirBlock(Rec(4, "f", 2), Rec(4, "g", 1), Rec(3, "d", 1))
      @@ 7 :> DirBlock(Rec(5, "g", 1), Rec(0, "", 2), Rec(6, "h", 1))
      @@ 8 :> DirBlock(Rec(6, "f", 1), Rec(2, "up", 2), Rec(4, "g", 1))
      @@ 9 :> <<"p", "q">> @@ 10 :> <<"r", "s">> @@ 11 :> <<10, 9>>]

MCExtVolumes ==
  {MCExt,
   [MCExt EXCEPT !.magic = FALSE],
   (* Larger blocks: the superblock lies in block 0, descriptors in 1. *)
   [MCExt EXCEPT !.small = FALSE, !.blocks = 0 :> "super" @@ 1 :> @[2] @@ @],
   (* A record of length zero, and an unused record before others. *)
   [MCExt EXCEPT !.blocks = [@ EXCEPT ![8] = [@ EXCEPT ![0] = Rec(6, "f", 0)]]],
   [MCExt EXCEPT !.blocks = [@ EXCEPT ![6] = [@ EXCEPT ![0] = Rec(0, "", 2)]]]}
  \cup {[MCExt EXCEPT !.bad = {b}] : b \in {1, 2, 4, 5, 6, 9, 11}}

MCExtPaths == {<<>>, <<"f">>, <<"g">>, <<"h">>, <<"d">>, <<"d", "f">>, <<"d", "up", "f">>, <<"f", "g">>}
MCExtBuffers == {0, 1, 3, 8, 9}

(* ISO 9660: the primary descriptor may come after a supplement; the root   *)
(* is two sectors long, the first padded.                                   *)
Vd(type) == [type |-> type, lba |-> 5, size |-> 4]
Entry(len, name, version, dir, lba, size) ==
  [len |-> len, named |-> TRUE, fold |-> name, version |-> version, dir |-> dir, lba |-> lba, size |-> size]
Dot == [Entry(1, "", "", TRUE, 5, 4) EXCEPT !.named = FALSE]
Pad == [Dot EXCEPT !.len = 0]
Name(upper) == [fold |-> upper]

MCIso ==
  [bad |-> {},
   sectors |-> 3 :> Vd("primary") @@ 4 :> Vd("terminator")
      @@ 5 :> DirBlock(Dot, Entry(1, "F", ";1", FALSE, 8, 5), Pad)
      @@ 6 :> DirBlock(Entry(1, "F", ";2", FALSE, 7, 1), Entry(2, "D", "", TRUE, 7, 2), Pad)
      @@ 7 :> DirBlock(Dot, Entry(1, "G", "", FALSE, 9, 2), Entry(1, "F", "", FALSE, 8, 1))
      @@ 8 :> <<"p", "q">> @@ 9 :> <<"r", "s">> @@ 10 :> <<"t", "u">>]

MCIsoVolumes ==
  {MCIso,
   [MCIso EXCEPT !.sectors = [@ EXCEPT ![3] = Vd("supplement"), ![4] = Vd("primary")]],
   [MCIso EXCEPT !.sectors = [@ EXCEPT ![3] = Vd("supplement"), ![4] = Vd("supplement")]],
   [MCIso EXCEPT !.sectors = [@ EXCEPT ![3] = Vd("supplement")]],
   [MCIso EXCEPT !.sectors = [@ EXCEPT ![3] = Vd("foreign")]]}
  \cup {[MCIso EXCEPT !.bad = {b}] : b \in {3, 6, 9}}

MCIsoPaths == {<<>>, <<Name("F")>>, <<Name("D"), Name("G")>>, <<Name("D"), Name("F")>>,
               <<Name("F"), Name("G")>>, <<Name("G")>>, <<Name("D"), Name("D")>>}
MCIsoBuffers == {0, 1, 2, 5, 6}

(* Legacy disks: a configuration and two kernels on one partition.          *)
MCConfPath == <<<<"c", ".", "c">>>>
MCLegacyVolume ==
  [ok |-> TRUE, root |-> 2, lba |-> 63,
   fat |-> 2 :> 3 @@ 3 :> 15 @@ 4 :> 15 @@ 5 :> 7 @@ 6 :> 15 @@ 7 :> 15,
   data |-> 2 :> <<Gone, Long(1, TRUE, <<"a", "b">>), Short(<<"A", "~", " ">>, TRUE, 4, 0)>>
         @@ 3 :> <<Short(<<"C", " ", "C">>, FALSE, 6, 3), Short(<<"B", " ", " ">>, FALSE, 5, 5), End>>
         @@ 4 :> <<Short(<<"B", " ", " ">>, FALSE, 6, 2), End, End>>
         @@ 5 :> Bytes(5) @@ 6 :> Bytes(6) @@ 7 :> Bytes(7)]
MCEntries == <<[kernel |-> <<<<"b">>>>, cmdline |-> "one", elf |-> TRUE],
               [kernel |-> <<<<"a", "~">>, <<"b">>>>, cmdline |-> "two", elf |-> TRUE]>>
MCPart(known, lba) == [known |-> known, lba |-> lba]
MCE820 == <<[smap |-> TRUE, last |-> FALSE, type |-> "usable"], [smap |-> TRUE, last |-> FALSE, type |-> "other"],
            [smap |-> FALSE, last |-> FALSE, type |-> "usable"]>>
MCDisk ==
  [mbr |-> <<MCPart(FALSE, 1), MCPart(TRUE, 63)>>, vol |-> MCLegacyVolume, flaky |-> FALSE,
   conf |-> [timeout |-> 0, entries |-> MCEntries], e820 |-> MCE820]

MCLegacyDisks ==
  {MCDisk,
   [MCDisk EXCEPT !.conf.timeout = 1, !.mbr = <<MCPart(TRUE, 0), MCPart(TRUE, 63), MCPart(TRUE, 7)>>],
   [MCDisk EXCEPT !.flaky = TRUE],
   [MCDisk EXCEPT !.mbr = <<MCPart(FALSE, 63)>>],
   [MCDisk EXCEPT !.vol.ok = FALSE],
   [MCDisk EXCEPT !.vol.data[3][1].len = 4],
   [MCDisk EXCEPT !.conf.entries = <<>>],
   [MCDisk EXCEPT !.conf.entries[1].elf = FALSE, !.conf.entries[2].kernel = <<<<"a">>>>]}

MCLegacyKeys == {"up", "down", "enter", "esc", "edit", "i", "a", "none"}

(* One of them is at work. *)
FilesIdle == FatIdle /\ ExtIdle /\ IsoIdle /\ LegacyIdle

FilesInit ==
  \/ FatInit /\ ExtIdle /\ IsoIdle /\ LegacyIdle
  \/ ExtInit /\ FatIdle /\ IsoIdle /\ LegacyIdle
  \/ IsoInit /\ FatIdle /\ ExtIdle /\ LegacyIdle
  \/ LegacyInit /\ FatIdle /\ ExtIdle /\ IsoIdle

FilesNext ==
  \/ FatNext /\ UNCHANGED <<ext, iso, leg>>
  \/ ExtNext /\ UNCHANGED <<fat, iso, leg>>
  \/ IsoNext /\ UNCHANGED <<fat, ext, leg>>
  \/ LegacyNext /\ UNCHANGED <<fat, ext, iso>>
=============================================================================
