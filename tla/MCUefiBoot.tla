----------------------------- MODULE MCUefiBoot -----------------------------
(* Small configurations: no entry, two entries of every kind of kernel     *)
(* file, a Linux entry with an initrd, Limine entries with modules.        *)
EXTENDS UefiBoot

MCEntry(protocol, kernel, modules, requests) ==
  [protocol |-> protocol, kernel |-> kernel, modules |-> modules, requests |-> requests,
   cmdline |-> "cmdline"]

MCEntryLists ==
  { <<>>,
    <<MCEntry("limine", "good", <<"good", "missing">>, <<"HHDM", "MEMMAP", "MODULE">>),
      MCEntry("linux", "good", <<"good">>, <<>>)>>,
    <<MCEntry("limine", "malformed", <<>>, <<>>), MCEntry("linux", "good", <<>>, <<>>)>>,
    <<MCEntry("limine", "missing", <<>>, <<>>), MCEntry("linux", "malformed", <<>>, <<>>)>>,
    <<MCEntry("linux", "good", <<"dir", "good">>, <<>>), MCEntry("limine", "dir", <<>>, <<>>)>>,
    <<MCEntry("limine", "bad_path", <<>>, <<>>),
      MCEntry("limine", "good", <<"dir", "bad_path">>, <<>>)>> }

(* 8 seconds are 16 ticks and wrap to none. *)
MCConfigs ==
  [entries : MCEntryLists, timeout : {0, 1}, hash : BOOLEAN]
    \cup [entries : {<<MCEntry("limine", "good", <<>>, <<"MEMMAP">>)>>}, timeout : {8}, hash : {FALSE}]

MCVolumes ==
  {<<"file", "absent">>, <<"dir", "file">>, <<"absent", "dir">>, <<"not_utf8", "file">>}
=============================================================================
