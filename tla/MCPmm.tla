------------------------------- MODULE MCPmm -------------------------------
(* Small memories for Pmm: pages of two bytes, eight of them. *)
EXTENDS Pmm

CONSTANTS Bases, Lengths, E820Types, MaxEntries

MCEntries == [base : Bases, length : Lengths, e820 : E820Types]

(* Every list of up to two entries, and the longer ones already in order   *)
(* (normalize sorts first, so their other orders add nothing).             *)
MCAllMaps ==
  UNION {{m \in [1 .. n -> MCEntries] :
            n > 2 => \A k \in 1 .. n - 1 : m[k].base <= m[k + 1].base} : n \in 0 .. MaxEntries}

(* Maps that normalize resolves: at most two entries on a page. *)
MCShallowMaps ==
  {m \in MCAllMaps : Shallow([k \in DOMAIN m |-> [base |-> m[k].base, length |-> m[k].length,
                                                   type |-> FromE820(m[k].e820)]])}

MCMarks == {[base |-> 3, length |-> 4, type |-> "KernelAndModules"],
            [base |-> 4, length |-> 0, type |-> "Framebuffer"],
            [base |-> 0, length |-> 15, type |-> "Usable"]}
=============================================================================
