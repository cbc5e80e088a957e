--------------------------- MODULE MCInstallBoot ---------------------------
(* Two images of the same size, one that wraps the segment register, an    *)
(* empty one and one that is too large.                                    *)
EXTENDS InstallBoot

MCSectorsOf == [v1 |-> 3, v2 |-> 3, wraps |-> 6, empty |-> 0, huge |-> 7]
=============================================================================
