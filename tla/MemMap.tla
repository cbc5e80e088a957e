------------------------------- MODULE MemMap -------------------------------
(***************************************************************************)
(* What the physical memory manager promises, with no list of regions in   *)
(* it: every byte of the address space has one type (or is a hole), an     *)
(* allocation turns Usable bytes into BootloaderReclaimable ones below     *)
(* everything handed out before, and a mark retypes the bytes of its range *)
(* that exist.  Pmm.tla is the implementation.                             *)
(***************************************************************************)
EXTENDS Integers

CONSTANTS
  Addr,         \* the byte addresses
  MemoryType,   \* the region types
  Hole,         \* "no region covers this byte"
  MapOf(_),     \* the map that a firmware list denotes
  Counts,       \* the page counts callers ask for
  Marks,        \* the [base, length, type] triples callers mark
  PAGE_SIZE

VARIABLES
  raw,          \* the firmware list this machine reports, whatever it is
  kind,         \* the type of every byte, all holes until the map is built
  built,        \* whether Pmm::new has returned
  top           \* no allocation is handed out at or above this address

vars == <<raw, kind, built, top>>

Range(base, length) == {a \in Addr : base <= a /\ a < base + length}

Init ==
  /\ kind = [a \in Addr |-> Hole]
  /\ built = FALSE
  /\ top = 0

(* The map appears whole: each byte has the type of the highest-priority   *)
(* entry that covers it, and top is the end of the highest Usable byte.    *)
Build ==
  /\ ~built
  /\ built' = TRUE
  /\ kind' = MapOf(raw)
  /\ LET ends == {a + 1 : a \in {b \in Addr : MapOf(raw)[b] = "Usable"}} \cup {0}
     IN  top' \in {t \in ends : \A u \in ends : u <= t}
  /\ UNCHANGED raw

Allocate ==
  \E base \in Addr, count \in Counts \ {0} :
    LET block == Range(base, count * PAGE_SIZE)
    IN  /\ built
        /\ base % PAGE_SIZE = 0
        /\ base + count * PAGE_SIZE <= top
        /\ \A a \in block : kind[a] = "Usable"
        /\ kind' = [a \in Addr |-> IF a \in block THEN "BootloaderReclaimable" ELSE kind[a]]
        /\ top' = base
        /\ UNCHANGED <<raw, built>>

Mark ==
  \E m \in Marks :
    /\ built
    /\ kind' = [a \in Addr |-> IF a \in Range(m.base, m.length) /\ kind[a] # Hole
                               THEN m.type ELSE kind[a]]
    /\ UNCHANGED <<raw, built, top>>

Next == Build \/ Allocate \/ Mark

Spec == Init /\ [][Next]_vars
=============================================================================
