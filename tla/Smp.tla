--------------------------------- MODULE Smp ---------------------------------
(***************************************************************************)
(* Starting the other processors on the BIOS path (zamak-bios/src/smp.rs   *)
(* and trampoline.rs, the "smp" feature): the boot processor finds the     *)
(* local APICs in the MADT, copies the trampoline below 1 MiB and sends    *)
(* each of them INIT and a start-up interrupt, while the interrupt         *)
(* controller delivers and the started processors run.                     *)
(***************************************************************************)
EXTENDS Integers, Sequences, FiniteSets

CONSTANTS
  Firmware,       \* the tables tried: sequences of [sig, entries], the entries of the
                  \*   MADT ("APIC") being sequences of [type, length, id]
  Processors,     \* the local APIC ids of the machine
  Bsp,            \* the one running this code
  Pml4            \* the page tables handed to start_aps

VARIABLE smp

ASSUME SmpAssumption ==
  /\ Firmware \subseteq Seq([sig : STRING, entries : Seq([type : Nat, length : Nat, id : Nat])])
  /\ Bsp \in Processors

----------------------------------------------------------------------------
SmpIdle == smp = [pc |-> "idle"]

Icr == [busy |-> FALSE, target |-> Bsp, command |-> "none"]

(* A processor nobody has woken: what it runs, what CR3 it loaded, the interrupts it got.   *)
Dormant == [mode |-> "off", cr3 |-> -1, got |-> <<>>]

(* The trampoline's own trampoline_pml4_ptr holds 0; low is the memory at  *)
(* 0x1000, and pml4 the word at 0x1500.  t and e are the table and the     *)
(* entry of it that are read next.                                         *)
SmpInit ==
  \E tables \in Firmware :
    smp = [pc |-> "tables", tables |-> tables, t |-> 1, e |-> 1, cpus |-> <<>>, i |-> 1,
           icr |-> Icr, low |-> "free", pml4 |-> 0, infos |-> <<>>,
           aps |-> [p \in Processors |->
                      IF p = Bsp THEN [Dormant EXCEPT !.mode = "boot"] ELSE Dormant]]

(* parse_madt: the first MADT, and of it the type-0 entries up to an entry *)
(* of length 0; the enabled flag is read and not looked at.                *)
FindMadt ==
  /\ smp.pc = "tables"
  /\ smp' = IF smp.t > Len(smp.tables) THEN [smp EXCEPT !.pc = "copy"]
            ELSE IF smp.tables[smp.t].sig = "APIC" THEN [smp EXCEPT !.pc = "madt"]
            ELSE [smp EXCEPT !.t = @ + 1]

Entries(s) == s.tables[s.t].entries

ReadEntry ==
  /\ smp.pc = "madt"
  /\ smp' = IF smp.e > Len(Entries(smp)) THEN [smp EXCEPT !.pc = "copy"]
            ELSE LET entry == Entries(smp)[smp.e]
                 IN [smp EXCEPT !.cpus = IF entry.type = 0 THEN Append(@, entry.id) ELSE @,
                                !.e = @ + 1,
                                !.pc = IF entry.length = 0 THEN "copy" ELSE @]

CopyTrampoline ==
  /\ smp.pc = "copy"
  /\ smp' = [smp EXCEPT !.pc = "cpu", !.low = "trampoline", !.pml4 = Pml4]

Info(s) == [processor_id |-> s.i - 1, lapic_id |-> s.cpus[s.i]]

(* The boot processor lists itself; for another one start_aps allocates a  *)
(* stack, which nobody is told of, and goes on to the interrupts.          *)
NextCpu ==
  /\ smp.pc = "cpu"
  /\ smp' = IF smp.i > Len(smp.cpus) THEN [smp EXCEPT !.pc = "done"]
            ELSE IF smp.cpus[smp.i] = Bsp
            THEN [smp EXCEPT !.infos = Append(@, Info(smp)), !.i = @ + 1]
            ELSE [smp EXCEPT !.pc = "init"]

(* send_ipi: wait for the delivery bit to clear, write the target and then *)
(* the command.                                                            *)
IcrReadyAlways(s) == TRUE

IcrReady(s) == ~s.icr.busy

SendIpi(s, command) ==
  [s EXCEPT !.icr = [busy |-> TRUE, target |-> s.cpus[s.i], command |-> command]]

SendInit ==
  /\ smp.pc = "init"
  /\ IcrReady(smp)
  /\ smp' = [SendIpi(smp, "INIT") EXCEPT !.pc = "sipi"]

(* After the delay, during which the INIT may or may not be delivered: the *)
(* start-up interrupt.  The processor is listed without waiting for it.    *)
SendSipi ==
  /\ smp.pc = "sipi"
  /\ IcrReady(smp)
  /\ smp' = [SendIpi(smp, "SIPI") EXCEPT !.pc = "cpu", !.i = @ + 1,
                                        !.infos = Append(@, Info(smp))]

(* The controller: INIT resets the target, a start-up interrupt starts one *)
(* that was reset; an absent target takes none.                            *)
Deliver ==
  /\ smp.pc # "idle"
  /\ smp.icr.busy
  /\ LET t == smp.icr.target
         command == smp.icr.command
         Take(ap) ==
           [mode |-> IF command = "INIT" THEN "reset"
                     ELSE IF ap.mode = "reset" THEN "real" ELSE ap.mode,
            cr3 |-> ap.cr3, got |-> Append(ap.got, command)]
     IN smp' = [smp EXCEPT !.icr.busy = FALSE,
                           !.aps = [p \in Processors |-> IF p = t THEN Take(@[p]) ELSE @[p]]]

(* The trampoline: real mode, protected mode, then CR3 from the linked     *)
(* trampoline_pml4_ptr (0: the patch went to 0x1500) and paging, which     *)
(* leaves the processor in its halt loop or lost.                          *)
TrampolineStep ==
  /\ smp.pc # "idle"
  /\ \E p \in Processors :
       /\ smp.aps[p].mode \in {"real", "protected"}
       /\ \E mode \in IF smp.aps[p].mode = "real" THEN {"protected"} ELSE {"parked", "lost"} :
            smp' = [smp EXCEPT !.aps[p].mode = mode,
                               !.aps[p].cr3 = IF mode = "protected" THEN @ ELSE 0]

SmpNext ==
  \/ FindMadt \/ ReadEntry \/ CopyTrampoline \/ NextCpu
  \/ SendInit \/ SendSipi \/ Deliver \/ TrampolineStep

----------------------------------------------------------------------------
(* The local APICs among these entries, up to a malformed one.             *)
Apics(entries) ==
  {n \in DOMAIN entries : entries[n].type = 0 /\ \A m \in 1..(n - 1) : entries[m].length # 0}

(* The local APICs at these positions, in their order.                     *)
InOrder(cpus, entries, positions) ==
  \E at \in [DOMAIN cpus -> positions] :
    /\ \A m, n \in DOMAIN cpus : m < n => at[m] < at[n]
    /\ \A p \in positions : \E n \in DOMAIN cpus : at[n] = p
    /\ \A n \in DOMAIN cpus : cpus[n] = entries[at[n]].id

(* What the first MADT lists.                                              *)
Lists(cpus, tables) ==
  \/ cpus = <<>> /\ \A t \in DOMAIN tables : tables[t].sig # "APIC"
  \/ \E t \in DOMAIN tables :
       /\ tables[t].sig = "APIC" /\ \A u \in 1..(t - 1) : tables[u].sig # "APIC"
       /\ InOrder(cpus, tables[t].entries, Apics(tables[t].entries))

Times(cpus, p) == Cardinality({n \in DOMAIN cpus : cpus[n] = p})

(***************************************************************************)
(* However late the interrupts are delivered and however the processors    *)
(* interleave: the processors of the MADT are listed in its order, each    *)
(* under its position; the boot processor is never interrupted; a          *)
(* processor runs the trampoline only once it is in place and only after   *)
(* an INIT; and when start_aps has returned and the controller is quiet,   *)
(* every other listed processor got one INIT and one start-up interrupt,   *)
(* alternating, for each time it is listed (parse_madt, start_aps,         *)
(* send_ipi).                                                              *)
(***************************************************************************)
SmpStartsEach ==
  smp.pc # "idle" =>
    /\ smp.pc \notin {"tables", "madt"} => Lists(smp.cpus, smp.tables)
    /\ \A n \in DOMAIN smp.infos :
         smp.infos[n] = [processor_id |-> n - 1, lapic_id |-> smp.cpus[n]]
    /\ smp.aps[Bsp].got = <<>>
    /\ \A p \in Processors :
         LET got == smp.aps[p].got
         IN /\ \A n \in DOMAIN got : got[n] = IF n % 2 = 1 THEN "INIT" ELSE "SIPI"
            /\ smp.aps[p].mode \notin {"off", "boot"} => smp.low = "trampoline"
    /\ smp.pc = "done" /\ ~smp.icr.busy =>
         /\ Len(smp.infos) = Len(smp.cpus)
         /\ \A p \in Processors \ {Bsp} : Len(smp.aps[p].got) = 2 * Times(smp.cpus, p)
=============================================================================
