------------------------------ MODULE UefiBoot ------------------------------
(***************************************************************************)
(* zamak-uefi: from the configuration file to the jump.  main discovers a  *)
(* configuration, runs the menu, loads the entry as a Linux or a Limine    *)
(* kernel out of firmware memory, answers the kernel's requests, builds    *)
(* page tables, leaves boot services and jumps.                            *)
(***************************************************************************)
EXTENDS UefiMenu

CONSTANTS
  Pages,        \* physical pages
  RuntimePages, \* those that the firmware keeps
  Arches,       \* the targets of the build
  Volumes,      \* what the two configuration paths are: "absent", "dir", "file" or "not_utf8"
  NoMap         \* "the kernel was given no memory map"

VARIABLES
  arch,         \* the target
  volume,       \* the two configuration paths
  fw,           \* UEFI memory type of each page
  owner,        \* what the loader keeps in each page
  todo,         \* modules or requests that the running loop has not handled yet
  memmap,       \* the memory map given to the kernel
  mapped,       \* what the page tables of paging::build map
  active        \* what the processor can reach after the hand-off

bootVars == <<arch, volume, fw, owner, todo, memmap, mapped, active>>
vars == <<pc, menuVars, bootVars>>

Init ==
  /\ MenuInit
  /\ pc = "discover"
  /\ arch \in Arches
  /\ volume \in Volumes
  /\ fw = [p \in Pages |-> IF p \in RuntimePages THEN "RUNTIME_SERVICES" ELSE "CONVENTIONAL"]
  /\ owner = [p \in Pages |-> "none"]
  /\ todo = <<>>
  /\ memmap = NoMap
  /\ mapped = {}
  /\ active = {"identity"}

FreePages == {p \in Pages : fw[p] = "CONVENTIONAL"}

(* allocate_pages(AnyPages, LOADER_DATA, ..) of the firmware, one page     *)
(* standing for the range.                                                 *)
Allocate(p, use) ==
  /\ fw[p] = "CONVENTIONAL"
  /\ fw' = [fw EXCEPT ![p] = "LOADER_DATA"]
  /\ owner' = [owner EXCEPT ![p] = use]

(* A call that is .expect()ed: it gets a page, or the loader panics. *)
AllocateOrPanic(use, next) ==
  \/ /\ \E p \in Pages : Allocate(p, use)
     /\ pc' = next
  \/ /\ FreePages = {}
     /\ pc' = "panicked"
     /\ UNCHANGED <<fw, owner>>

(* A Box or Vec of the loader's heap, in a pool page that it has or in a   *)
(* new one.                                                                *)
HeapAllocate ==
  \/ UNCHANGED <<fw, owner>>
  \/ \E p \in Pages : Allocate(p, "heap")

-----------------------------------------------------------------------------
(* The first of the two paths that opens as a file; a directory is passed  *)
(* over.                                                                   *)
ConfigFile ==
  CASE volume[1] \in {"file", "not_utf8"} -> volume[1]
    [] OTHER -> volume[2]

Discover ==
  /\ pc = "discover"
  /\ \/ /\ ConfigFile = "file"
        /\ pc' = "menu"
        /\ OpenMenu
     \/ /\ ConfigFile = "not_utf8"
        /\ pc' = "panicked"
        /\ UNCHANGED menuVars
     \/ /\ ConfigFile \in {"absent", "dir"}
        /\ pc' = "press_key"
        /\ UNCHANGED menuVars
  /\ UNCHANGED bootVars

Menu == MenuStep /\ UNCHANGED bootVars

Booted == Entry(selected_idx)

IsLinux == arch = "x86_64" /\ Booted.protocol = "linux"

(* config.entries.get(selected_idx), the path, and the kernel file, which  *)
(* is read into the heap.  A path that is missing, or is none to UEFI, is  *)
(* a "bad_path".                                                           *)
OpenKernel ==
  /\ pc = "select"
  /\ \/ /\ selected_idx >= NumEntries
        /\ pc' = "press_key"
        /\ UNCHANGED <<fw, owner>>
     \/ /\ selected_idx < NumEntries
        /\ Booted.kernel = "missing"
        /\ pc' = "press_key"
        /\ UNCHANGED <<fw, owner>>
     \/ /\ selected_idx < NumEntries
        /\ Booted.kernel \in {"bad_path", "dir"}
        /\ pc' = "panicked"
        /\ UNCHANGED <<fw, owner>>
     \/ /\ selected_idx < NumEntries
        /\ Booted.kernel \in {"good", "malformed"}
        /\ AllocateOrPanic("kernel_file", IF IsLinux THEN "open_initrd" ELSE "load_segments")
  /\ UNCHANGED <<menuVars, arch, volume, todo, memmap, mapped, active>>

-----------------------------------------------------------------------------
InitrdOpens(entry) == entry.modules # <<>> => Head(entry.modules) = "good"

(* The Linux leg: the initrd is opened by main, the rest is                *)
(* load_linux_kernel.                                                      *)
OpenInitrd ==
  /\ pc = "open_initrd"
  /\ \/ /\ ~InitrdOpens(Booted)
        /\ pc' = "panicked"
        /\ UNCHANGED <<fw, owner>>
     \/ /\ InitrdOpens(Booted)
        /\ pc' = "linux_body"
        /\ HeapAllocate
  /\ UNCHANGED <<menuVars, arch, volume, todo, memmap, mapped, active>>

LinuxBody ==
  /\ pc = "linux_body"
  /\ IF Booted.kernel = "malformed"
     THEN pc' = "panicked" /\ UNCHANGED <<fw, owner>>
     ELSE AllocateOrPanic("kernel", "linux_cmdline")
  /\ UNCHANGED <<menuVars, arch, volume, todo, memmap, mapped, active>>

LinuxCmdline ==
  /\ pc = "linux_cmdline"
  /\ AllocateOrPanic("cmdline", IF Booted.modules = <<>> THEN "linux_e820" ELSE "linux_initrd")
  /\ UNCHANGED <<menuVars, arch, volume, todo, memmap, mapped, active>>

LinuxInitrd ==
  /\ pc = "linux_initrd"
  /\ AllocateOrPanic("initrd", "linux_e820")
  /\ UNCHANGED <<menuVars, arch, volume, todo, memmap, mapped, active>>

(* uefi_mem_ty_to_e820 *)
ToE820(type) == IF type \in {"CONVENTIONAL", "LOADER_DATA"} THEN "usable" ELSE "reserved"

(* The snapshot is taken before the page for BootParams is allocated. *)
LinuxE820 ==
  /\ pc = "linux_e820"
  /\ memmap' = [p \in Pages |-> ToE820(fw[p])]
  /\ AllocateOrPanic("boot_params", "exit_boot_services")
  /\ UNCHANGED <<menuVars, arch, volume, todo, mapped, active>>

-----------------------------------------------------------------------------
(* The Limine leg; on the other targets a bzImage gets here, too, and is   *)
(* not an ELF file.                                                        *)
LoadKernelSegments ==
  /\ pc = "load_segments"
  /\ IF Booted.kernel = "malformed" \/ Booted.protocol = "linux"
     THEN pc' = "panicked" /\ UNCHANGED <<fw, owner>>
     ELSE AllocateOrPanic("kernel", "modules")
  /\ todo' = Booted.modules
  /\ UNCHANGED <<menuVars, arch, volume, memmap, mapped, active>>

(* MUTANT of LoadModule: a module that does not open is fatal. *)
LoadModuleOrPanic ==
  /\ pc = "modules"
  /\ todo # <<>>
  /\ todo' = Tail(todo)
  /\ IF Head(todo) = "good"
     THEN AllocateOrPanic("module", "modules")
     ELSE pc' = "panicked" /\ UNCHANGED <<fw, owner>>
  /\ UNCHANGED <<menuVars, arch, volume, memmap, mapped, active>>

(* A module that is missing or a directory is passed over, one whose path  *)
(* is none to UEFI is not.                                                 *)
LoadModule ==
  /\ pc = "modules"
  /\ todo # <<>>
  /\ todo' = Tail(todo)
  /\ \/ /\ Head(todo) = "good"
        /\ AllocateOrPanic("module", "modules")
     \/ /\ Head(todo) \in {"missing", "dir"}
        /\ UNCHANGED <<pc, fw, owner>>
     \/ /\ Head(todo) = "bad_path"
        /\ pc' = "panicked"
        /\ UNCHANGED <<fw, owner>>
  /\ UNCHANGED <<menuVars, arch, volume, memmap, mapped, active>>

(* SMP discovery fills heap objects; then the requests are answered. *)
DiscoverCpus ==
  /\ pc = "modules"
  /\ todo = <<>>
  /\ todo' = Booted.requests
  /\ pc' = "requests"
  /\ HeapAllocate
  /\ UNCHANGED <<menuVars, arch, volume, memmap, mapped, active>>

(* MUTANT of ToLimine: loader memory as the E820 table has it. *)
ToLimineAsE820(type) == ToE820(type)

ToLimine(type) ==
  CASE type = "CONVENTIONAL" -> "usable"
    [] type = "LOADER_DATA"  -> "bootloader_reclaimable"
    [] OTHER                 -> "reserved"

(* fulfill_requests: each response is a heap object, the memory map is     *)
(* read before its own response is allocated.                              *)
FulfillRequest ==
  /\ pc = "requests"
  /\ todo # <<>>
  /\ todo' = Tail(todo)
  /\ memmap' = IF Head(todo) = "MEMMAP" THEN [p \in Pages |-> ToLimine(fw[p])] ELSE memmap
  /\ HeapAllocate
  /\ UNCHANGED <<pc, menuVars, arch, volume, mapped, active>>

(* MUTANT of Mappings: x86_64 as the other targets. *)
MappingsUniform(a) == {"kernel", "hhdm"}

(* What paging::build maps: every target has the kernel and the direct     *)
(* map, x86_64 an identity map as well.                                    *)
Mappings(a) == {"kernel", "hhdm"} \cup (IF a = "x86_64" THEN {"identity"} ELSE {})

BuildPaging ==
  /\ pc = "requests"
  /\ todo = <<>>
  /\ AllocateOrPanic("tables", "exit_boot_services")
  /\ mapped' = Mappings(arch)
  /\ UNCHANGED <<menuVars, arch, volume, todo, memmap, active>>

-----------------------------------------------------------------------------
ExitBootServices ==
  /\ pc = "exit_boot_services"
  /\ pc' = "jump"
  /\ UNCHANGED <<menuVars, bootVars>>

(* CR3 and satp replace the whole address space; TTBR1_EL1 and PGDH only   *)
(* its upper half, below which the firmware's identity map stays.          *)
Installed(a) ==
  mapped \cup (IF a \in {"aarch64", "loongarch64"} THEN {"identity"} ELSE {})

(* handoff::jump_to_kernel or jump_to_linux_kernel. *)
Jump ==
  /\ pc = "jump"
  /\ pc' = "jumped"
  /\ active' = IF IsLinux THEN active ELSE Installed(arch)
  /\ UNCHANGED <<menuVars, arch, volume, fw, owner, todo, memmap, mapped>>

(* "Press any key to exit..." *)
PressAnyKey ==
  /\ pc = "press_key"
  /\ pc' = "returned"
  /\ UNCHANGED <<menuVars, bootVars>>

LoaderStep ==
  \/ Discover \/ Menu \/ OpenKernel
  \/ OpenInitrd \/ LinuxBody \/ LinuxCmdline \/ LinuxInitrd \/ LinuxE820
  \/ LoadKernelSegments \/ LoadModule \/ DiscoverCpus \/ FulfillRequest \/ BuildPaging
  \/ ExitBootServices \/ Jump

Next == LoaderStep \/ PressAnyKey

Spec == Init /\ [][Next]_vars

(* The loader runs alone; only the user's keys are not promised. *)
FairSpec == Spec /\ WF_vars(LoaderStep)

-----------------------------------------------------------------------------
(* Type invariant. *)
TypeOK ==
  /\ pc \in {"discover", "menu", "select", "open_initrd", "linux_body", "linux_cmdline",
             "linux_initrd", "linux_e820", "load_segments", "modules", "requests",
             "exit_boot_services", "jump", "jumped", "press_key", "returned", "panicked"}
  /\ time_remaining \in 0 .. Word - 1
  /\ keys \in 0 .. MaxKeys
  /\ fw \in [Pages -> {"CONVENTIONAL", "RUNTIME_SERVICES", "LOADER_DATA"}]
  /\ owner \in [Pages -> {"none", "heap", "kernel_file", "kernel", "cmdline", "initrd",
                          "boot_params", "module", "tables"}]
  /\ memmap = NoMap \/ memmap \in [Pages -> {"usable", "bootloader_reclaimable", "reserved"}]
  /\ active \subseteq {"identity", "kernel", "hhdm"}

(* The boot never needs an entry that is not there: the highlighted entry  *)
(* exists unless the configuration has none at all.                        *)
SelectionInRange ==
  NumEntries > 0 => state.selected_idx < NumEntries /\ selected_idx < NumEntries

(* A machine with memory to spare and a well-formed configuration never    *)
(* panics, whatever keys are pressed.                                      *)
WellFormed ==
  /\ ConfigFile # "not_utf8"
  /\ NumEntries > 0
  /\ \A idx \in 0 .. NumEntries - 1 :
       /\ Entry(idx).kernel \in {"good", "missing"}
       /\ \A i \in DOMAIN Entry(idx).modules : Entry(idx).modules[i] # "bad_path"
       /\ Entry(idx).protocol = "linux" => arch = "x86_64" /\ InitrdOpens(Entry(idx))

GoodInputNeverPanics == pc = "panicked" => ~WellFormed \/ FreePages = {}

(* The memory map that a Limine kernel is given does not offer it, as      *)
(* usable, a page that holds the kernel, its file or one of its modules.   *)
LoadedNotUsable ==
  pc = "jumped" /\ ~IsLinux /\ memmap # NoMap =>
    \A p \in Pages : owner[p] \in {"kernel", "kernel_file", "module"} => memmap[p] # "usable"

(* handoff.rs:38, of the table given to jump_to_kernel: it "maps the       *)
(* kernel's virtual address range and the current instruction pointer".    *)
HandoffMapped ==
  pc = "jumped" => "identity" \in active /\ (~IsLinux => "kernel" \in active)

(* Once the user has stopped pressing keys the boot comes to an end.       *)
BootEnds == <>(pc \in {"jumped", "press_key", "panicked", "returned"})

(* tui.rs:62: "When `true`, the config editor is disabled". *)
LockedEditorStaysClosed == state.editor_locked => ~state.editing

(* TODO.md:154, the boot menu's "entry selection": what is booted is the   *)
(* entry that the menu shows as selected.                                  *)
BootsHighlighted == pc = "select" => selected_idx = state.selected_idx
=============================================================================
