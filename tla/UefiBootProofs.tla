--------------------------- MODULE UefiBootProofs ---------------------------
(***************************************************************************)
(* What UefiBoot promises for every set of pages, every configuration and  *)
(* every number of keys: the type invariant, the selection, the panics,    *)
(* the memory map and the address space at the jump.                       *)
(***************************************************************************)
EXTENDS UefiBoot, TLAPS

StateType ==
  [selected_idx : Nat, editing : BOOLEAN, editor_locked : BOOLEAN,
   edit_buffer : Seq(STRING \cup PressedKey)]

LinuxLeg == {"open_initrd", "linux_body", "linux_cmdline", "linux_initrd", "linux_e820"}
LimineLeg == {"load_segments", "modules", "requests"}
Leaving == {"exit_boot_services", "jump", "jumped"}

(* The menu's variables have their types, and both indices are in range.   *)
MenuInv ==
  /\ config \in Configs
  /\ time_remaining \in 0 .. Word - 1
  /\ keys \in 0 .. MaxKeys
  /\ state \in StateType /\ selected_idx \in Nat
  /\ SelectionInRange

(* What the loader keeps somewhere is in memory that it allocated. *)
PageInv ==
  /\ fw \in [Pages -> {"CONVENTIONAL", "RUNTIME_SERVICES", "LOADER_DATA"}]
  /\ owner \in [Pages -> {"none", "heap", "kernel_file", "kernel", "cmdline", "initrd",
                          "boot_params", "module", "tables"}]
  /\ \A p \in Pages : owner[p] # "none" => fw[p] = "LOADER_DATA"

(* The leg that runs is that of the entry, which exists. *)
LegInv ==
  /\ pc \in LinuxLeg => IsLinux
  /\ pc \in LimineLeg => ~IsLinux
  /\ pc \in LinuxLeg \cup LimineLeg \cup Leaving => selected_idx < NumEntries

Kept == {"kernel", "kernel_file", "module"}

(* There is no map before the requests are answered, and what the kernel   *)
(* must keep was allocated before that.                                    *)
MapInv ==
  /\ pc \notin {"requests"} \cup Leaving \cup {"panicked"} => memmap = NoMap
  /\ memmap = NoMap \/ memmap \in [Pages -> {"usable", "bootloader_reclaimable", "reserved"}]
  /\ pc \in {"requests"} \cup Leaving /\ ~IsLinux /\ memmap # NoMap =>
       \A p \in Pages : owner[p] \in Kept => memmap[p] # "usable"

TableInv ==
  /\ active \subseteq {"identity", "kernel", "hhdm"} /\ mapped \subseteq {"identity", "kernel", "hhdm"}
  /\ pc # "jumped" => active = {"identity"}
  /\ pc \in {"exit_boot_services", "jump"} /\ ~IsLinux => mapped = Mappings(arch)
  /\ pc = "jumped" /\ IsLinux => active = {"identity"}
  /\ pc = "jumped" /\ ~IsLinux => active = Installed(arch) /\ mapped = Mappings(arch)

(* The modules still to load are modules of the entry. *)
TodoInv ==
  /\ todo \in Seq(STRING)
  /\ pc = "modules" => \A i \in DOMAIN todo : \E j \in DOMAIN Booted.modules : todo[i] = Booted.modules[j]

Phases ==
  {"discover", "menu", "select", "jumped", "press_key", "returned", "panicked",
   "exit_boot_services", "jump"} \cup LinuxLeg \cup LimineLeg

BootInv ==
  /\ pc \in Phases
  /\ MenuInv /\ PageInv /\ LegInv /\ MapInv /\ TableInv /\ TodoInv /\ GoodInputNeverPanics

-----------------------------------------------------------------------------
(* allocate_pages gives a page that nobody has, or there is none. *)
LEMMA AllocateStep ==
  ASSUME NEW use \in {"heap", "kernel_file", "kernel", "cmdline", "initrd", "boot_params", "module", "tables"},
         NEW p \in Pages, PageInv, Allocate(p, use)
  PROVE  /\ PageInv'
         /\ \A q \in Pages : owner'[q] = owner[q] \/ (owner'[q] = use /\ fw[q] = "CONVENTIONAL")
PROOF
  BY DEF PageInv, Allocate

LEMMA AllocateOrPanicStep ==
  ASSUME NEW use \in {"heap", "kernel_file", "kernel", "cmdline", "initrd", "boot_params", "module", "tables"},
         NEW next, PageInv, AllocateOrPanic(use, next)
  PROVE  /\ PageInv'
         /\ \A q \in Pages : owner'[q] = owner[q] \/ (owner'[q] = use /\ fw[q] = "CONVENTIONAL")
         /\ pc' = next \/ (pc' = "panicked" /\ FreePages' = {})
PROOF
<1>1. CASE \E p \in Pages : Allocate(p, use) /\ pc' = next
  BY <1>1, AllocateStep
<1>2. CASE FreePages = {} /\ pc' = "panicked" /\ UNCHANGED <<fw, owner>>
  BY <1>2 DEF PageInv, FreePages
<1> QED
  BY <1>1, <1>2 DEF AllocateOrPanic

LEMMA HeapAllocateStep ==
  ASSUME PageInv, HeapAllocate
  PROVE  /\ PageInv'
         /\ \A q \in Pages : owner'[q] = owner[q] \/ (owner'[q] = "heap" /\ fw[q] = "CONVENTIONAL")
PROOF
<1>1. CASE UNCHANGED <<fw, owner>>
  BY <1>1 DEF PageInv
<1>2. CASE \E p \in Pages : Allocate(p, "heap")
  BY <1>2, AllocateStep
<1> QED
  BY <1>1, <1>2 DEF HeapAllocate

(* The menu's operators keep the selection on an entry. *)
LEMMA MenuKeys ==
  ASSUME MenuInv
  PROVE  /\ NumEntries \in Nat
         /\ KeyUp \in StateType /\ KeyDown \in StateType
         /\ NumEntries > 0 => KeyUp.selected_idx < NumEntries /\ KeyDown.selected_idx < NumEntries
         /\ state.selected_idx < NumEntries => ToggleEditor \in StateType
         /\ state.editing => ToggleEditor \in StateType
         /\ ToggleEditor.selected_idx = state.selected_idx
PROOF
<1>1. /\ config.entries \in Seq(EntryType) /\ Word \in Nat \ {0}
      /\ state.selected_idx \in Nat /\ state.editing \in BOOLEAN /\ state.edit_buffer \in Seq(STRING \cup PressedKey)
      /\ state \in StateType
  BY ConfigsAssumption DEF MenuInv, StateType
<1>2. NumEntries \in Nat
  BY <1>1 DEF NumEntries
<1>3. KeyUp \in StateType /\ (NumEntries > 0 => KeyUp.selected_idx < NumEntries)
  BY <1>1, <1>2 DEF KeyUp, StateType, MenuInv, SelectionInRange
<1>4. NumEntries > 0 => LastIndex <= NumEntries - 1
  BY <1>1, <1>2 DEF LastIndex
<1>5. LastIndex \in Nat
  BY <1>1, <1>2 DEF LastIndex
<1>6. KeyDown \in StateType /\ (NumEntries > 0 => KeyDown.selected_idx < NumEntries)
  BY <1>1, <1>2, <1>4, <1>5 DEF KeyDown, StateType, MenuInv, SelectionInRange
<1>7. ToggleEditor.selected_idx = state.selected_idx
  BY <1>1 DEF ToggleEditor, StateType
<1>8. ASSUME state.editing PROVE ToggleEditor \in StateType
  BY <1>1, <1>8 DEF ToggleEditor, StateType
<1>9. ASSUME state.selected_idx < NumEntries PROVE ToggleEditor \in StateType
  <2>1. Entry(state.selected_idx) \in EntryType
    BY <1>1, <1>2, <1>9 DEF Entry, NumEntries
  <2>2. <<Entry(state.selected_idx).cmdline>> \in Seq(STRING \cup PressedKey)
    BY <2>1 DEF EntryType
  <2> QED
    BY <1>1, <2>2 DEF ToggleEditor, StateType
<1> QED
  BY <1>2, <1>3, <1>6, <1>7, <1>8, <1>9

(* What the steps after the menu leave as it is. *)
LEMMA Frame ==
  ASSUME UNCHANGED <<menuVars, arch, volume>>
  PROVE  /\ Booted' = Booted /\ IsLinux' = IsLinux /\ NumEntries' = NumEntries
         /\ WellFormed' = WellFormed
         /\ MenuInv => MenuInv'
         /\ selected_idx' = selected_idx
         /\ Mappings(arch)' = Mappings(arch)
PROOF
<1>1. config' = config /\ selected_idx' = selected_idx /\ arch' = arch /\ volume' = volume
      /\ state' = state /\ keys' = keys /\ time_remaining' = time_remaining
  BY DEF menuVars
<1>2. Booted' = Booted /\ IsLinux' = IsLinux /\ NumEntries' = NumEntries /\ Mappings(arch)' = Mappings(arch)
  BY <1>1 DEF Booted, IsLinux, NumEntries, Entry, Mappings
<1>3. WellFormed' = WellFormed
  BY <1>1 DEF WellFormed, NumEntries, Entry, ConfigFile, InitrdOpens
<1>4. MenuInv => MenuInv'
  BY <1>1 DEF MenuInv, SelectionInRange, NumEntries
<1> QED
  BY <1>1, <1>2, <1>3, <1>4

(* The entry that is booted has the type of an entry; where the input is   *)
(* well formed, it is one of the entries that WellFormed speaks of.        *)
LEMMA BootedEntry ==
  ASSUME MenuInv, selected_idx < NumEntries
  PROVE  /\ Booted \in EntryType
         /\ WellFormed => /\ Booted.kernel \in {"good", "missing"}
                          /\ \A i \in DOMAIN Booted.modules : Booted.modules[i] # "bad_path"
                          /\ Booted.protocol = "linux" => arch = "x86_64" /\ InitrdOpens(Booted)
PROOF
<1>1. config.entries \in Seq(EntryType) /\ selected_idx \in Nat
  BY ConfigsAssumption DEF MenuInv
<1>2. selected_idx \in 0 .. NumEntries - 1 /\ NumEntries = Len(config.entries)
  BY <1>1 DEF NumEntries
<1>3. Booted \in EntryType
  BY <1>1, <1>2 DEF Booted, Entry
<1> QED
  BY <1>2, <1>3 DEF WellFormed, Booted

-----------------------------------------------------------------------------
LEMMA InitInv == Init => BootInv
PROOF
<1> SUFFICES ASSUME Init PROVE BootInv
  OBVIOUS
<1>1. config.entries \in Seq(EntryType) /\ Word \in Nat \ {0} /\ MaxKeys \in Nat /\ NumEntries \in Nat
  BY ConfigsAssumption DEF Init, MenuInit, NumEntries
<1>2. MenuInv
  <2>1. state \in StateType
    BY DEF Init, MenuInit, StateType
  <2> QED
    BY <1>1, <2>1 DEF Init, MenuInit, MenuInv, SelectionInRange
<1>3. PageInv
  BY DEF Init, PageInv
<1> QED
  BY <1>2, <1>3 DEF Init, BootInv, LegInv, MapInv, TableInv, TodoInv, GoodInputNeverPanics, Phases,
     LinuxLeg, LimineLeg, Leaving

LEMMA DiscoverInv == BootInv /\ Discover => BootInv'
PROOF
<1> SUFFICES ASSUME BootInv, Discover PROVE BootInv'
  OBVIOUS
<1>0. MenuInv /\ PageInv /\ TodoInv /\ TableInv /\ MapInv /\ pc = "discover"
  BY DEF BootInv, Discover
<1>1. PageInv'
  BY <1>0 DEF Discover, bootVars, PageInv
<1>2. MenuInv'
  <2>1. CASE OpenMenu
    <3>1. config \in Configs /\ config.timeout \in Nat /\ config.hash \in BOOLEAN /\ Word \in Nat \ {0}
          /\ TicksPerSecond \in Nat /\ config.entries \in Seq(EntryType)
      BY <1>0, ConfigsAssumption DEF MenuInv
    <3>2. config.timeout * TicksPerSecond \in Nat
      BY <3>1
    <3>3. (config.timeout * TicksPerSecond) % Word \in 0 .. Word - 1
      BY <3>1, <3>2
    <3>4. state' \in StateType
      BY <2>1, <3>1 DEF OpenMenu, StateType
    <3> QED
      BY <1>0, <2>1, <3>1, <3>3, <3>4 DEF OpenMenu, MenuInv, SelectionInRange, NumEntries
  <2>2. CASE UNCHANGED menuVars
    BY <1>0, <2>2 DEF menuVars, MenuInv, SelectionInRange, NumEntries
  <2> QED
    BY <2>1, <2>2 DEF Discover
<1>3. pc' \in {"menu", "panicked", "press_key"} /\ (pc' = "panicked" => ConfigFile' = "not_utf8")
  BY DEF Discover, bootVars, ConfigFile
<1>4. GoodInputNeverPanics'
  BY <1>3 DEF GoodInputNeverPanics, WellFormed
<1>5. MapInv' /\ TableInv' /\ TodoInv'
  BY <1>0, <1>3 DEF Discover, bootVars, MapInv, TableInv, TodoInv, Leaving
<1> QED
  BY <1>1, <1>2, <1>3, <1>4, <1>5 DEF BootInv, LegInv, Phases, LinuxLeg, LimineLeg, Leaving

LEMMA MenuStepInv == BootInv /\ Menu => BootInv'
PROOF
<1> SUFFICES ASSUME BootInv, Menu PROVE BootInv'
  OBVIOUS
<1>0. MenuInv /\ PageInv /\ TodoInv /\ TableInv /\ MapInv /\ pc = "menu"
  BY DEF BootInv, Menu, MenuStep, PollNone, PollKey
<1>1. state \in StateType /\ time_remaining \in 0 .. Word - 1 /\ keys \in 0 .. MaxKeys /\ config \in Configs
      /\ selected_idx \in Nat /\ SelectionInRange /\ Word \in Nat \ {0} /\ MaxKeys \in Nat
  BY <1>0, ConfigsAssumption DEF MenuInv
<1>2. config' = config /\ NumEntries' = NumEntries /\ NumEntries \in Nat
  BY <1>0, MenuKeys DEF Menu, MenuStep, PollNone, PollKey, NumEntries
<1>3. /\ MenuInv'
      /\ pc' \in {"menu", "select", "panicked"}
      /\ pc' = "panicked" => state.selected_idx >= NumEntries
  <2>1. CASE PollNone
    BY <1>1, <1>2, <2>1 DEF PollNone, MenuInv, SelectionInRange
  <2>2. ASSUME NEW key \in PressedKey, PollKey(key)
        PROVE  /\ MenuInv'
               /\ pc' \in {"menu", "select", "panicked"}
               /\ pc' = "panicked" => state.selected_idx >= NumEntries
    <3>1. keys' \in 0 .. MaxKeys /\ time_remaining' \in 0 .. Word - 1
      BY <1>1, <2>2 DEF PollKey
    <3>2. state' \in StateType
      <4>1. [state EXCEPT !.edit_buffer = Append(@, key)] \in StateType
        <5>1. key \in STRING \cup PressedKey
          BY <2>2
        <5>2. Append(state.edit_buffer, key) \in Seq(STRING \cup PressedKey)
          BY <1>1, <5>1 DEF StateType
        <5> QED
          BY <1>1, <5>2 DEF StateType
      <4>2. [state EXCEPT !.editing = FALSE] \in StateType
        BY <1>1 DEF StateType
      <4>3. KeyUp \in StateType /\ KeyDown \in StateType
            /\ (state.editing \/ state.selected_idx < NumEntries => ToggleEditor \in StateType)
        BY <1>0, MenuKeys
      <4> QED
        BY <1>1, <2>2, <4>1, <4>2, <4>3 DEF PollKey
    <3>3. selected_idx' \in Nat
      BY <1>1, <2>2 DEF PollKey, StateType
    <3>4. SelectionInRange'
      <4>1. NumEntries > 0 => /\ state.selected_idx < NumEntries /\ selected_idx < NumEntries
                              /\ KeyUp.selected_idx < NumEntries /\ KeyDown.selected_idx < NumEntries
                              /\ ToggleEditor.selected_idx < NumEntries
        BY <1>0, <1>1, MenuKeys DEF SelectionInRange
      <4>2. [state EXCEPT !.editing = FALSE].selected_idx = state.selected_idx
        BY <1>1 DEF StateType
      <4>3. [state EXCEPT !.edit_buffer = Append(@, key)].selected_idx = state.selected_idx
        BY <1>1 DEF StateType
      <4> QED
        BY <1>2, <2>2, <4>1, <4>2, <4>3 DEF PollKey, SelectionInRange
    <3>5. pc' \in {"menu", "select", "panicked"} /\ (pc' = "panicked" => state.selected_idx >= NumEntries)
      BY <2>2 DEF PollKey
    <3> QED
      BY <1>1, <1>2, <3>1, <3>2, <3>3, <3>4, <3>5 DEF MenuInv
  <2> QED
    BY <2>1, <2>2 DEF Menu, MenuStep
<1>4. GoodInputNeverPanics'
  <2>1. state.selected_idx >= NumEntries => ~(NumEntries > 0)
    BY <1>1, <1>2 DEF SelectionInRange, StateType
  <2> QED
    BY <1>2, <1>3, <2>1 DEF GoodInputNeverPanics, WellFormed
<1>5. PageInv'
  BY <1>0 DEF Menu, bootVars, PageInv
<1>6. MapInv' /\ TableInv' /\ TodoInv'
  BY <1>0, <1>3 DEF Menu, bootVars, MapInv, TableInv, TodoInv, Leaving
<1> QED
  BY <1>3, <1>4, <1>5, <1>6 DEF BootInv, LegInv, Phases, LinuxLeg, LimineLeg, Leaving

LEMMA OpenKernelInv == BootInv /\ OpenKernel => BootInv'
PROOF
<1> SUFFICES ASSUME BootInv, OpenKernel PROVE BootInv'
  OBVIOUS
<1>0. /\ MenuInv /\ PageInv /\ TodoInv /\ TableInv /\ MapInv /\ pc = "select"
      /\ UNCHANGED <<menuVars, arch, volume>>
  BY DEF BootInv, OpenKernel
<1>1. MenuInv' /\ IsLinux' = IsLinux /\ NumEntries' = NumEntries /\ selected_idx' = selected_idx
      /\ WellFormed' = WellFormed
  BY <1>0, Frame
<1>2. /\ PageInv'
      /\ \/ pc' = "press_key"
         \/ pc' = "panicked" /\ (~WellFormed \/ FreePages' = {})
         \/ pc' = (IF IsLinux THEN "open_initrd" ELSE "load_segments") /\ selected_idx < NumEntries
  <2>1. CASE pc' = "press_key" /\ UNCHANGED <<fw, owner>>
    BY <1>0, <2>1 DEF PageInv
  <2>2. CASE /\ selected_idx < NumEntries /\ Booted.kernel \in {"bad_path", "dir"}
             /\ pc' = "panicked" /\ UNCHANGED <<fw, owner>>
    BY <1>0, <2>2, BootedEntry DEF PageInv
  <2>3. CASE /\ selected_idx < NumEntries
             /\ AllocateOrPanic("kernel_file", IF IsLinux THEN "open_initrd" ELSE "load_segments")
    BY <1>0, <2>3, AllocateOrPanicStep
  <2> QED
    BY <2>1, <2>2, <2>3 DEF OpenKernel
<1>3. GoodInputNeverPanics'
  BY <1>1, <1>2 DEF GoodInputNeverPanics
<1>4. MapInv' /\ TableInv' /\ TodoInv'
  BY <1>0, <1>2 DEF OpenKernel, MapInv, TableInv, TodoInv, Leaving
<1>5. LegInv' /\ pc' \in Phases
  BY <1>1, <1>2 DEF LegInv, Phases, LinuxLeg, LimineLeg, Leaving
<1> QED
  BY <1>1, <1>2, <1>3, <1>4, <1>5 DEF BootInv

LEMMA OpenInitrdInv == BootInv /\ OpenInitrd => BootInv'
PROOF
<1> SUFFICES ASSUME BootInv, OpenInitrd PROVE BootInv'
  OBVIOUS
<1>0. /\ MenuInv /\ PageInv /\ TodoInv /\ TableInv /\ MapInv /\ LegInv /\ pc = "open_initrd"
      /\ UNCHANGED <<menuVars, arch, volume>>
  BY DEF BootInv, OpenInitrd
<1>1. MenuInv' /\ IsLinux' = IsLinux /\ NumEntries' = NumEntries /\ selected_idx' = selected_idx
      /\ WellFormed' = WellFormed /\ Booted' = Booted
  BY <1>0, Frame
<1>2. IsLinux /\ selected_idx < NumEntries /\ memmap = NoMap
  BY <1>0 DEF LegInv, MapInv, LinuxLeg, Leaving
<1>3. PageInv' /\ (pc' = "linux_body" \/ (pc' = "panicked" /\ (~WellFormed \/ FreePages' = {})))
  <2>1. CASE ~InitrdOpens(Booted) /\ pc' = "panicked" /\ UNCHANGED <<fw, owner>>
    BY <1>0, <1>2, <2>1, BootedEntry DEF PageInv, IsLinux
  <2>2. CASE pc' = "linux_body" /\ HeapAllocate
    BY <1>0, <2>2, HeapAllocateStep
  <2> QED
    BY <2>1, <2>2 DEF OpenInitrd
<1>4. GoodInputNeverPanics'
  BY <1>1, <1>3 DEF GoodInputNeverPanics
<1>5. MapInv' /\ TableInv' /\ TodoInv'
  BY <1>0, <1>1, <1>2, <1>3 DEF OpenInitrd, MapInv, TableInv, TodoInv, Leaving
<1>6. LegInv' /\ pc' \in Phases
  BY <1>1, <1>2, <1>3 DEF LegInv, Phases, LinuxLeg, LimineLeg, Leaving
<1> QED
  BY <1>1, <1>3, <1>4, <1>5, <1>6 DEF BootInv

LEMMA LinuxBodyInv == BootInv /\ LinuxBody => BootInv'
PROOF
<1> SUFFICES ASSUME BootInv, LinuxBody PROVE BootInv'
  OBVIOUS
<1>0. /\ MenuInv /\ PageInv /\ TodoInv /\ TableInv /\ MapInv /\ LegInv /\ pc = "linux_body"
      /\ UNCHANGED <<menuVars, arch, volume>>
  BY DEF BootInv, LinuxBody
<1>1. MenuInv' /\ IsLinux' = IsLinux /\ NumEntries' = NumEntries /\ selected_idx' = selected_idx
      /\ WellFormed' = WellFormed /\ Booted' = Booted
  BY <1>0, Frame
<1>2. IsLinux /\ selected_idx < NumEntries /\ memmap = NoMap
  BY <1>0 DEF LegInv, MapInv, LinuxLeg, Leaving
<1>3. PageInv' /\ (pc' = "linux_cmdline" \/ (pc' = "panicked" /\ (~WellFormed \/ FreePages' = {})))
  <2>1. CASE Booted.kernel = "malformed" /\ pc' = "panicked" /\ UNCHANGED <<fw, owner>>
    BY <1>0, <1>2, <2>1, BootedEntry DEF PageInv
  <2>2. CASE AllocateOrPanic("kernel", "linux_cmdline")
    BY <1>0, <2>2, AllocateOrPanicStep
  <2> QED
    BY <2>1, <2>2 DEF LinuxBody
<1>4. GoodInputNeverPanics'
  BY <1>1, <1>3 DEF GoodInputNeverPanics
<1>5. MapInv' /\ TableInv' /\ TodoInv'
  BY <1>0, <1>1, <1>2, <1>3 DEF LinuxBody, MapInv, TableInv, TodoInv, Leaving
<1>6. LegInv' /\ pc' \in Phases
  BY <1>1, <1>2, <1>3 DEF LegInv, Phases, LinuxLeg, LimineLeg, Leaving
<1> QED
  BY <1>1, <1>3, <1>4, <1>5, <1>6 DEF BootInv

LEMMA LinuxCmdlineInv == BootInv /\ LinuxCmdline => BootInv'
PROOF
<1> SUFFICES ASSUME BootInv, LinuxCmdline PROVE BootInv'
  OBVIOUS
<1>0. /\ MenuInv /\ PageInv /\ TodoInv /\ TableInv /\ MapInv /\ LegInv /\ pc = "linux_cmdline"
      /\ UNCHANGED <<menuVars, arch, volume>>
  BY DEF BootInv, LinuxCmdline
<1>1. MenuInv' /\ IsLinux' = IsLinux /\ NumEntries' = NumEntries /\ selected_idx' = selected_idx
      /\ WellFormed' = WellFormed /\ Booted' = Booted
  BY <1>0, Frame
<1>2. IsLinux /\ selected_idx < NumEntries /\ memmap = NoMap
  BY <1>0 DEF LegInv, MapInv, LinuxLeg, Leaving
<1>3. /\ PageInv'
      /\ pc' \in {"linux_e820", "linux_initrd"} \/ (pc' = "panicked" /\ (~WellFormed \/ FreePages' = {}))
  BY <1>0, AllocateOrPanicStep DEF LinuxCmdline
<1>4. GoodInputNeverPanics'
  BY <1>1, <1>3 DEF GoodInputNeverPanics
<1>5. MapInv' /\ TableInv' /\ TodoInv'
  BY <1>0, <1>1, <1>2, <1>3 DEF LinuxCmdline, MapInv, TableInv, TodoInv, Leaving
<1>6. LegInv' /\ pc' \in Phases
  BY <1>1, <1>2, <1>3 DEF LegInv, Phases, LinuxLeg, LimineLeg, Leaving
<1> QED
  BY <1>1, <1>3, <1>4, <1>5, <1>6 DEF BootInv

LEMMA LinuxInitrdInv == BootInv /\ LinuxInitrd => BootInv'
PROOF
<1> SUFFICES ASSUME BootInv, LinuxInitrd PROVE BootInv'
  OBVIOUS
<1>0. /\ MenuInv /\ PageInv /\ TodoInv /\ TableInv /\ MapInv /\ LegInv /\ pc = "linux_initrd"
      /\ UNCHANGED <<menuVars, arch, volume>>
  BY DEF BootInv, LinuxInitrd
<1>1. MenuInv' /\ IsLinux' = IsLinux /\ NumEntries' = NumEntries /\ selected_idx' = selected_idx
      /\ WellFormed' = WellFormed /\ Booted' = Booted
  BY <1>0, Frame
<1>2. IsLinux /\ selected_idx < NumEntries /\ memmap = NoMap
  BY <1>0 DEF LegInv, MapInv, LinuxLeg, Leaving
<1>3. PageInv' /\ (pc' = "linux_e820" \/ (pc' = "panicked" /\ (~WellFormed \/ FreePages' = {})))
  BY <1>0, AllocateOrPanicStep DEF LinuxInitrd
<1>4. GoodInputNeverPanics'
  BY <1>1, <1>3 DEF GoodInputNeverPanics
<1>5. MapInv' /\ TableInv' /\ TodoInv'
  BY <1>0, <1>1, <1>2, <1>3 DEF LinuxInitrd, MapInv, TableInv, TodoInv, Leaving
<1>6. LegInv' /\ pc' \in Phases
  BY <1>1, <1>2, <1>3 DEF LegInv, Phases, LinuxLeg, LimineLeg, Leaving
<1> QED
  BY <1>1, <1>3, <1>4, <1>5, <1>6 DEF BootInv

LEMMA LinuxE820Inv == BootInv /\ LinuxE820 => BootInv'
PROOF
<1> SUFFICES ASSUME BootInv, LinuxE820 PROVE BootInv'
  OBVIOUS
<1>0. /\ MenuInv /\ PageInv /\ TodoInv /\ TableInv /\ MapInv /\ LegInv /\ pc = "linux_e820"
      /\ UNCHANGED <<menuVars, arch, volume>>
  BY DEF BootInv, LinuxE820
<1>1. MenuInv' /\ IsLinux' = IsLinux /\ NumEntries' = NumEntries /\ selected_idx' = selected_idx
      /\ WellFormed' = WellFormed /\ Booted' = Booted
  BY <1>0, Frame
<1>2. IsLinux /\ selected_idx < NumEntries /\ memmap = NoMap
  BY <1>0 DEF LegInv, MapInv, LinuxLeg, Leaving
<1>3. PageInv' /\ (pc' = "exit_boot_services" \/ (pc' = "panicked" /\ (~WellFormed \/ FreePages' = {})))
  BY <1>0, AllocateOrPanicStep DEF LinuxE820
<1>4. GoodInputNeverPanics'
  BY <1>1, <1>3 DEF GoodInputNeverPanics
<1>5. MapInv' /\ TableInv' /\ TodoInv'
  BY <1>0, <1>1, <1>2, <1>3 DEF LinuxE820, MapInv, TableInv, TodoInv, Leaving, ToE820
<1>6. LegInv' /\ pc' \in Phases
  BY <1>1, <1>2, <1>3 DEF LegInv, Phases, LinuxLeg, LimineLeg, Leaving
<1> QED
  BY <1>1, <1>3, <1>4, <1>5, <1>6 DEF BootInv

LEMMA LoadKernelSegmentsInv == BootInv /\ LoadKernelSegments => BootInv'
PROOF
<1> SUFFICES ASSUME BootInv, LoadKernelSegments PROVE BootInv'
  OBVIOUS
<1>0. /\ MenuInv /\ PageInv /\ TodoInv /\ TableInv /\ MapInv /\ LegInv /\ pc = "load_segments"
      /\ UNCHANGED <<menuVars, arch, volume>>
  BY DEF BootInv, LoadKernelSegments
<1>1. MenuInv' /\ IsLinux' = IsLinux /\ NumEntries' = NumEntries /\ selected_idx' = selected_idx
      /\ WellFormed' = WellFormed /\ Booted' = Booted
  BY <1>0, Frame
<1>2. ~IsLinux /\ selected_idx < NumEntries
  BY <1>0 DEF LegInv, LimineLeg
<1>3. PageInv' /\ (pc' = "modules" \/ (pc' = "panicked" /\ (~WellFormed \/ FreePages' = {})))
  <2>1. CASE /\ Booted.kernel = "malformed" \/ Booted.protocol = "linux"
             /\ pc' = "panicked" /\ UNCHANGED <<fw, owner>>
    BY <1>0, <1>2, <2>1, BootedEntry DEF PageInv, IsLinux
  <2>2. CASE AllocateOrPanic("kernel", "modules")
    BY <1>0, <2>2, AllocateOrPanicStep
  <2> QED
    BY <2>1, <2>2 DEF LoadKernelSegments
<1>4. GoodInputNeverPanics'
  BY <1>1, <1>3 DEF GoodInputNeverPanics
<1>5. MapInv' /\ TableInv'
  BY <1>0, <1>1, <1>2, <1>3 DEF LoadKernelSegments, MapInv, TableInv, Leaving
<1>6. TodoInv'
  BY <1>0, <1>1, <1>2, BootedEntry DEF LoadKernelSegments, TodoInv, EntryType
<1>7. LegInv' /\ pc' \in Phases
  BY <1>1, <1>2, <1>3 DEF LegInv, Phases, LinuxLeg, LimineLeg, Leaving
<1> QED
  BY <1>1, <1>3, <1>4, <1>5, <1>6, <1>7 DEF BootInv

LEMMA LoadModuleInv == BootInv /\ LoadModule => BootInv'
PROOF
<1> SUFFICES ASSUME BootInv, LoadModule PROVE BootInv'
  OBVIOUS
<1>0. /\ MenuInv /\ PageInv /\ TodoInv /\ TableInv /\ MapInv /\ LegInv /\ pc = "modules"
      /\ UNCHANGED <<menuVars, arch, volume>>
  BY DEF BootInv, LoadModule
<1>1. MenuInv' /\ IsLinux' = IsLinux /\ NumEntries' = NumEntries /\ selected_idx' = selected_idx
      /\ WellFormed' = WellFormed /\ Booted' = Booted
  BY <1>0, Frame
<1>2. ~IsLinux /\ selected_idx < NumEntries
  BY <1>0 DEF LegInv, LimineLeg
<1>t. todo \in Seq(STRING) /\ todo # <<>> /\ todo' = Tail(todo)
  BY <1>0 DEF TodoInv, LoadModule
<1>3. PageInv' /\ (pc' = "modules" \/ (pc' = "panicked" /\ (~WellFormed \/ FreePages' = {})))
  <2>1. CASE Head(todo) = "good" /\ AllocateOrPanic("module", "modules")
    BY <1>0, <2>1, AllocateOrPanicStep
  <2>2. CASE UNCHANGED <<pc, fw, owner>>
    BY <1>0, <2>2 DEF PageInv
  <2>3. CASE Head(todo) = "bad_path" /\ pc' = "panicked" /\ UNCHANGED <<fw, owner>>
    <3>1. 1 \in DOMAIN todo /\ todo[1] = "bad_path"
      BY <1>t, <2>3
    <3>2. \E j \in DOMAIN Booted.modules : Booted.modules[j] = "bad_path"
      BY <1>0, <3>1 DEF TodoInv
    <3> QED
      BY <1>0, <1>2, <2>3, <3>2, BootedEntry DEF PageInv
  <2> QED
    BY <2>1, <2>2, <2>3 DEF LoadModule
<1>4. GoodInputNeverPanics'
  BY <1>1, <1>3 DEF GoodInputNeverPanics
<1>5. MapInv' /\ TableInv'
  BY <1>0, <1>1, <1>2, <1>3 DEF LoadModule, MapInv, TableInv, Leaving
<1>6. TodoInv'
  <2>1. Tail(todo) \in Seq(STRING)
    BY <1>t
  <2>2. \A i \in DOMAIN Tail(todo) : i + 1 \in DOMAIN todo /\ Tail(todo)[i] = todo[i + 1]
    BY <1>t
  <2> QED
    BY <1>0, <1>1, <1>t, <2>1, <2>2 DEF TodoInv
<1>7. LegInv' /\ pc' \in Phases
  BY <1>1, <1>2, <1>3 DEF LegInv, Phases, LinuxLeg, LimineLeg, Leaving
<1> QED
  BY <1>1, <1>3, <1>4, <1>5, <1>6, <1>7 DEF BootInv

LEMMA DiscoverCpusInv == BootInv /\ DiscoverCpus => BootInv'
PROOF
<1> SUFFICES ASSUME BootInv, DiscoverCpus PROVE BootInv'
  OBVIOUS
<1>0. /\ MenuInv /\ PageInv /\ TodoInv /\ TableInv /\ MapInv /\ LegInv /\ pc = "modules"
      /\ UNCHANGED <<menuVars, arch, volume>>
  BY DEF BootInv, DiscoverCpus, bootVars
<1>1. MenuInv' /\ IsLinux' = IsLinux /\ NumEntries' = NumEntries /\ selected_idx' = selected_idx
      /\ WellFormed' = WellFormed /\ Booted' = Booted /\ Mappings(arch)' = Mappings(arch)
  BY <1>0, Frame
<1>2. ~IsLinux /\ selected_idx < NumEntries
  BY <1>0 DEF LegInv, LimineLeg
<1>3. PageInv' /\ pc' = "requests"
  BY <1>0, HeapAllocateStep DEF DiscoverCpus
<1>4. GoodInputNeverPanics'
  BY <1>3 DEF GoodInputNeverPanics
<1>5. MapInv'
  BY <1>0, <1>1, <1>3 DEF DiscoverCpus, MapInv, Leaving
<1>6. TableInv'
  BY <1>0, <1>1, <1>3 DEF DiscoverCpus, TableInv
<1>7. TodoInv'
  BY <1>0, <1>2, <1>3, BootedEntry DEF DiscoverCpus, TodoInv, EntryType
<1>8. LegInv' /\ pc' \in Phases
  BY <1>0, <1>1, <1>2, <1>3 DEF LegInv, Phases, LinuxLeg, LimineLeg, Leaving
<1> QED
  BY <1>1, <1>3, <1>4, <1>5, <1>6, <1>7, <1>8 DEF BootInv

LEMMA FulfillRequestInv == BootInv /\ FulfillRequest => BootInv'
PROOF
<1> SUFFICES ASSUME BootInv, FulfillRequest PROVE BootInv'
  OBVIOUS
<1>0. /\ MenuInv /\ PageInv /\ TodoInv /\ TableInv /\ MapInv /\ LegInv /\ pc = "requests"
      /\ UNCHANGED <<menuVars, arch, volume>>
  BY DEF BootInv, FulfillRequest, bootVars
<1>1. MenuInv' /\ IsLinux' = IsLinux /\ NumEntries' = NumEntries /\ selected_idx' = selected_idx
      /\ WellFormed' = WellFormed /\ Booted' = Booted /\ Mappings(arch)' = Mappings(arch)
  BY <1>0, Frame
<1>2. ~IsLinux /\ selected_idx < NumEntries
  BY <1>0 DEF LegInv, LimineLeg
<1>3. PageInv' /\ pc' = "requests"
  BY <1>0, HeapAllocateStep DEF FulfillRequest
<1>4. GoodInputNeverPanics'
  BY <1>3 DEF GoodInputNeverPanics
<1>5. MapInv'
  <2>1. \A q \in Pages : owner'[q] \in Kept => owner[q] \in Kept
    BY <1>0, HeapAllocateStep DEF FulfillRequest, Kept
  <2>2. CASE memmap' = memmap
    BY <1>0, <1>1, <1>3, <2>1, <2>2 DEF MapInv, Leaving
  <2>3. CASE memmap' = [p \in Pages |-> ToLimine(fw[p])]
    <3>1. \A p \in Pages : owner[p] \in Kept => ToLimine(fw[p]) = "bootloader_reclaimable"
      BY <1>0 DEF PageInv, Kept, ToLimine
    <3>2. memmap' \in [Pages -> {"usable", "bootloader_reclaimable", "reserved"}]
      BY <2>3 DEF ToLimine
    <3> QED
      BY <1>1, <1>3, <2>1, <2>3, <3>1, <3>2 DEF MapInv, Leaving
  <2> QED
    BY <2>2, <2>3 DEF FulfillRequest
<1>6. TableInv'
  BY <1>0, <1>1, <1>3 DEF FulfillRequest, TableInv
<1>7. TodoInv'
  <2>1. Tail(todo) \in Seq(STRING)
    BY <1>0 DEF FulfillRequest, TodoInv
  <2> QED
    BY <1>3, <2>1 DEF FulfillRequest, TodoInv
<1>8. LegInv' /\ pc' \in Phases
  BY <1>0, <1>1, <1>2, <1>3 DEF LegInv, Phases, LinuxLeg, LimineLeg, Leaving
<1> QED
  BY <1>1, <1>3, <1>4, <1>5, <1>6, <1>7, <1>8 DEF BootInv

LEMMA BuildPagingInv == BootInv /\ BuildPaging => BootInv'
PROOF
<1> SUFFICES ASSUME BootInv, BuildPaging PROVE BootInv'
  OBVIOUS
<1>0. /\ MenuInv /\ PageInv /\ TodoInv /\ TableInv /\ MapInv /\ LegInv /\ pc = "requests"
      /\ UNCHANGED <<menuVars, arch, volume>>
  BY DEF BootInv, BuildPaging, bootVars
<1>1. MenuInv' /\ IsLinux' = IsLinux /\ NumEntries' = NumEntries /\ selected_idx' = selected_idx
      /\ WellFormed' = WellFormed /\ Booted' = Booted /\ Mappings(arch)' = Mappings(arch)
  BY <1>0, Frame
<1>2. ~IsLinux /\ selected_idx < NumEntries
  BY <1>0 DEF LegInv, LimineLeg
<1>3. PageInv' /\ (pc' = "exit_boot_services" \/ (pc' = "panicked" /\ (~WellFormed \/ FreePages' = {})))
  BY <1>0, AllocateOrPanicStep DEF BuildPaging
<1>4. GoodInputNeverPanics'
  BY <1>1, <1>3 DEF GoodInputNeverPanics
<1>5. MapInv'
  <2>1. \A q \in Pages : owner'[q] \in Kept => owner[q] \in Kept
    BY <1>0, AllocateOrPanicStep DEF BuildPaging, Kept
  <2> QED
    BY <1>0, <1>1, <1>3, <2>1 DEF BuildPaging, MapInv, Leaving
<1>6. TableInv'
  BY <1>0, <1>1, <1>3 DEF BuildPaging, TableInv, Mappings
<1>7. TodoInv'
  BY <1>0, <1>1, <1>3 DEF BuildPaging, TodoInv
<1>8. LegInv' /\ pc' \in Phases
  BY <1>0, <1>1, <1>2, <1>3 DEF LegInv, Phases, LinuxLeg, LimineLeg, Leaving
<1> QED
  BY <1>1, <1>3, <1>4, <1>5, <1>6, <1>7, <1>8 DEF BootInv

LEMMA ExitBootServicesInv == BootInv /\ ExitBootServices => BootInv'
PROOF
<1> SUFFICES ASSUME BootInv, ExitBootServices PROVE BootInv'
  OBVIOUS
<1>0. /\ MenuInv /\ PageInv /\ TodoInv /\ TableInv /\ MapInv /\ LegInv /\ pc = "exit_boot_services"
      /\ UNCHANGED <<menuVars, arch, volume>>
  BY DEF BootInv, ExitBootServices, bootVars
<1>1. MenuInv' /\ IsLinux' = IsLinux /\ NumEntries' = NumEntries /\ selected_idx' = selected_idx
      /\ WellFormed' = WellFormed /\ Booted' = Booted /\ Mappings(arch)' = Mappings(arch)
  BY <1>0, Frame
<1>2. pc = "press_key" \/ selected_idx < NumEntries
  BY <1>0 DEF LegInv, Leaving
<1>3. PageInv' /\ pc' = "jump"
  BY <1>0 DEF ExitBootServices, bootVars, PageInv
<1>4. GoodInputNeverPanics'
  BY <1>3 DEF GoodInputNeverPanics
<1>5. MapInv'
  BY <1>0, <1>1, <1>3 DEF ExitBootServices, bootVars, MapInv, Leaving
<1>6. TableInv'
  BY <1>0, <1>1, <1>3 DEF ExitBootServices, bootVars, TableInv, Installed
<1>7. TodoInv'
  BY <1>0, <1>3 DEF ExitBootServices, bootVars, TodoInv
<1>8. LegInv' /\ pc' \in Phases
  BY <1>0, <1>1, <1>2, <1>3 DEF LegInv, Phases, LinuxLeg, LimineLeg, Leaving
<1> QED
  BY <1>1, <1>3, <1>4, <1>5, <1>6, <1>7, <1>8 DEF BootInv

LEMMA JumpInv == BootInv /\ Jump => BootInv'
PROOF
<1> SUFFICES ASSUME BootInv, Jump PROVE BootInv'
  OBVIOUS
<1>0. /\ MenuInv /\ PageInv /\ TodoInv /\ TableInv /\ MapInv /\ LegInv /\ pc = "jump"
      /\ UNCHANGED <<menuVars, arch, volume>>
  BY DEF BootInv, Jump, bootVars
<1>1. MenuInv' /\ IsLinux' = IsLinux /\ NumEntries' = NumEntries /\ selected_idx' = selected_idx
      /\ WellFormed' = WellFormed /\ Booted' = Booted /\ Mappings(arch)' = Mappings(arch)
  BY <1>0, Frame
<1>2. pc = "press_key" \/ selected_idx < NumEntries
  BY <1>0 DEF LegInv, Leaving
<1>3. PageInv' /\ pc' = "jumped"
  BY <1>0 DEF Jump, bootVars, PageInv
<1>4. GoodInputNeverPanics'
  BY <1>3 DEF GoodInputNeverPanics
<1>5. MapInv'
  BY <1>0, <1>1, <1>3 DEF Jump, bootVars, MapInv, Leaving
<1>6. TableInv'
  BY <1>0, <1>1, <1>3 DEF Jump, bootVars, TableInv, Installed
<1>7. TodoInv'
  BY <1>0, <1>3 DEF Jump, bootVars, TodoInv
<1>8. LegInv' /\ pc' \in Phases
  BY <1>0, <1>1, <1>2, <1>3 DEF LegInv, Phases, LinuxLeg, LimineLeg, Leaving
<1> QED
  BY <1>1, <1>3, <1>4, <1>5, <1>6, <1>7, <1>8 DEF BootInv

LEMMA PressAnyKeyInv == BootInv /\ PressAnyKey => BootInv'
PROOF
<1> SUFFICES ASSUME BootInv, PressAnyKey PROVE BootInv'
  OBVIOUS
<1>0. /\ MenuInv /\ PageInv /\ TodoInv /\ TableInv /\ MapInv /\ LegInv /\ pc = "press_key"
      /\ UNCHANGED <<menuVars, arch, volume>>
  BY DEF BootInv, PressAnyKey, bootVars
<1>1. MenuInv' /\ IsLinux' = IsLinux /\ NumEntries' = NumEntries /\ selected_idx' = selected_idx
      /\ WellFormed' = WellFormed /\ Booted' = Booted /\ Mappings(arch)' = Mappings(arch)
  BY <1>0, Frame
<1>2. pc = "press_key" \/ selected_idx < NumEntries
  BY <1>0 DEF LegInv, Leaving
<1>3. PageInv' /\ pc' = "returned"
  BY <1>0 DEF PressAnyKey, bootVars, PageInv
<1>4. GoodInputNeverPanics'
  BY <1>3 DEF GoodInputNeverPanics
<1>5. MapInv'
  BY <1>0, <1>1, <1>3 DEF PressAnyKey, bootVars, MapInv, Leaving
<1>6. TableInv'
  BY <1>0, <1>1, <1>3 DEF PressAnyKey, bootVars, TableInv, Installed
<1>7. TodoInv'
  BY <1>0, <1>3 DEF PressAnyKey, bootVars, TodoInv
<1>8. LegInv' /\ pc' \in Phases
  BY <1>0, <1>1, <1>2, <1>3 DEF LegInv, Phases, LinuxLeg, LimineLeg, Leaving
<1> QED
  BY <1>1, <1>3, <1>4, <1>5, <1>6, <1>7, <1>8 DEF BootInv

-----------------------------------------------------------------------------
LEMMA NextInv == BootInv /\ [Next]_vars => BootInv'
PROOF
<1> SUFFICES ASSUME BootInv, [Next]_vars PROVE BootInv'
  OBVIOUS
<1>1. CASE UNCHANGED vars
  <2>1. /\ MenuInv /\ PageInv /\ TodoInv /\ TableInv /\ MapInv /\ LegInv /\ GoodInputNeverPanics /\ pc \in Phases
        /\ UNCHANGED <<menuVars, arch, volume, bootVars, pc>>
    BY <1>1 DEF BootInv, vars, bootVars
  <2>2. MenuInv' /\ IsLinux' = IsLinux /\ NumEntries' = NumEntries /\ selected_idx' = selected_idx
        /\ WellFormed' = WellFormed /\ Booted' = Booted /\ Mappings(arch)' = Mappings(arch)
    BY <2>1, Frame
  <2>3. PageInv' /\ FreePages' = FreePages
    BY <2>1 DEF bootVars, PageInv, FreePages
  <2>4. MapInv' /\ TodoInv'
    BY <2>1, <2>2 DEF bootVars, MapInv, TodoInv
  <2>5. TableInv'
    BY <2>1, <2>2 DEF bootVars, TableInv, Installed
  <2>6. LegInv' /\ GoodInputNeverPanics'
    BY <2>1, <2>2, <2>3 DEF LegInv, GoodInputNeverPanics
  <2> QED
    BY <2>1, <2>2, <2>3, <2>4, <2>5, <2>6 DEF BootInv
<1> QED
  BY <1>1, DiscoverInv, MenuStepInv, OpenKernelInv, OpenInitrdInv, LinuxBodyInv, LinuxCmdlineInv,
     LinuxInitrdInv, LinuxE820Inv, LoadKernelSegmentsInv, LoadModuleInv, DiscoverCpusInv,
     FulfillRequestInv, BuildPagingInv, ExitBootServicesInv, JumpInv, PressAnyKeyInv
  DEF Next, LoaderStep

LEMMA BootInvariant == Spec => []BootInv
PROOF
  BY InitInv, NextInv, PTL DEF Spec

(* zamak-uefi's variables keep their types on every path of the boot, the  *)
(* panics included.                                                        *)
THEOREM BootTyped == Spec => []TypeOK
PROOF
<1>1. BootInv => TypeOK
  BY DEF BootInv, TypeOK, MenuInv, PageInv, MapInv, TableInv, Phases, LinuxLeg, LimineLeg
<1> QED
  BY <1>1, BootInvariant, PTL

(* However many keys are pressed, and however many entries there are, the  *)
(* menu's selection and main's selected_idx stay on an entry.              *)
THEOREM SelectionStays == Spec => []SelectionInRange
PROOF
<1>1. BootInv => SelectionInRange
  BY DEF BootInv, MenuInv
<1> QED
  BY <1>1, BootInvariant, PTL

(* A well-formed configuration panics the loader only where the firmware   *)
(* has no page left to give it.                                            *)
THEOREM PanicsExplained == Spec => []GoodInputNeverPanics
PROOF
<1>1. BootInv => GoodInputNeverPanics
  BY DEF BootInv
<1> QED
  BY <1>1, BootInvariant, PTL

(* fulfill_requests reads the memory map after everything that the kernel  *)
(* keeps was allocated: at the jump no page of it is usable memory.        *)
THEOREM LoadedStaysReserved == Spec => []LoadedNotUsable
PROOF
<1>1. BootInv => LoadedNotUsable
  BY DEF BootInv, MapInv, LoadedNotUsable, Kept, Leaving
<1> QED
  BY <1>1, BootInvariant, PTL

(* On every target but riscv64 the code after the switch of the tables,    *)
(* and the kernel, are mapped when jump_to_kernel leaves the loader.       *)
THEOREM HandoffReached ==
  Spec => [](arch \in {"x86_64", "aarch64", "loongarch64"} => HandoffMapped)
PROOF
<1>1. BootInv => (arch \in {"x86_64", "aarch64", "loongarch64"} => HandoffMapped)
  BY DEF BootInv, TableInv, HandoffMapped, Installed, Mappings
<1> QED
  BY <1>1, BootInvariant, PTL
=============================================================================
