------------------------- MODULE InstallBootProofs -------------------------
(***************************************************************************)
(* Theorems about the installer and the boot sector, for every disk size,  *)
(* every set of images and every memory layout on chunk boundaries, and    *)
(* about the decompressor that may stand before the loader.                *)
(***************************************************************************)
EXTENDS InstallBoot, Decompressor, SequenceTheorems, NaturalsInduction, WellFoundedInduction, TLAPS

(* Sector 0 belongs to the disk, and the loader's slots to memory. *)
LEMMA ZeroSector == 0 \in SectorNo
BY NumSectorsAssumption DEF SectorNo

(* The load address and the loader's own slot are slots of memory. *)
LEMMA Slots ==
  /\ MemSlots \in Nat /\ StartSlot \in Nat /\ RamTop \in Nat /\ Chunk \in Nat
  /\ Chunk > 0 /\ StartSlot > 0 /\ StartSlot < RamTop /\ RamTop <= MemSlots
  /\ CodeSlot \in Nat /\ CodeSlot < StartSlot
  /\ StartSlot \in MemSlot /\ CodeSlot \in MemSlot
BY ChunkAssumption, SlotAssumption DEF MemSlot

(* The fields of the sectors that install composes. *)
LEMMA SectorFields ==
  /\ \A m, l, n : /\ MbrSector(m, l, n)[1] = "mbr"
                  /\ MbrSector(m, l, n)[3] = l
                  /\ MbrSector(m, l, n)[4] = n
  /\ \A v, k : Stage2Sector(v, k)[1] = "stage2"
  /\ Other[1] = "other"
BY DEF MbrSector, Stage2Sector, Other

(* Only a boot sector is taken for one, and its fields are in range. *)
LEMMA MbrFields ==
  ASSUME NEW c \in Content, IsMbr(c)
  PROVE  c[3] \in Nat /\ c[4] \in Nat
<1>1. c # Other
  BY SectorFields DEF IsMbr
<1>2. \A v, k : c # Stage2Sector(v, k)
  BY SectorFields DEF IsMbr
<1>3. PICK m \in MbrFiles, l \in Lbas, n \in 0 .. U16Max : c = MbrSector(m, l, n)
  BY <1>1, <1>2 DEF Content
<1> QED
  BY <1>3, SectorFields, BoundsAssumption

(* What install patches in is a boot sector that names its arguments. *)
LEMMA PatchedSector ==
  ASSUME NEW a \in Args, SectorsOf[a.image] \in 0 .. U16Max
  PROVE  /\ Patched(a) \in Content /\ IsMbr(Patched(a))
         /\ Patched(a)[3] = a.lba /\ Patched(a)[4] = SectorsOf[a.image]
<1>1. a.mbr \in MbrFiles /\ a.lba \in Lbas
  BY DEF Args
<1>2. Patched(a) \in Content
  BY <1>1 DEF Patched, Content
<1> QED
  BY <1>2, SectorFields DEF Patched, IsMbr

(* The sectors of an accepted image are sectors install can produce. *)
LEMMA Stage2Content ==
  ASSUME NEW a \in Args, SectorsOf[a.image] \in 0 .. U16Max,
         NEW k \in Nat, k < SectorsOf[a.image]
  PROVE  Stage2Sector(a.image, k) \in Content
<1>1. a.image \in Images /\ k \in 0 .. U16Max
  BY BoundsAssumption DEF Args
<1> QED
  BY <1>1 DEF Content

-----------------------------------------------------------------------------
(* The inductive invariant.  A run that is writing has passed its checks   *)
(* and has its boot sector and its first done sectors in the host's view;  *)
(* the machine runs only while the host does not.                          *)
Accepted(a) == a \in Args /\ BoundsOk(a) /\ SectorsOf[a.image] \in 1 .. U16Max

OnView(a, n) ==
  /\ View[0] = Patched(a)
  /\ \A k \in 0 .. n - 1 :
       a.lba + k \in SectorNo /\ View[a.lba + k] = Stage2Sector(a.image, k)

InstallInv ==
  /\ boot # "off" => cli = "idle" /\ Clean /\ IsMbr(disk[0])
  /\ cli # "idle" => Accepted(args) /\ result = "none"
  /\ cli = "write_mbr" => done = 0
  /\ cli = "write_stage2" => done <= SectorsOf[args.image] /\ OnView(args, done)
  /\ fresh # NoRun => Accepted(fresh) /\ OnView(fresh, SectorsOf[fresh.image])

(* How far the read loop has got: got sectors are in memory, the next slot *)
(* is on a chunk boundary unless nothing is left, and the loader's code is *)
(* still in place while the segment has not wrapped.                       *)
LoopInv(got) ==
  /\ left <= Stage2Size
  /\ lba = Stage2Lba + got
  /\ left > 0 => \E q \in 0 .. MemSlots : slot = q * Chunk
  /\ Stage2Size <= MemSlots - StartSlot =>
       /\ mem[CodeSlot] = disk[0]
       /\ left > 0 => slot = StartSlot + got
  /\ Stage2Size <= RamTop - StartSlot =>
       \A k \in 0 .. got - 1 : mem[StartSlot + k] = disk[Stage2Lba + k]

LoadInv ==
  /\ boot = "probe" => mem[CodeSlot] = disk[0]
  /\ boot = "read" => LoopInv(Stage2Size - left)
  /\ boot = "jumped" => left = 0 /\ LoopInv(Stage2Size - left)
  /\ LoaderSurvives

IInv == TypeOK /\ InstallInv /\ LoadInv
-----------------------------------------------------------------------------
(* Writing one sector changes the host's view there and nowhere else. *)
LEMMA ViewWrite ==
  ASSUME TypeOK, NEW s \in SectorNo, NEW c \in Content, WriteSector(s, c)
  PROVE  \A t \in SectorNo : View'[t] = IF t = s THEN c ELSE View[t]
BY NamesAssumption DEF WriteSector, TypeOK, View

(* Writing a sector back does not change the host's view. *)
LEMMA ViewWriteback ==
  ASSUME TypeOK, NEW s \in SectorNo, Writeback(s)
  PROVE  View' = View
BY DEF Writeback, TypeOK, View

(* The view is a function of the disk and the cache. *)
LEMMA ViewSame ==
  ASSUME UNCHANGED <<disk, cached>>
  PROVE  View' = View /\ (Clean' <=> Clean)
BY DEF View, Clean

(* With nothing cached the host sees the platter. *)
LEMMA ViewClean ==
  ASSUME Clean, NEW s \in SectorNo
  PROVE  View[s] = disk[s]
BY DEF Clean, View

(* The initial state satisfies the inductive invariant. *)
LEMMA InitIInv == Init => IInv
<1> SUFFICES ASSUME Init PROVE IInv
  OBVIOUS
<1>1. Other \in Content
  BY DEF Content
<1>2. TypeOK
  BY <1>1, Slots, BoundsAssumption DEF Init, DiskInit, InstallInit, LoadInit, TypeOK
<1>3. InstallInv
  BY DEF Init, InstallInit, LoadInit, InstallInv
<1>4. LoadInv
  BY DEF Init, LoadInit, LoadInv, LoaderSurvives
<1> QED
  BY <1>2, <1>3, <1>4 DEF IInv

(* A run goes on to write only with arguments that passed every check. *)
LEMMA VerdictWrite ==
  ASSUME NEW a \in Args, NEW readable \in BOOLEAN, Verdict(a, readable) = "write"
  PROVE  Accepted(a)
<1>1. SectorsOf[a.image] \in Nat
  BY ImagesAssumption DEF Args
<1>2. BoundsOk(a) /\ SectorsOf[a.image] # 0 /\ ~(SectorsOf[a.image] > U16Max)
  BY DEF Verdict
<1> QED
  BY <1>1, <1>2, BoundsAssumption DEF Accepted

(* The verdicts of a run. *)
LEMMA VerdictType ==
  ASSUME NEW a \in Args, NEW readable \in BOOLEAN
  PROVE  Verdict(a, readable) \in {"error", "dry_run", "no_op", "write"}
BY DEF Verdict

(* The numbers of an accepted run. *)
LEMMA AcceptedType ==
  ASSUME NEW a, Accepted(a)
  PROVE  a.lba \in Nat /\ a.lba >= 1 /\ SectorsOf[a.image] \in Nat
<1>1. a.lba \in Lbas /\ 1 <= a.lba
  BY DEF Accepted, BoundsOk, Args
<1>2. a.lba \in Nat
  BY <1>1, BoundsAssumption
<1>3. SectorsOf[a.image] \in 1 .. U16Max
  BY DEF Accepted
<1>4. SectorsOf[a.image] \in Nat
  BY <1>3, BoundsAssumption
<1> QED
  BY <1>1, <1>2, <1>4

(* A step of install keeps the types and what is known of its writes. *)
LEMMA HostStepInv ==
  ASSUME IInv, HostStep
  PROVE  TypeOK' /\ InstallInv'
<1> USE DEF IInv, HostStep, loadVars
<1>0. boot = "off" /\ boot' = "off"
  OBVIOUS
<1>1. ASSUME NEW a \in Args, NEW readable \in BOOLEAN, Start(a, readable)
      PROVE  TypeOK' /\ InstallInv'
  <2>1. View' = View /\ fresh' = fresh
    BY <1>1, ViewSame DEF Start
  <2>2. TypeOK'
    BY <1>1, <2>1, VerdictType, BoundsAssumption DEF Start, TypeOK
  <2>3. cli' # "idle" => Accepted(args') /\ result' = "none" /\ cli' = "write_mbr" /\ done' = 0
    BY <1>1, VerdictWrite DEF Start
  <2> QED
    BY <1>0, <2>1, <2>2, <2>3 DEF InstallInv, OnView
<1>2. CASE WriteMbr
  <2>1. Accepted(args) /\ done = 0
    BY <1>2 DEF InstallInv, WriteMbr
  <2>2. Patched(args) \in Content
    BY <2>1, PatchedSector DEF Accepted
  <2>3. View'[0] = Patched(args)
    BY <1>2, <2>2, ZeroSector, ViewWrite DEF WriteMbr
  <2>4. TypeOK'
    BY <1>2, <2>2, ZeroSector DEF WriteMbr, WriteSector, TypeOK
  <2>5. fresh' \in {fresh, NoRun}
    BY <1>2 DEF WriteMbr
  <2>6. cached' = cached => View' = View
    BY <1>2, ViewSame DEF WriteMbr, WriteSector
  <2>7. fresh' # NoRun => fresh' = fresh /\ View' = View
    BY <1>2, <2>6 DEF WriteMbr
  <2>8. cli' = "write_stage2" /\ done' = 0 /\ args' = args /\ result' = "none"
    BY <1>2, <2>1 DEF WriteMbr, InstallInv
  <2>9. OnView(args, 0)' /\ 0 <= SectorsOf[args.image]
    BY <2>1, <2>3, <2>8 DEF OnView, Patched, Accepted
  <2> QED
    BY <1>0, <2>1, <2>4, <2>7, <2>8, <2>9 DEF InstallInv, OnView
<1>3. CASE WriteStage2
  <2> DEFINE s == args.lba + done
             c == Stage2Sector(args.image, done)
  <2>1. Accepted(args) /\ OnView(args, done)
    BY <1>3 DEF InstallInv, WriteStage2
  <2>2. args.lba \in Nat /\ args.lba >= 1 /\ done \in Nat /\ SectorsOf[args.image] \in Nat
    BY <2>1, AcceptedType DEF TypeOK
  <2>3. s \in SectorNo /\ s # 0
    BY <1>3, <2>2, NumSectorsAssumption DEF WriteStage2, SectorNo
  <2>4. c \in Content
    BY <1>3, <2>1, <2>2, Stage2Content, BoundsAssumption DEF WriteStage2, Accepted
  <2>5. \A t \in SectorNo : View'[t] = IF t = s THEN c ELSE View[t]
    BY <1>3, <2>3, <2>4, ViewWrite DEF WriteStage2
  <2>6. TypeOK'
    BY <1>3, <2>2, <2>3, <2>4 DEF WriteStage2, WriteSector, TypeOK
  <2>7. fresh' # NoRun => fresh' = fresh /\ View' = View
    BY <1>3, ViewSame DEF WriteStage2, WriteSector, InstallInv
  <2>8. cli' = "write_stage2" /\ done' = done + 1 /\ args' = args /\ result' = "none"
    BY <1>3 DEF WriteStage2, InstallInv
  <2>9. View'[0] = Patched(args)
    BY <2>1, <2>3, <2>5, ZeroSector DEF OnView
  <2>10. ASSUME NEW k \in 0 .. done
         PROVE  args.lba + k \in SectorNo /\ View'[args.lba + k] = Stage2Sector(args.image, k)
    <3>1. CASE k = done
      BY <2>3, <2>5, <3>1
    <3>2. CASE k # done
      <4>1. k \in 0 .. done - 1 /\ args.lba + k # s
        BY <2>2, <3>2
      <4> QED
        BY <2>1, <2>5, <4>1 DEF OnView
    <3> QED
      BY <3>1, <3>2
  <2>11. OnView(args, done)'
    BY <2>2, <2>8, <2>9, <2>10 DEF OnView, Patched
  <2>12. done + 1 <= SectorsOf[args.image]
    BY <1>3, <2>2 DEF WriteStage2
  <2> QED
    BY <1>0, <2>1, <2>6, <2>7, <2>8, <2>11, <2>12 DEF InstallInv, OnView
<1>4. CASE Finish
  <2>1. View' = View /\ cli' = "idle" /\ args' = args /\ cached' = cached
    BY <1>4, ViewSame DEF Finish
  <2>2. Accepted(args) /\ OnView(args, SectorsOf[args.image])
    BY <1>4 DEF InstallInv, Finish
  <2>3. TypeOK'
    BY <1>4, <2>2 DEF Finish, TypeOK, Accepted
  <2>4. fresh' = args
    BY <1>4 DEF Finish
  <2> QED
    BY <1>0, <2>1, <2>2, <2>3, <2>4 DEF InstallInv, OnView
<1>5. CASE Abandon
  <2>1. View' = View /\ cli' = "idle" /\ fresh' = fresh
    BY <1>5, ViewSame DEF Abandon
  <2>2. TypeOK'
    BY <1>5, <2>1 DEF Abandon, TypeOK
  <2> QED
    BY <1>0, <2>1, <2>2 DEF InstallInv, OnView
<1> QED
  BY <1>1, <1>2, <1>3, <1>4, <1>5 DEF InstallNext
(* Writeback and a power loss on the host. *)
LEMMA HostCacheInv ==
  ASSUME IInv, HostWriteback \/ PowerLoss
  PROVE  TypeOK' /\ InstallInv'
<1> USE DEF IInv, loadVars, cliVars
<1>1. CASE HostWriteback
  <2>1. PICK s \in SectorNo : Writeback(s)
    BY <1>1 DEF HostWriteback
  <2>2. View' = View
    BY <2>1, ViewWriteback
  <2>3. cached[s] \in Content
    BY <2>1 DEF Writeback, TypeOK
  <2>4. TypeOK'
    BY <1>1, <2>1, <2>3 DEF HostWriteback, Writeback, TypeOK
  <2> QED
    BY <1>1, <2>2, <2>4 DEF HostWriteback, InstallInv, OnView
<1>2. CASE PowerLoss
  <2>1. TypeOK'
    BY <1>2 DEF PowerLoss, DropCache, TypeOK
  <2> QED
    BY <1>2, <2>1 DEF PowerLoss, InstallInv
<1> QED
  BY <1>1, <1>2

(* Nothing the host does while the machine is off concerns the loader. *)
LEMMA OffInv ==
  ASSUME IInv, boot' = "off"
  PROVE  LoadInv'
BY DEF LoadInv, LoaderSurvives

(* The machine leaves the host's state alone. *)
LEMMA MachineInstallInv ==
  ASSUME InstallInv, UNCHANGED <<disk, cached, cliVars, fresh>>,
         boot' # "off" => cli = "idle" /\ Clean /\ IsMbr(disk[0])
  PROVE  InstallInv'
<1>1. View' = View /\ (Clean' <=> Clean)
  BY ViewSame
<1> QED
  BY <1>1 DEF InstallInv, OnView, cliVars

(* Arithmetic of the 16-bit segment register. *)
LEMMA Modulo ==
  ASSUME NEW n \in Nat, n > 0
  PROVE  /\ \A x \in Nat : x % n \in 0 .. n - 1
         /\ \A x \in 0 .. n - 1 : x % n = x
         /\ n % n = 0
OBVIOUS

(* A multiple of c below m * c is followed by one that does not pass it. *)
LEMMA NextMultiple ==
  ASSUME NEW c \in Nat, c > 0, NEW q \in Nat, NEW m \in Nat, q * c < m * c
  PROVE  q < m /\ (q + 1) * c <= m * c /\ (q + 1) * c = q * c + c
OBVIOUS

(* Starting and stopping the machine. *)
LEMMA PowerInv ==
  ASSUME IInv, StartMachine \/ StopMachine
  PROVE  IInv'
<1> USE DEF IInv, cliVars
<1>1. CASE StartMachine
  <2>1. TypeOK'
    BY <1>1, ZeroSector, Slots DEF StartMachine, PowerOn, TypeOK
  <2>2. InstallInv'
    BY <1>1, MachineInstallInv DEF StartMachine, PowerOn
  <2>3. LoadInv'
    BY <1>1, Slots DEF StartMachine, PowerOn, LoadInv, LoaderSurvives
  <2> QED
    BY <2>1, <2>2, <2>3
<1>2. CASE StopMachine
  <2>1. TypeOK'
    BY <1>2, Slots DEF StopMachine, PowerOff, TypeOK
  <2>2. InstallInv'
    BY <1>2, MachineInstallInv DEF StopMachine, PowerOff
  <2>3. LoadInv'
    BY <1>2, OffInv DEF StopMachine, PowerOff
  <2> QED
    BY <2>1, <2>2, <2>3
<1> QED
  BY <1>1, <1>2
(* While the machine runs, sector 0 is a boot sector. *)
LEMMA RunningMbr ==
  ASSUME TypeOK, InstallInv, boot # "off"
  PROVE  Stage2Lba \in Nat /\ Stage2Size \in Nat
<1>1. disk[0] \in Content /\ IsMbr(disk[0])
  BY ZeroSector DEF TypeOK, InstallInv
<1> QED
  BY <1>1, MbrFields DEF Stage2Lba, Stage2Size

(* One extended read of the loop. *)
LEMMA ReadChunkInv ==
  ASSUME IInv, ReadChunk, UNCHANGED disk
  PROVE  /\ mem' \in [MemSlot -> Content \cup {Free}]
         /\ slot' \in MemSlot /\ lba' \in Nat /\ left' \in Nat
         /\ LoopInv(Stage2Size - left)'
<1> DEFINE L == Stage2Lba
           N == Stage2Size
           got == N - left
<1>1. /\ L \in Nat /\ N \in Nat /\ LoopInv(got)
      /\ slot \in Nat /\ slot < MemSlots /\ lba \in Nat /\ left \in Nat /\ left > 0
  BY RunningMbr, Slots DEF IInv, LoadInv, ReadChunk, TypeOK, MemSlot
<1>2. L' = L /\ N' = N
  BY DEF Stage2Lba, Stage2Size
<1>3. Count \in Nat /\ Count > 0 /\ Count <= left /\ Count <= Chunk
      /\ (left - Count > 0 => Count = Chunk)
  BY <1>1, Slots DEF Count
<1>4. lba' = lba + Count /\ left' = left - Count /\ slot' = (slot + Count) % MemSlots
  BY DEF ReadChunk
<1>5. lba' \in Nat /\ left' \in Nat
  BY <1>1, <1>3, <1>4
<1>6. slot' \in MemSlot
  <2>1. slot + Count \in Nat
    BY <1>1, <1>3
  <2> QED
    BY <1>4, <2>1, Modulo, Slots DEF MemSlot
<1>7. \A m \in MemSlot :
        mem'[m] = IF m \in slot .. slot + Count - 1 /\ m < RamTop
                  THEN disk[lba + (m - slot)] ELSE mem[m]
  BY DEF ReadChunk
<1>8. mem' \in [MemSlot -> Content \cup {Free}]
  <2>1. ASSUME NEW m \in MemSlot, m \in slot .. slot + Count - 1
        PROVE  disk[lba + (m - slot)] \in Content
    <3>1. lba + (m - slot) \in SectorNo
      BY <1>1, <1>3, <2>1, Slots, NumSectorsAssumption DEF ReadChunk, SectorNo, MemSlot
    <3> QED
      BY <3>1 DEF IInv, TypeOK
  <2> QED
    BY <2>1 DEF ReadChunk, IInv, TypeOK
<1>9. left' > 0 => \E q \in 0 .. MemSlots : slot' = q * Chunk
  <2> SUFFICES ASSUME left' > 0
               PROVE  \E q \in 0 .. MemSlots : slot' = q * Chunk
    OBVIOUS
  <2>1. PICK q \in 0 .. MemSlots : slot = q * Chunk
    BY <1>1 DEF LoopInv
  <2>2. PICK M \in 0 .. MemSlots : MemSlots = M * Chunk
    BY SlotAssumption
  <2>3. q < M /\ (q + 1) * Chunk <= MemSlots /\ (q + 1) * Chunk = slot + Chunk
    BY <1>1, <2>1, <2>2, NextMultiple, Slots
  <2>4. slot' = (slot + Chunk) % MemSlots
    BY <1>3, <1>4
  <2>5. CASE slot + Chunk < MemSlots
    <3>1. slot' = (q + 1) * Chunk
      BY <1>1, <2>3, <2>4, <2>5, Modulo, Slots
    <3> QED
      BY <2>3, <3>1, Slots
  <2>6. CASE slot + Chunk = MemSlots
    <3>1. slot' = 0
      BY <2>4, <2>6, Modulo, Slots
    <3> QED
      BY <3>1, Slots
  <2> QED
    BY <1>1, <2>3, <2>5, <2>6, Slots
<1>10. N <= MemSlots - StartSlot =>
         /\ mem'[CodeSlot] = disk[0]
         /\ left' > 0 => slot' = StartSlot + (N - left')
  <2> SUFFICES ASSUME N <= MemSlots - StartSlot
               PROVE  /\ mem'[CodeSlot] = disk[0]
                      /\ left' > 0 => slot' = StartSlot + (N - left')
    OBVIOUS
  <2>1. slot = StartSlot + got /\ mem[CodeSlot] = disk[0] /\ left <= N
    BY <1>1 DEF LoopInv
  <2>2. mem'[CodeSlot] = disk[0]
    BY <1>1, <1>3, <1>7, <2>1, Slots
  <2>3. left' > 0 => slot + Count \in 0 .. MemSlots - 1
    BY <1>1, <1>3, <1>4, <2>1, Slots
  <2>4. left' > 0 => slot' = slot + Count
    BY <1>4, <2>3, Modulo, Slots
  <2> QED
    BY <1>1, <1>3, <1>4, <2>1, <2>2, <2>4, Slots
<1>11. N <= RamTop - StartSlot =>
         \A k \in 0 .. N - left' - 1 : mem'[StartSlot + k] = disk[L + k]
  <2> SUFFICES ASSUME N <= RamTop - StartSlot, NEW k \in 0 .. N - left' - 1
               PROVE  mem'[StartSlot + k] = disk[L + k]
    OBVIOUS
  <2>1. N <= MemSlots - StartSlot
    BY <1>1, Slots
  <2>2. slot = StartSlot + got /\ left <= N /\ lba = L + got
    BY <1>1, <2>1 DEF LoopInv
  <2>3. k \in Nat /\ k < got + Count /\ k < N /\ got \in Nat
    BY <1>1, <1>3, <1>4, <2>2
  <2>4. StartSlot + k \in MemSlot /\ StartSlot + k < RamTop
    BY <1>1, <2>3, Slots DEF MemSlot
  <2>5. CASE k < got
    <3>1. StartSlot + k \notin slot .. slot + Count - 1
      BY <1>1, <1>3, <2>2, <2>3, <2>5, Slots
    <3>2. mem'[StartSlot + k] = mem[StartSlot + k]
      BY <1>7, <2>4, <3>1
    <3>3. k \in 0 .. got - 1
      BY <2>3, <2>5
    <3> QED
      BY <1>1, <3>2, <3>3 DEF LoopInv
  <2>6. CASE ~(k < got)
    <3>1. StartSlot + k \in slot .. slot + Count - 1
      BY <1>1, <1>3, <2>2, <2>3, <2>6, Slots
    <3>2. lba + ((StartSlot + k) - slot) = L + k
      BY <1>1, <2>2, <2>3, Slots
    <3> QED
      BY <1>7, <2>4, <3>1, <3>2
  <2> QED
    BY <2>5, <2>6
<1>12. left' <= N /\ lba' = L + (N - left')
  BY <1>1, <1>3, <1>4 DEF LoopInv
<1>13. LoopInv(Stage2Size - left)'
  BY <1>2, <1>9, <1>10, <1>11, <1>12 DEF LoopInv
<1> QED
  BY <1>5, <1>6, <1>8, <1>13
(* Every step of stage 1 keeps the inductive invariant. *)
LEMMA MachineStepInv ==
  ASSUME IInv, MachineStep
  PROVE  IInv'
<1> USE DEF IInv
<1>0. /\ UNCHANGED <<disk, cached, cliVars, fresh>>
      /\ Stage2Lba' = Stage2Lba /\ Stage2Size' = Stage2Size
  BY DEF MachineStep, Stage2Lba, Stage2Size
<1>1. boot # "off" /\ boot' # "off"
  BY DEF MachineStep, LoadStep, CheckExtensions, ReadChunk, ReadError, Jump, Overrun
<1>2. InstallInv'
  BY <1>0, <1>1, MachineInstallInv DEF InstallInv
<1>3. CASE CheckExtensions
  <2>1. mem[CodeSlot] = disk[0] /\ Stage2Lba \in Nat /\ Stage2Size \in Nat
    BY <1>1, <1>3, RunningMbr DEF CheckExtensions, LoadInv
  <2>2. CASE boot' = "halted"
    BY <1>0, <1>2, <1>3, <2>2 DEF CheckExtensions, TypeOK, LoadInv, LoaderSurvives, cliVars
  <2>3. CASE boot' # "halted"
    <3>1. /\ boot' = "read" /\ slot' = StartSlot /\ mem' = mem
          /\ lba' = Stage2Lba /\ left' = Stage2Size
      BY <1>3, <2>1, <2>3 DEF CheckExtensions, Stage2Lba, Stage2Size
    <3>2. TypeOK'
      BY <1>0, <2>1, <3>1, Slots DEF TypeOK, cliVars
    <3>3. \E q \in 0 .. MemSlots : StartSlot = q * Chunk
      BY SlotAssumption, Slots
    <3>4. LoopInv(Stage2Size - left)'
      BY <1>0, <2>1, <3>1, <3>3, Slots DEF LoopInv
    <3> QED
      BY <1>2, <3>1, <3>2, <3>4 DEF LoadInv, LoaderSurvives
  <2> QED
    BY <2>2, <2>3
<1>4. CASE ReadChunk
  <2>1. TypeOK'
    BY <1>0, <1>4, ReadChunkInv DEF ReadChunk, TypeOK, cliVars
  <2> QED
    BY <1>0, <1>2, <1>4, <2>1, ReadChunkInv DEF ReadChunk, LoadInv, LoaderSurvives
<1>5. CASE ReadError
  BY <1>0, <1>2, <1>5 DEF ReadError, TypeOK, LoadInv, LoaderSurvives, cliVars
<1>6. CASE Jump
  <2>1. TypeOK' /\ boot' = "jumped"
    BY <1>0, <1>6 DEF Jump, TypeOK, cliVars
  <2>2. left' = 0 /\ LoopInv(Stage2Size - left)'
    BY <1>0, <1>6 DEF Jump, LoadInv, LoopInv
  <2> QED
    BY <1>2, <2>1, <2>2 DEF LoadInv, LoaderSurvives
<1>7. CASE Overrun
  <2>1. TypeOK' /\ boot' = "wild"
    BY <1>0, <1>7 DEF Overrun, TypeOK, cliVars
  <2>2. IsMbr(disk[0])
    BY <1>1 DEF InstallInv
  <2>3. ~(Stage2Size <= MemSlots - StartSlot)
    BY <1>7, <2>2 DEF Overrun, LoadInv, LoopInv, Intact
  <2>4. Stage2Size > MemSlots - StartSlot
    BY <1>1, <2>3, RunningMbr, Slots
  <2> QED
    BY <1>0, <1>2, <2>1, <2>4 DEF LoadInv, LoaderSurvives
<1> QED
  BY <1>3, <1>4, <1>5, <1>6, <1>7 DEF MachineStep, LoadStep

(* The invariant is inductive. *)
LEMMA NextIInv == IInv /\ [Next]_vars => IInv'
<1> SUFFICES ASSUME IInv, [Next]_vars PROVE IInv'
  OBVIOUS
<1>1. CASE HostStep
  <2>1. boot' = "off"
    BY <1>1 DEF HostStep, loadVars
  <2> QED
    BY <1>1, <2>1, HostStepInv, OffInv DEF IInv
<1>2. CASE HostWriteback \/ PowerLoss
  <2>1. boot' = "off"
    BY <1>2 DEF HostWriteback, PowerLoss, loadVars
  <2> QED
    BY <1>2, <2>1, HostCacheInv, OffInv DEF IInv
<1>3. CASE StartMachine \/ StopMachine
  BY <1>3, PowerInv
<1>4. CASE MachineStep
  BY <1>4, MachineStepInv
<1>5. CASE UNCHANGED vars
  <2>1. /\ UNCHANGED <<disk, cached, cli, args, done, result, runs, boot, mem, slot, lba, left, fresh>>
        /\ View' = View /\ (Clean' <=> Clean)
    BY <1>5, ViewSame DEF vars, cliVars, loadVars
  <2>2. TypeOK'
    BY <2>1 DEF IInv, TypeOK
  <2>3. InstallInv'
    BY <2>1 DEF IInv, InstallInv, OnView
  <2>4. LoadInv'
    BY <2>1 DEF IInv, LoadInv, LoopInv, LoaderSurvives, Stage2Lba, Stage2Size
  <2> QED
    BY <2>2, <2>3, <2>4 DEF IInv
<1> QED
  BY <1>1, <1>2, <1>3, <1>4, <1>5 DEF Next

(* Every reachable state satisfies the inductive invariant. *)
THEOREM Invariance == Spec => []IInv
BY InitIInv, NextIInv, PTL DEF Spec

(* Sectors, memory and program points are well typed in every reachable    *)
(* state of install and stage 1.                                           *)
THEOREM InstallTypes == Spec => []TypeOK
<1>1. IInv => TypeOK
  BY DEF IInv
<1> QED
  BY <1>1, Invariance, PTL

(* The transfers of the read loop stay inside one 64 KiB segment. *)
THEOREM TransfersStayInSegment == Spec => []NoCrossing
<1>1. IInv => NoCrossing
  <2> SUFFICES ASSUME IInv, boot = "read", left > 0
               PROVE  \E b \in 0 .. MemSlots :
                        b * (2 * Chunk) <= slot /\ slot + Count <= (b + 1) * (2 * Chunk)
    BY DEF NoCrossing
  <2>1. PICK q \in 0 .. MemSlots : slot = q * Chunk
    BY DEF IInv, LoadInv, LoopInv
  <2>2. PICK b \in 0 .. MemSlots : q = 2 * b \/ q = 2 * b + 1
    <3>1. q \div 2 \in 0 .. MemSlots /\ (q = 2 * (q \div 2) \/ q = 2 * (q \div 2) + 1)
      BY Slots
    <3> QED
      BY <3>1
  <2>3. Count \in Nat /\ Count <= Chunk
    BY Slots DEF Count, IInv, TypeOK
  <2>4. /\ (2 * b) * Chunk = b * (2 * Chunk)
        /\ (2 * b + 1) * Chunk = b * (2 * Chunk) + Chunk
        /\ (b + 1) * (2 * Chunk) = b * (2 * Chunk) + Chunk + Chunk
    BY Slots
  <2>5. b * (2 * Chunk) <= slot /\ slot + Count <= (b + 1) * (2 * Chunk)
    <3> DEFINE x == b * (2 * Chunk)
               y == (b + 1) * (2 * Chunk)
    <3>1. x \in Nat /\ (slot = x \/ slot = x + Chunk) /\ y = x + Chunk + Chunk
      BY <2>1, <2>2, <2>4, Slots
    <3> HIDE DEF x, y
    <3>2. x <= slot /\ slot + Count <= y
      BY <2>3, <3>1, Slots
    <3> QED
      BY <3>2 DEF x, y
  <2> QED
    BY <2>5
<1> QED
  BY <1>1, Invariance, PTL

(* Stage 1 is not overwritten by a stage 2 below the segment wrap. *)
THEOREM LoaderIsSafe == Spec => []LoaderSurvives
<1>1. IInv => LoaderSurvives
  BY DEF IInv, LoadInv
<1> QED
  BY <1>1, Invariance, PTL

(* Stage 1 jumps to exactly the sectors that its boot sector names. *)
THEOREM LoadsWhole == Spec => []LoadedWhole
<1>1. IInv => LoadedWhole
  <2> SUFFICES ASSUME IInv, boot = "jumped", Stage2Size <= RamTop - StartSlot,
                      NEW k \in 0 .. Stage2Size - 1
               PROVE  mem[StartSlot + k] = disk[Stage2Lba + k]
    BY DEF LoadedWhole
  <2>1. left = 0 /\ LoopInv(Stage2Size - left) /\ Stage2Size \in Nat
    BY RunningMbr DEF IInv, LoadInv
  <2>2. Stage2Size - left = Stage2Size
    BY <2>1
  <2> QED
    BY <2>1, <2>2 DEF LoopInv
<1> QED
  BY <1>1, Invariance, PTL

(* A run of install that made all its writes is what the host sees. *)
THEOREM InstallReachesDisk == Spec => []FreshOnDisk
<1>1. IInv => FreshOnDisk
  BY DEF IInv, InstallInv, OnView, FreshOnDisk
<1> QED
  BY <1>1, Invariance, PTL

(* From the command line to the jump: the machine enters the given image. *)
THEOREM InstallBoots == Spec => []FreshBoots
<1>1. IInv /\ LoadedWhole => FreshBoots
  <2> SUFFICES ASSUME IInv, LoadedWhole, boot = "jumped", fresh # NoRun,
                      SectorsOf[fresh.image] <= RamTop - StartSlot,
                      NEW k \in 0 .. SectorsOf[fresh.image] - 1
               PROVE  mem[StartSlot + k] = Stage2Sector(fresh.image, k)
    BY DEF FreshBoots
  <2>1. Clean /\ Accepted(fresh) /\ OnView(fresh, SectorsOf[fresh.image])
    BY DEF IInv, InstallInv
  <2>2. disk[0] = Patched(fresh)
    BY <2>1, ViewClean, ZeroSector DEF OnView
  <2>3. SectorsOf[fresh.image] \in 0 .. U16Max
    BY <2>1, AcceptedType, BoundsAssumption DEF Accepted
  <2>4. Stage2Lba = fresh.lba /\ Stage2Size = SectorsOf[fresh.image]
    BY <2>1, <2>2, <2>3, PatchedSector DEF Accepted, Stage2Lba, Stage2Size
  <2>5. mem[StartSlot + k] = disk[fresh.lba + k]
    BY <2>4 DEF LoadedWhole
  <2>6. fresh.lba + k \in SectorNo /\ View[fresh.lba + k] = Stage2Sector(fresh.image, k)
    BY <2>1 DEF OnView
  <2> QED
    BY <2>1, <2>5, <2>6, ViewClean
<1> QED
  BY <1>1, Invariance, LoadsWhole, PTL

-----------------------------------------------------------------------------
(***************************************************************************)
(* The decompressor, for every blob, every size of the decoder and every   *)
(* place of the decompressor itself.                                       *)
(***************************************************************************)
DecSpec == DecInit /\ [][DecNext]_dec

Blocks == [at : Nat, size : Nat]

DecStates ==
  [pc : {"entry", "skip", "buffer", "decoder", "inflate", "copy", "jumped", "halted"}, blob : Blobs,
   zeroed : BOOLEAN, skip : Nat, offset : Nat, blocks : Seq(Blocks), buffer : Nat, stage3 : Nat]

(* The blocks lie one after the other below the offset. *)
BlocksInv(blocks, offset) ==
  /\ blocks \in Seq(Blocks) /\ offset \in Nat
  /\ \A i \in DOMAIN blocks :
       /\ blocks[i].at % MAX_ALIGN = 0
       /\ blocks[i].at + blocks[i].size <= HEAP_SIZE
       /\ blocks[i].at + blocks[i].size <= offset
       /\ \A j \in 1..(i - 1) : blocks[j].at + blocks[j].size <= blocks[i].at

(* A stream that can be found: after no header or after a whole one. *)
Findable(b) ==
  b.place = "elsewhere" /\ b.body.kind = "zlib" /\ (b.head = <<>> \/ GzipHeader(b.head))

(* The first buffer of a stream. *)
First(b) == 2 * b.body.len

(* The buffer has been doubled n - 1 times, and what is allocated is at    *)
(* most what Loadable counts for that.                                     *)
Grown(n, state) ==
  /\ n \in DOMAIN Doubled
  /\ state.buffer = First(state.blob) * Doubled[n]
  /\ state.offset <= (2 * state.buffer - First(state.blob)) + n * MAX_ALIGN
                     + (IF state.pc = "decoder" THEN 0 ELSE DecoderBytes)
  /\ state.pc = "decoder" => n = 1 /\ state.offset = state.buffer

DecInv ==
  /\ dec \in DecStates
  /\ BlocksInv(dec.blocks, dec.offset)
  /\ dec.buffer <= HEAP_SIZE
  /\ dec.pc # "entry" => (dec.zeroed <=> dec.blob.place = "after")
  /\ dec.pc \in {"entry", "skip", "buffer"} => dec.offset = 0 /\ dec.blocks = <<>>
  /\ dec.pc \notin {"entry", "skip"} =>
       /\ dec.skip <= Length(dec.blob)
       /\ Findable(dec.blob) => dec.skip = Len(dec.blob.head)
  /\ dec.pc \in {"decoder", "inflate"} /\ Loadable(dec.blob) => \E n : Grown(n, dec)
  /\ dec.pc \in {"copy", "jumped"} =>
       /\ dec.blob.body.kind = "zlib" /\ dec.blob.place = "elsewhere"
       /\ dec.blob.body.out <= dec.buffer
  /\ dec.pc = "jumped" => dec.stage3 = dec.blob.body.out
  /\ dec.pc = "halted" => ~Loadable(dec.blob)

-----------------------------------------------------------------------------
LEMMA BlobTyped ==
  ASSUME NEW b \in Blobs
  PROVE  /\ b.head \in Seq(0..255) /\ Len(b.head) \in Nat /\ DOMAIN b.head = 1..Len(b.head)
         /\ b.body.len \in Nat /\ b.body.out \in Nat /\ Length(b) \in Nat
         /\ Length(b) = Len(b.head) + b.body.len
         /\ b.place \in {"after", "elsewhere"}
         /\ b.body.kind = "zlib" => b.body.len > 0
PROOF
<1>1. b \in [head : Seq(0..255), body : [kind : {"zlib", "deflate", "broken"}, len : Nat, out : Nat],
             place : {"after", "elsewhere"}]
  BY DecompressorAssumption
<1>2. b.head \in Seq(0..255) /\ b.place \in {"after", "elsewhere"}
  BY <1>1
<1>3. b.body.len \in Nat /\ b.body.out \in Nat
  BY <1>1
<1>4. b.body.kind = "zlib" => b.body.len > 0
  BY DecompressorAssumption
<1> HIDE DecompressorAssumption
<1>5. Len(b.head) \in Nat /\ DOMAIN b.head = 1..Len(b.head)
  BY <1>2
<1> QED
  BY <1>2, <1>3, <1>4, <1>5 DEF Length

(* A set of numbers has a least one. *)
LEMMA LeastOf ==
  ASSUME NEW T, T \subseteq Nat, T # {}
  PROVE  LET x == CHOOSE i \in T : \A j \in T : i <= j IN x \in T /\ \A y \in T : x <= y
PROOF
<1> DEFINE R == OpToRel(<, Nat)
<1>1. IsWellFoundedOn(R, Nat)
  BY NatLessThanWellFounded
<1>2. \A x, y \in Nat : y < x => <<y, x>> \in R
  BY DEF OpToRel
<1> HIDE DEF R
<1>3. PICK x \in T : \A y \in T : ~(<<y, x>> \in R)
  BY <1>1, WFMin
<1>4. ASSUME NEW y \in T PROVE x <= y
  <2>1. x \in Nat /\ y \in Nat /\ ~(y < x)
    BY <1>2, <1>3, Zenon
  <2> QED
    BY <2>1
<1> QED
  BY <1>4

(* The end of a field that ends with a NUL is found, and a field without   *)
(* one ends past the blob.                                                 *)
LEMMA AfterNulFound ==
  ASSUME NEW b \in Blobs, NEW offset \in Nat
  PROVE  /\ AfterNul(b, offset) \in Nat
         /\ \A to \in Nat : /\ to > offset /\ to <= Len(b.head) /\ b.head[to] = 0
                            /\ \A i \in (offset + 1)..(to - 1) : b.head[i] # 0
                            => AfterNul(b, offset) = to
PROOF
<1> DEFINE nuls == {i \in offset..(Len(b.head) - 1) : ByteAt(b, i) = 0}
           least == CHOOSE i \in nuls : \A j \in nuls : i <= j
           past == IF offset < Length(b) THEN Length(b) ELSE offset
<1>1. Len(b.head) \in Nat /\ Length(b) \in Nat
  BY BlobTyped
<1>2. nuls \subseteq Nat
  BY <1>1
<1>3. nuls # {} => least \in nuls /\ \A y \in nuls : least <= y
  <2> HIDE DEF nuls
  <2> QED
    BY <1>2, LeastOf
<1>4. AfterNul(b, offset) = 1 + IF nuls = {} THEN past ELSE least
  BY DEF AfterNul
<1>5. \A i \in offset..(Len(b.head) - 1) : ByteAt(b, i) = b.head[i + 1]
  BY <1>1 DEF ByteAt
<1>6. past \in Nat
  BY <1>1
<1>7. ASSUME NEW to \in Nat, to > offset, to <= Len(b.head), b.head[to] = 0,
             \A i \in (offset + 1)..(to - 1) : b.head[i] # 0
      PROVE  AfterNul(b, offset) = to
  <2>1. to - 1 \in offset..(Len(b.head) - 1) /\ (to - 1) + 1 = to
    BY <1>1, <1>7
  <2>2. to - 1 \in nuls
    BY <1>5, <1>7, <2>1
  <2>3. \A i \in nuls : i >= to - 1
    <3> SUFFICES ASSUME NEW i \in nuls, i < to - 1 PROVE FALSE
      BY <1>1, <1>2
    <3>1. i \in offset..(Len(b.head) - 1) /\ b.head[i + 1] = 0
      BY <1>5
    <3>2. i + 1 \in (offset + 1)..(to - 1)
      BY <1>1, <3>1
    <3> QED
      BY <1>7, <3>1, <3>2
  <2> HIDE DEF nuls, least
  <2>4. least \in nuls /\ least <= to - 1 /\ least >= to - 1 /\ least \in Nat
    BY <1>2, <1>3, <2>2, <2>3
  <2>5. least = to - 1
    BY <2>4
  <2> QED
    BY <1>4, <2>2, <2>5
<1> HIDE DEF nuls, least, past
<1>8. AfterNul(b, offset) \in Nat
  <2>1. CASE nuls = {}
    <3>1. AfterNul(b, offset) = 1 + past
      BY <1>4, <2>1
    <3> QED
      BY <1>6, <3>1
  <2>2. CASE nuls # {}
    <3>1. AfterNul(b, offset) = 1 + least /\ least \in Nat
      BY <1>2, <1>3, <1>4, <2>2
    <3> QED
      BY <3>1
  <2> QED
    BY <2>1, <2>2
<1> QED
  BY <1>7, <1>8

LEMMA ByteTyped == ASSUME NEW b \in Blobs, NEW i \in Nat PROVE ByteAt(b, i) \in 0..255
PROOF
<1>1. b.head \in Seq(0..255) /\ Len(b.head) \in Nat
  BY BlobTyped
<1>2. CASE i < Len(b.head)
  <2>1. i + 1 \in 1..Len(b.head)
    BY <1>1, <1>2
  <2>2. b.head[i + 1] \in 0..255
    <3> DEFINE B == 0..255
    <3>1. b.head \in Seq(B)
      BY <1>1
    <3> HIDE DEF B
    <3>2. b.head[i + 1] \in B
      BY <2>1, <3>1
    <3> QED
      BY <3>2 DEF B
  <2> QED
    BY <1>2, <2>2 DEF ByteAt
<1>3. CASE ~(i < Len(b.head))
  BY <1>3 DEF ByteAt
<1> QED
  BY <1>2, <1>3

LEMMA HeaderEndTyped == ASSUME NEW b \in Blobs PROVE HeaderEnd(b) \in Nat
PROOF
<1> DEFINE flags == ByteAt(b, 3)
           extra == IF Bit(flags, 2) THEN 12 + ExtraBytes(b) ELSE 10
           name == IF Bit(flags, 3) THEN AfterNul(b, extra) ELSE extra
           comment == IF Bit(flags, 4) THEN AfterNul(b, name) ELSE name
<1>1. ByteAt(b, 10) \in 0..255 /\ ByteAt(b, 11) \in 0..255
  BY ByteTyped
<1>2. ExtraBytes(b) \in Nat
  <2> DEFINE u == ByteAt(b, 10)
             v == ByteAt(b, 11)
  <2> HIDE DEF u, v
  <2>1. u \in Nat /\ v \in Nat
    BY <1>1 DEF u, v
  <2>2. u + 256 * v \in Nat
    BY <2>1
  <2> QED
    BY <2>2 DEF u, v, ExtraBytes
<1>3. extra \in Nat
  BY <1>2
<1> HIDE DEF extra
<1>4. name \in Nat
  BY <1>3, AfterNulFound
<1> HIDE DEF name
<1>5. comment \in Nat
  BY <1>4, AfterNulFound
<1> HIDE DEF comment
<1>6. HeaderEnd(b) = IF Bit(flags, 1) THEN comment + 2 ELSE comment
  BY DEF HeaderEnd, comment, name, extra
<1> QED
  BY <1>5, <1>6

(* Through every combination of optional fields, a whole header ends where *)
(* the stream begins.                                                      *)
LEMMA HeaderEndExact ==
  ASSUME NEW b \in Blobs, GzipHeader(b.head)
  PROVE  /\ Len(b.head) >= 10 /\ ByteAt(b, 0) = 31 /\ ByteAt(b, 1) = 139
         /\ Bit(ByteAt(b, 3), 2) => Len(b.head) >= 12
         /\ HeaderEnd(b) = Len(b.head)
PROOF
<1> DEFINE h == b.head
           Has(bit) == Bit(h[4], bit)
           Text(from, to) == to > from /\ h[to] = 0 /\ \A i \in (from + 1)..(to - 1) : h[i] # 0
           flags == ByteAt(b, 3)
           extra == IF Bit(flags, 2) THEN 12 + ExtraBytes(b) ELSE 10
           name == IF Bit(flags, 3) THEN AfterNul(b, extra) ELSE extra
           comment == IF Bit(flags, 4) THEN AfterNul(b, name) ELSE name
<1>1. /\ Len(h) >= 10 /\ h[1] = 31 /\ h[2] = 139
      /\ Has(2) => Len(h) >= 12
  BY DEF GzipHeader
<1>2. PICK x, n, c \in 10..Len(h) :
         /\ x = IF Has(2) THEN 12 + h[11] + 256 * h[12] ELSE 10
         /\ IF Has(3) THEN Text(x, n) ELSE n = x
         /\ IF Has(4) THEN Text(n, c) ELSE c = n
         /\ Len(h) = IF Has(1) THEN c + 2 ELSE c
  BY DEF GzipHeader
<1>3. Len(h) \in Nat /\ x \in Nat /\ n \in Nat /\ c \in Nat /\ n <= Len(h) /\ c <= Len(h)
  BY <1>2, BlobTyped, SMTT(30)
<1>4. ByteAt(b, 0) = h[1] /\ ByteAt(b, 1) = h[2] /\ flags = h[4]
  BY <1>1, <1>3 DEF ByteAt
<1>5. Has(2) => ByteAt(b, 10) = h[11] /\ ByteAt(b, 11) = h[12]
  BY <1>1, <1>3 DEF ByteAt
<1>6. extra = x
  <2>1. CASE Has(2)
    <3> DEFINE u == h[11]
               v == h[12]
    <3>1. u \in 0..255 /\ v \in 0..255
      <4>1. ByteAt(b, 10) \in 0..255 /\ ByteAt(b, 11) \in 0..255
        BY ByteTyped
      <4> QED
        BY <1>5, <2>1, <4>1
    <3>2. ExtraBytes(b) = u + 256 * v /\ x = 12 + u + 256 * v /\ extra = 12 + ExtraBytes(b)
      BY <1>2, <1>4, <1>5, <2>1 DEF ExtraBytes
    <3> HIDE DEF u, v
    <3> QED
      BY <3>1, <3>2
  <2>2. CASE ~Has(2)
    BY <1>2, <1>4, <2>2
  <2> QED
    BY <2>1, <2>2
<1> HIDE DEF extra
<1>7. name = n
  <2>1. CASE Has(3)
    BY <1>2, <1>3, <1>4, <1>6, <2>1, AfterNulFound
  <2>2. CASE ~Has(3)
    BY <1>2, <1>4, <1>6, <2>2
  <2> QED
    BY <2>1, <2>2
<1> HIDE DEF name
<1>8. comment = c
  <2>1. CASE Has(4)
    BY <1>2, <1>3, <1>4, <1>7, <2>1, AfterNulFound
  <2>2. CASE ~Has(4)
    BY <1>2, <1>4, <1>7, <2>2
  <2> QED
    BY <2>1, <2>2
<1> HIDE DEF comment
<1>9. HeaderEnd(b) = IF Bit(flags, 1) THEN comment + 2 ELSE comment
  BY DEF HeaderEnd, comment, name, extra
<1>10. HeaderEnd(b) = Len(h)
  BY <1>2, <1>4, <1>8, <1>9
<1> QED
  BY <1>1, <1>4, <1>10

LEMMA SkipFinds ==
  ASSUME NEW b \in Blobs
  PROVE  /\ SkipGzipHeader(b) \in Nat /\ SkipGzipHeader(b) <= Length(b)
         /\ Findable(b) => SkipGzipHeader(b) = Len(b.head)
PROOF
<1>1. Length(b) \in Nat /\ Len(b.head) \in Nat /\ Length(b) = Len(b.head) + b.body.len
      /\ b.body.len \in Nat /\ (b.body.kind = "zlib" => b.body.len > 0)
  BY BlobTyped
<1>2. HeaderEnd(b) \in Nat
  BY HeaderEndTyped
<1>3. SkipGzipHeader(b) \in Nat /\ SkipGzipHeader(b) <= Length(b)
  <2>1. \/ SkipGzipHeader(b) = 0
        \/ SkipGzipHeader(b) = HeaderEnd(b) /\ ~(HeaderEnd(b) >= Length(b))
    BY Zenon DEF SkipGzipHeader
  <2> QED
    BY <1>1, <1>2, <2>1
<1>4. ASSUME Findable(b) PROVE SkipGzipHeader(b) = Len(b.head)
  <2>0. b.body.len > 0
    BY <1>1, <1>4 DEF Findable
  <2>1. CASE b.head = <<>>
    <3>1. Len(b.head) = 0
      BY <2>1
    <3>2. ByteAt(b, 0) # 31
      BY <3>1 DEF ByteAt
    <3>3. SkipGzipHeader(b) = 0
      <4>1. CASE Length(b) < 10
        BY <4>1 DEF SkipGzipHeader
      <4>2. CASE Length(b) >= 10 /\ ~(Length(b) < 10)
        BY <3>2, <4>2, Zenon DEF SkipGzipHeader
      <4> QED
        BY <1>1, <4>1, <4>2
    <3> QED
      BY <3>1, <3>3
  <2>2. CASE GzipHeader(b.head)
    <3>1. /\ Len(b.head) >= 10 /\ ByteAt(b, 0) = 31 /\ ByteAt(b, 1) = 139
          /\ Bit(ByteAt(b, 3), 2) => Len(b.head) >= 12
          /\ HeaderEnd(b) = Len(b.head)
      BY <2>2, HeaderEndExact
    <3>2. ~(Length(b) < 10) /\ ~(Bit(ByteAt(b, 3), 2) /\ Length(b) < 12) /\ ~(HeaderEnd(b) >= Length(b))
      BY <1>1, <2>0, <3>1
    <3>3. SkipGzipHeader(b) = HeaderEnd(b)
      BY <3>1, <3>2, Zenon DEF SkipGzipHeader
    <3> QED
      BY <3>1, <3>3
  <2> QED
    BY <1>4, <2>1, <2>2 DEF Findable
<1> QED
  BY <1>3, <1>4

-----------------------------------------------------------------------------
(* A block is aligned and lies at most fifteen bytes after the offset. *)
LEMMA AllocFacts ==
  ASSUME NEW offset \in Nat, NEW size \in Nat
  PROVE  LET a == Alloc(offset, size, 1)
         IN /\ a.at \in Nat /\ a.at % MAX_ALIGN = 0 /\ a.at >= offset /\ a.at <= offset + 15
            /\ a.offset = a.at + size /\ a.offset \in Nat
            /\ a.ok <=> a.at + size <= HEAP_SIZE
            /\ offset = 0 => a.at = 0
PROOF
<1> DEFINE q == (offset + 15) \div 16
           at == q * 16
<1>1. q \in Nat /\ at \in Nat /\ at >= offset /\ at <= offset + 15 /\ (offset = 0 => at = 0)
  OBVIOUS
<1>2. at % 16 = 0
  <2> HIDE DEF q
  <2> QED
    BY <1>1
<1>3. AlignedUp(offset, 16) = at
  <2>1. offset + 16 - 1 = offset + 15
    OBVIOUS
  <2> QED
    BY <2>1 DEF AlignedUp
<1> HIDE DEF at
<1>4. Alloc(offset, size, 1) = [ok |-> at + size <= HEAP_SIZE, at |-> at, offset |-> at + size]
  BY <1>3 DEF Alloc, MAX_ALIGN
<1> DEFINE a == Alloc(offset, size, 1)
           ok == at + size <= HEAP_SIZE
<1>5. a.at = at /\ a.offset = at + size
  BY <1>4
<1>6. a.ok = ok
  <2> HIDE DEF ok
  <2>1. a = [ok |-> ok, at |-> at, offset |-> at + size]
    BY <1>4 DEF ok
  <2> HIDE DEF a
  <2> QED
    BY <2>1, Zenon
<1>7. at + size \in Nat
  BY <1>1
<1> HIDE DEF a
<1>8. a.ok <=> at + size <= HEAP_SIZE
  BY <1>6, Zenon
<1> QED
  BY <1>1, <1>2, <1>5, <1>7, <1>8 DEF MAX_ALIGN, a

LEMMA BlocksAppend ==
  ASSUME NEW blocks, NEW offset, BlocksInv(blocks, offset), NEW at \in Nat, NEW size \in Nat,
         at % MAX_ALIGN = 0, at >= offset, at + size <= HEAP_SIZE
  PROVE  BlocksInv(Append(blocks, [at |-> at, size |-> size]), at + size)
PROOF
<1> DEFINE x == [at |-> at, size |-> size]
           more == Append(blocks, x)
<1>1. blocks \in Seq(Blocks) /\ offset \in Nat
  BY DEF BlocksInv
<1>2. x \in Blocks /\ x.at = at /\ x.size = size
  BY DEF Blocks
<1> HIDE DEF x
<1>3. more \in Seq(Blocks) /\ Len(blocks) \in Nat /\ DOMAIN blocks = 1..Len(blocks)
      /\ DOMAIN more = 1..(Len(blocks) + 1) /\ more[Len(blocks) + 1] = x
      /\ \A i \in 1..Len(blocks) : more[i] = blocks[i]
  BY <1>1, <1>2
<1> HIDE DEF more
<1>4. \A i \in 1..Len(blocks) : blocks[i].at \in Nat /\ blocks[i].size \in Nat
  <2>1. \A i \in 1..Len(blocks) : blocks[i] \in Blocks
    BY <1>1, <1>3
  <2> QED
    BY <2>1 DEF Blocks
<1>5. ASSUME NEW i \in DOMAIN more
      PROVE  /\ more[i].at % MAX_ALIGN = 0
             /\ more[i].at + more[i].size <= HEAP_SIZE
             /\ more[i].at + more[i].size <= at + size
             /\ \A j \in 1..(i - 1) : more[j].at + more[j].size <= more[i].at
  <2>1. CASE i = Len(blocks) + 1
    <3>1. \A j \in 1..(i - 1) : j \in 1..Len(blocks)
      BY <1>3, <2>1
    <3>2. \A j \in 1..Len(blocks) : blocks[j].at + blocks[j].size <= offset
      BY <1>3 DEF BlocksInv
    <3>3. \A j \in 1..(i - 1) : more[j].at + more[j].size <= at
      BY <1>1, <1>3, <1>4, <3>1, <3>2
    <3> QED
      BY <1>2, <1>3, <2>1, <3>3
  <2>2. CASE i # Len(blocks) + 1
    <3>1. i \in DOMAIN blocks /\ \A j \in 1..(i - 1) : j \in 1..Len(blocks)
      BY <1>3, <2>2
    <3>2. /\ blocks[i].at % MAX_ALIGN = 0
          /\ blocks[i].at + blocks[i].size <= HEAP_SIZE
          /\ blocks[i].at + blocks[i].size <= offset
          /\ \A j \in 1..(i - 1) : blocks[j].at + blocks[j].size <= blocks[i].at
      BY <3>1 DEF BlocksInv
    <3>3. blocks[i].at + blocks[i].size <= at + size
      BY <1>1, <1>3, <1>4, <3>1, <3>2
    <3> QED
      BY <1>3, <3>1, <3>2, <3>3
  <2> QED
    BY <2>1, <2>2
<1>6. at + size \in Nat
  OBVIOUS
<1>7. BlocksInv(more, at + size)
  BY <1>3, <1>5, <1>6 DEF BlocksInv
<1> QED
  BY <1>7 DEF more, x

LEMMA DoubledValues ==
  /\ DOMAIN Doubled = 1..19
  /\ Doubled[1] = 1
  /\ \A n \in 1..19 : Doubled[n] \in Nat /\ Doubled[n] >= 1
  /\ \A n \in 1..18 : Doubled[n + 1] = 2 * Doubled[n]
  /\ \A n, k \in 1..19 : n >= k => Doubled[n] >= Doubled[k]
PROOF
<1>1. DOMAIN Doubled = 1..19
  BY DEF Doubled
<1>2. Doubled[1] = 1 /\ Doubled[2] = 2 /\ Doubled[3] = 4 /\ Doubled[4] = 8 /\ Doubled[5] = 16
      /\ Doubled[6] = 32 /\ Doubled[7] = 64 /\ Doubled[8] = 128 /\ Doubled[9] = 256
      /\ Doubled[10] = 512
  BY DEF Doubled
<1>3. Doubled[11] = 1024 /\ Doubled[12] = 2048 /\ Doubled[13] = 4096 /\ Doubled[14] = 8192
      /\ Doubled[15] = 16384 /\ Doubled[16] = 32768 /\ Doubled[17] = 65536 /\ Doubled[18] = 131072
      /\ Doubled[19] = 262144
  BY DEF Doubled
<1>4. \A n \in 1..19 : Doubled[n] \in Nat /\ Doubled[n] >= 1
  BY <1>2, <1>3
<1>5. \A n \in 1..18 : Doubled[n + 1] = 2 * Doubled[n]
  BY <1>2, <1>3
<1>6. ASSUME NEW n \in 1..19, NEW k \in 1..19, n >= k PROVE Doubled[n] >= Doubled[k]
  BY <1>2, <1>3, <1>6
<1> QED
  BY <1>1, <1>2, <1>4, <1>5, <1>6

(* What a loadable blob leaves room for: the first buffer, the decoder,    *)
(* and each doubling that is still needed.                                 *)
LEMMA RoomToGrow ==
  ASSUME NEW b \in Blobs, Loadable(b)
  PROVE  LET first == First(b)
         IN /\ first \in Nat /\ first > 0
            /\ first + 32 + DecoderBytes <= HEAP_SIZE
            /\ \A n \in 1..19 : b.body.out > first * Doubled[n] =>
                 /\ n + 1 \in 1..19
                 /\ first * Doubled[n + 1] = 2 * (first * Doubled[n])
                 /\ (2 * (2 * (first * Doubled[n])) - first) + (n + 1) * 16 + DecoderBytes + 16 <= HEAP_SIZE
PROOF
<1> DEFINE first == First(b)
<1>1. b.body.len \in Nat /\ b.body.out \in Nat /\ DecoderBytes \in Nat
  BY BlobTyped, DecompressorAssumption
<1>2. b.body.len > 0
  BY BlobTyped DEF Loadable
<1>3. first \in Nat /\ first > 0
  BY <1>1, <1>2 DEF First
<1>4. PICK k \in DOMAIN Doubled :
        /\ b.body.out <= first * Doubled[k]
        /\ (2 * (first * Doubled[k]) - first) + k * MAX_ALIGN + DecoderBytes + MAX_ALIGN <= HEAP_SIZE
  BY DEF Loadable, First
<1> HIDE DEF first
<1>5. k \in 1..19 /\ Doubled[k] \in Nat /\ Doubled[k] >= 1
  BY DoubledValues
<1>6. first * Doubled[k] \in Nat /\ first * Doubled[k] >= first
  BY <1>3, <1>5
<1>7. first + 32 + DecoderBytes <= HEAP_SIZE
  <2> DEFINE last == first * Doubled[k]
  <2> HIDE DEF last
  <2>1. last \in Nat /\ last >= first /\ (2 * last - first) + k * 16 + DecoderBytes + 16 <= HEAP_SIZE
    BY <1>4, <1>6 DEF last, MAX_ALIGN
  <2> QED
    BY <1>1, <1>3, <1>5, <2>1 DEF HEAP_SIZE
<1>8. ASSUME NEW n \in 1..19, b.body.out > first * Doubled[n]
      PROVE  /\ n + 1 \in 1..19
             /\ first * Doubled[n + 1] = 2 * (first * Doubled[n])
             /\ (2 * (2 * (first * Doubled[n])) - first) + (n + 1) * 16 + DecoderBytes + 16 <= HEAP_SIZE
  <2>1. Doubled[n] \in Nat /\ first * Doubled[n] \in Nat
    BY <1>3, DoubledValues, SMTT(30)
  <2>2. n < k
    <3> SUFFICES ASSUME n >= k PROVE FALSE
      BY <1>5
    <3>1. Doubled[n] >= Doubled[k]
      BY <1>5, DoubledValues
    <3>2. first * Doubled[n] >= first * Doubled[k]
      BY <1>3, <1>5, <2>1, <3>1
    <3> QED
      BY <1>1, <1>4, <1>6, <1>8, <2>1, <3>2
  <2>3. n \in 1..18 /\ n + 1 \in 1..19 /\ n + 1 <= k
    BY <1>5, <2>2
  <2>4. Doubled[n + 1] = 2 * Doubled[n] /\ Doubled[k] >= Doubled[n + 1]
    BY <1>5, <2>3, DoubledValues
  <2>5. first * Doubled[n + 1] = 2 * (first * Doubled[n])
    BY <1>3, <2>1, <2>4
  <2>6. first * Doubled[k] >= 2 * (first * Doubled[n])
    <3>1. Doubled[n + 1] \in Nat
      BY <2>1, <2>4
    <3>2. first * Doubled[k] >= first * Doubled[n + 1]
      BY <1>3, <1>5, <2>4, <3>1
    <3> QED
      BY <2>5, <3>2
  <2> DEFINE l == first * Doubled[k]
             m == first * Doubled[n]
  <2>7. l \in Nat /\ m \in Nat /\ l >= 2 * m
        /\ (2 * l - first) + k * 16 + DecoderBytes + 16 <= HEAP_SIZE
    BY <1>4, <1>6, <2>1, <2>6 DEF MAX_ALIGN
  <2> HIDE DEF l, m
  <2>8. (2 * (2 * m) - first) + (n + 1) * 16 + DecoderBytes + 16 <= HEAP_SIZE
    BY <1>1, <1>3, <1>5, <2>3, <2>7 DEF HEAP_SIZE
  <2> QED
    BY <2>3, <2>5, <2>8 DEF m
<1> QED
  BY <1>3, <1>7, <1>8 DEF first

-----------------------------------------------------------------------------
LEMMA DecInitInv == DecInit => DecInv
PROOF
<1> SUFFICES ASSUME DecInit PROVE DecInv
  OBVIOUS
<1>1. PICK b \in Blobs :
        dec = [pc |-> "entry", blob |-> b, zeroed |-> FALSE, skip |-> 0, offset |-> 0,
               blocks |-> <<>>, buffer |-> 0, stage3 |-> 0]
  BY DEF DecInit
<1>2. <<>> \in Seq(Blocks) /\ 0 \in Nat /\ DOMAIN <<>> = {} /\ 0 <= HEAP_SIZE
  BY DEF HEAP_SIZE
<1>3. dec \in DecStates
  BY <1>1, <1>2, Zenon DEF DecStates
<1>4. dec.pc = "entry" /\ dec.offset = 0 /\ dec.blocks = <<>> /\ dec.buffer = 0
  BY <1>1
<1>5. BlocksInv(<<>>, 0)
  BY <1>2 DEF BlocksInv
<1> QED
  BY <1>2, <1>3, <1>4, <1>5 DEF DecInv

LEMMA EnterInv == DecInv /\ EnterStage2 => DecInv'
PROOF
<1> SUFFICES ASSUME DecInv, EnterStage2 PROVE DecInv'
  OBVIOUS
<1> DEFINE z == dec.blob.place = "after"
<1>1. dec \in DecStates /\ dec.pc = "entry" /\ dec' = [dec EXCEPT !.pc = "skip", !.zeroed = z, !.offset = 0]
  BY DEF DecInv, EnterStage2
<1>2. z \in BOOLEAN /\ 0 \in Nat
  OBVIOUS
<1> HIDE DEF z
<1>3. dec' \in DecStates
  BY <1>1, <1>2, Zenon DEF DecStates
<1>4. dec'.pc = "skip" /\ dec'.blob = dec.blob /\ dec'.offset = 0
  BY <1>1 DEF DecStates
<1>5. dec'.blocks = dec.blocks /\ dec'.buffer = dec.buffer
  BY <1>1 DEF DecStates
<1>6. dec'.zeroed = z
  BY <1>1, Zenon DEF DecStates
<1>7. dec'.zeroed <=> dec'.blob.place = "after"
  BY <1>4, <1>6, Zenon DEF z
<1> QED
  BY <1>1, <1>3, <1>4, <1>5, <1>7 DEF DecInv

LEMMA SkipStepInv == DecInv /\ Skip => DecInv'
PROOF
<1> SUFFICES ASSUME DecInv, Skip PROVE DecInv'
  OBVIOUS
<1> DEFINE skip == IF dec.zeroed THEN 0 ELSE SkipGzipHeader(dec.blob)
<1>1. dec \in DecStates /\ dec.pc = "skip" /\ dec' = [dec EXCEPT !.pc = "buffer", !.skip = skip]
      /\ dec.blob \in Blobs
  BY DEF DecInv, Skip, DecStates
<1>2. SkipGzipHeader(dec.blob) \in Nat /\ SkipGzipHeader(dec.blob) <= Length(dec.blob)
      /\ (Findable(dec.blob) => SkipGzipHeader(dec.blob) = Len(dec.blob.head))
  BY <1>1, SkipFinds
<1>3. Length(dec.blob) \in Nat /\ (Findable(dec.blob) => ~dec.zeroed)
  BY <1>1, BlobTyped DEF DecInv, Findable
<1>4. skip \in Nat /\ skip <= Length(dec.blob) /\ (Findable(dec.blob) => skip = Len(dec.blob.head))
  BY <1>2, <1>3
<1> HIDE DEF skip
<1>5. dec' \in DecStates
  BY <1>1, <1>4, Zenon DEF DecStates
<1>6. dec'.pc = "buffer" /\ dec'.blob = dec.blob /\ dec'.offset = dec.offset
  BY <1>1 DEF DecStates
<1>7. dec'.blocks = dec.blocks /\ dec'.buffer = dec.buffer /\ dec'.skip = skip
  BY <1>1 DEF DecStates
<1>8. dec'.zeroed = dec.zeroed
  BY <1>1, Zenon DEF DecStates
<1>9. dec'.zeroed <=> dec'.blob.place = "after"
  BY <1>1, <1>6, <1>8, Zenon DEF DecInv
<1> QED
  BY <1>1, <1>4, <1>5, <1>6, <1>7, <1>9 DEF DecInv

(* Stopping is right when the blob is not one that can be loaded. *)
LEMMA HaltInv ==
  ASSUME DecInv, dec.pc \in {"buffer", "decoder", "inflate"}, ~Loadable(dec.blob), dec' = HaltWithError
  PROVE  DecInv'
PROOF
<1>1. dec \in DecStates
  BY DEF DecInv
<1>2. dec' \in DecStates
  BY <1>1, Zenon DEF DecStates, HaltWithError
<1>3. dec'.pc = "halted" /\ dec'.blob = dec.blob /\ dec'.offset = dec.offset
  BY <1>1 DEF DecStates, HaltWithError
<1>4. dec'.blocks = dec.blocks /\ dec'.buffer = dec.buffer /\ dec'.skip = dec.skip
  BY <1>1 DEF DecStates, HaltWithError
<1>5. dec'.zeroed = dec.zeroed
  BY <1>1, Zenon DEF DecStates, HaltWithError
<1>6. dec'.zeroed <=> dec'.blob.place = "after"
  BY <1>3, <1>5, Zenon DEF DecInv
<1> QED
  BY <1>2, <1>3, <1>4, <1>6 DEF DecInv

(* The state with one more block. *)
Allocated(pc, buffer, block, size) ==
  [dec EXCEPT !.pc = pc, !.buffer = buffer, !.offset = block.offset,
              !.blocks = Append(@, [at |-> block.at, size |-> size])]

LEMMA AllocatedInv ==
  ASSUME DecInv, dec.pc \in {"buffer", "decoder", "inflate"}, NEW size \in Nat,
         NEW pc \in {"decoder", "inflate"}, NEW buffer \in Nat, buffer <= HEAP_SIZE,
         Alloc(dec.offset, size, 1).ok,
         dec' = Allocated(pc, buffer, Alloc(dec.offset, size, 1), size),
         Loadable(dec.blob) => \E n : Grown(n, dec')
  PROVE  DecInv'
PROOF
<1> DEFINE a == Alloc(dec.offset, size, 1)
           blocks == Append(dec.blocks, [at |-> a.at, size |-> size])
<1>1. dec \in DecStates /\ dec.offset \in Nat /\ BlocksInv(dec.blocks, dec.offset)
  BY DEF DecInv, BlocksInv
<1>2. a.at \in Nat /\ a.at % MAX_ALIGN = 0 /\ a.at >= dec.offset /\ a.offset = a.at + size
      /\ a.at + size <= HEAP_SIZE /\ a.offset \in Nat
  BY <1>1, AllocFacts
<1>3. dec' = [dec EXCEPT !.pc = pc, !.buffer = buffer, !.offset = a.offset, !.blocks = blocks]
  BY DEF Allocated
<1> HIDE DEF a
<1>4. BlocksInv(blocks, a.offset)
  BY <1>1, <1>2, BlocksAppend
<1>5. blocks \in Seq(Blocks)
  BY <1>4 DEF BlocksInv
<1> HIDE DEF blocks
<1>6. dec' \in DecStates
  BY <1>1, <1>2, <1>3, <1>5, Zenon DEF DecStates
<1>7. dec'.pc = pc /\ dec'.blob = dec.blob /\ dec'.offset = a.offset
  BY <1>1, <1>3 DEF DecStates
<1>8. dec'.blocks = blocks /\ dec'.buffer = buffer /\ dec'.skip = dec.skip
  BY <1>1, <1>3 DEF DecStates
<1>9. dec'.zeroed = dec.zeroed
  BY <1>1, <1>3, Zenon DEF DecStates
<1>10. dec'.zeroed <=> dec'.blob.place = "after"
  BY <1>7, <1>9, Zenon DEF DecInv
<1>11. \/ /\ dec.skip <= Length(dec.blob)
          /\ Findable(dec.blob) => dec.skip = Len(dec.blob.head)
       \/ dec.pc \in {"entry", "skip"}
  BY DEF DecInv
<1> QED
  BY <1>4, <1>6, <1>7, <1>8, <1>10, <1>11 DEF DecInv

LEMMA AllocatingSteps ==
  ASSUME DecInv, NEW size \in Nat, NEW pc, NEW buffer, NEW then,
         then = [dec EXCEPT !.pc = pc, !.buffer = buffer], Allocating(size, then)
  PROVE  \/ /\ Alloc(dec.offset, size, 1).ok
            /\ dec' = Allocated(pc, buffer, Alloc(dec.offset, size, 1), size)
         \/ ~Alloc(dec.offset, size, 1).ok /\ dec' = HaltWithError
PROOF
<1> DEFINE a == Alloc(dec.offset, size, 1)
<1>1. dec \in DecStates
  BY DEF DecInv
<1>2. then.blocks = dec.blocks
  BY <1>1 DEF DecStates
<1>3. dec' = IF a.ok THEN [then EXCEPT !.offset = a.offset,
                                       !.blocks = Append(@, [at |-> a.at, size |-> size])]
             ELSE HaltWithError
  BY DEF Allocating
<1> HIDE DEF a
<1>4. CASE a.ok
  <2>1. dec' = [then EXCEPT !.offset = a.offset, !.blocks = Append(dec.blocks, [at |-> a.at, size |-> size])]
    BY <1>2, <1>3, <1>4
  <2>2. dec' = Allocated(pc, buffer, a, size)
    BY <1>1, <2>1, Zenon DEF Allocated, DecStates
  <2> QED
    BY <1>4, <2>2 DEF a
<1>5. CASE ~a.ok
  BY <1>3, <1>5 DEF a
<1> QED
  BY <1>4, <1>5

(* The fields of the state with one more block. *)
LEMMA AllocatedFields ==
  ASSUME DecInv, NEW pc, NEW buffer, NEW block, NEW size, dec' = Allocated(pc, buffer, block, size)
  PROVE  dec'.pc = pc /\ dec'.buffer = buffer /\ dec'.offset = block.offset /\ dec'.blob = dec.blob
PROOF
<1>1. dec \in DecStates
  BY DEF DecInv
<1> QED
  BY <1>1 DEF DecStates, Allocated

LEMMA FirstBufferInv == DecInv /\ FirstBuffer => DecInv'
PROOF
<1> SUFFICES ASSUME DecInv, FirstBuffer PROVE DecInv'
  OBVIOUS
<1> DEFINE size == 2 * (Length(dec.blob) - dec.skip)
           then == [dec EXCEPT !.pc = "decoder", !.buffer = size]
           a == Alloc(dec.offset, size, 1)
<1>1. dec.pc = "buffer" /\ Allocating(size, then)
  BY DEF FirstBuffer
<1>2. dec \in DecStates /\ dec.blob \in Blobs /\ dec.skip \in Nat /\ dec.offset = 0
      /\ dec.skip <= Length(dec.blob) /\ (Findable(dec.blob) => dec.skip = Len(dec.blob.head))
  BY <1>1 DEF DecInv, DecStates
<1>3. Length(dec.blob) \in Nat /\ Len(dec.blob.head) \in Nat /\ dec.blob.body.len \in Nat
      /\ Length(dec.blob) = Len(dec.blob.head) + dec.blob.body.len
  BY <1>2, BlobTyped
<1>4. size \in Nat
  BY <1>2, <1>3
<1>5. Loadable(dec.blob) => size = First(dec.blob)
  <2>1. Loadable(dec.blob) => dec.skip = Len(dec.blob.head)
    BY <1>2 DEF Loadable, Findable
  <2> QED
    BY <1>2, <1>3, <2>1, SMTT(30) DEF First
<1> HIDE DEF size
<1>6. \/ a.ok /\ dec' = Allocated("decoder", size, a, size)
      \/ ~a.ok /\ dec' = HaltWithError
  <2> HIDE DEF then, a
  <2>1. then = [dec EXCEPT !.pc = "decoder", !.buffer = size]
    BY DEF then
  <2> QED
    BY <1>1, <1>4, <2>1, AllocatingSteps DEF a
<1>7. a.at = 0 /\ a.offset = a.at + size /\ (a.ok <=> a.at + size <= HEAP_SIZE) 
  BY <1>2, <1>4, AllocFacts, SMTT(30)
<1>8. a.offset = size /\ (a.ok <=> size <= HEAP_SIZE)
  <2> HIDE DEF a
  <2>1. a.at + size = size
    BY <1>4, <1>7
  <2> QED
    BY <1>7, <2>1
<1>9. Loadable(dec.blob) => size \in Nat /\ size > 0 /\ size + 32 + DecoderBytes <= HEAP_SIZE
  BY <1>2, <1>5, RoomToGrow
<1>d. DecoderBytes \in Nat
  BY DecompressorAssumption
<1>10. CASE a.ok /\ dec' = Allocated("decoder", size, a, size)
  <2> HIDE DEF a
  <2>1. dec'.pc = "decoder" /\ dec'.buffer = size /\ dec'.offset = a.offset /\ dec'.blob = dec.blob
    BY <1>10, AllocatedFields
  <2>2. ASSUME Loadable(dec.blob) PROVE Grown(1, dec')
    <3>1. 1 \in DOMAIN Doubled /\ Doubled[1] = 1
      BY DoubledValues
    <3>2. dec'.buffer = First(dec'.blob) * Doubled[1]
      BY <1>4, <1>5, <2>1, <2>2, <3>1
    <3>3. dec'.offset <= (2 * dec'.buffer - First(dec'.blob)) + 1 * MAX_ALIGN + 0
      BY <1>4, <1>5, <1>8, <2>1, <2>2 DEF MAX_ALIGN
    <3> QED
      BY <1>8, <2>1, <3>1, <3>2, <3>3 DEF Grown
  <2>3. size <= HEAP_SIZE
    BY <1>8, <1>10
  <2> QED
    BY <1>1, <1>4, <1>10, <2>2, <2>3, AllocatedInv DEF a
<1>11. CASE ~a.ok /\ dec' = HaltWithError
  <2>1. ~Loadable(dec.blob)
    BY <1>4, <1>8, <1>9, <1>11, <1>d DEF HEAP_SIZE
  <2> QED
    BY <1>1, <1>11, <2>1, HaltInv
<1> QED
  BY <1>6, <1>10, <1>11

LEMMA DecoderInv == DecInv /\ Decoder => DecInv'
PROOF
<1> SUFFICES ASSUME DecInv, Decoder PROVE DecInv'
  OBVIOUS
<1> DEFINE then == [dec EXCEPT !.pc = "inflate"]
           a == Alloc(dec.offset, DecoderBytes, 1)
<1>1. dec.pc = "decoder" /\ Allocating(DecoderBytes, then)
  BY DEF Decoder
<1>2. dec \in DecStates /\ dec.blob \in Blobs /\ dec.offset \in Nat /\ dec.buffer \in Nat
      /\ dec.buffer <= HEAP_SIZE
  BY DEF DecInv, DecStates
<1>3. DecoderBytes \in Nat
  BY DecompressorAssumption
<1>4. \/ a.ok /\ dec' = Allocated("inflate", dec.buffer, a, DecoderBytes)
      \/ ~a.ok /\ dec' = HaltWithError
  <2>1. then = [dec EXCEPT !.pc = "inflate", !.buffer = dec.buffer]
    BY <1>2, Zenon DEF DecStates
  <2> HIDE DEF then, a
  <2> QED
    BY <1>1, <1>3, <2>1, AllocatingSteps DEF a
<1>5. a.at \in Nat /\ a.at <= dec.offset + 15 /\ a.offset = a.at + DecoderBytes
      /\ (a.ok <=> a.at + DecoderBytes <= HEAP_SIZE)
  BY <1>2, <1>3, AllocFacts
<1>6. ASSUME Loadable(dec.blob)
      PROVE  /\ First(dec.blob) \in Nat /\ First(dec.blob) + 32 + DecoderBytes <= HEAP_SIZE
             /\ dec.buffer = First(dec.blob) * Doubled[1] /\ dec.buffer = First(dec.blob)
             /\ dec.offset = First(dec.blob)
  <2>1. PICK n : Grown(n, dec)
    BY <1>1, <1>6 DEF DecInv
  <2>2. n = 1 /\ dec.buffer = First(dec.blob) * Doubled[1] /\ dec.offset = dec.buffer
    BY <1>1, <2>1 DEF Grown
  <2>3. First(dec.blob) \in Nat /\ First(dec.blob) + 32 + DecoderBytes <= HEAP_SIZE
    BY <1>2, <1>6, RoomToGrow
  <2>4. Doubled[1] = 1
    BY DoubledValues
  <2> QED
    BY <2>2, <2>3, <2>4
<1> HIDE DEF a
<1>7. CASE a.ok /\ dec' = Allocated("inflate", dec.buffer, a, DecoderBytes)
  <2>1. dec'.pc = "inflate" /\ dec'.buffer = dec.buffer /\ dec'.offset = a.offset /\ dec'.blob = dec.blob
    BY <1>7, AllocatedFields
  <2>2. ASSUME Loadable(dec.blob) PROVE Grown(1, dec')
    <3>1. 1 \in DOMAIN Doubled
      BY DoubledValues
    <3>2. dec'.offset <= (2 * dec'.buffer - First(dec'.blob)) + 1 * MAX_ALIGN + DecoderBytes
      BY <1>2, <1>3, <1>5, <1>6, <2>1, <2>2, SMTT(30) DEF MAX_ALIGN
    <3> QED
      BY <1>6, <2>1, <2>2, <3>1, <3>2 DEF Grown
  <2> QED
    BY <1>1, <1>2, <1>3, <1>7, <2>2, AllocatedInv DEF a
<1>8. CASE ~a.ok /\ dec' = HaltWithError
  <2>1. ~Loadable(dec.blob)
    BY <1>2, <1>3, <1>5, <1>6, <1>8 DEF HEAP_SIZE
  <2> QED
    BY <1>1, <1>8, <2>1, HaltInv
<1> QED
  BY <1>4, <1>7, <1>8

LEMMA DoublingInv ==
  ASSUME DecInv, dec.pc = "inflate", dec.blob.body.out > dec.buffer,
         Allocating(2 * dec.buffer, [dec EXCEPT !.buffer = 2 * @])
  PROVE  DecInv'
PROOF
<1> DEFINE size == 2 * dec.buffer
           then == [dec EXCEPT !.buffer = 2 * @]
           a == Alloc(dec.offset, size, 1)
<1>2. dec \in DecStates /\ dec.blob \in Blobs /\ dec.offset \in Nat /\ dec.buffer \in Nat
  BY DEF DecInv, DecStates
<1>3. DecoderBytes \in Nat /\ size \in Nat
  BY <1>2, DecompressorAssumption
<1>4. \/ a.ok /\ dec' = Allocated("inflate", size, a, size)
      \/ ~a.ok /\ dec' = HaltWithError
  <2>1. then = [dec EXCEPT !.pc = "inflate", !.buffer = size]
    BY <1>2, Zenon DEF DecStates
  <2>2. Allocating(size, then)
    OBVIOUS
  <2> HIDE DEF then, a, size
  <2> QED
    BY <1>3, <2>1, <2>2, AllocatingSteps DEF a
<1>5. a.at \in Nat /\ a.at <= dec.offset + 15 /\ a.offset = a.at + size
      /\ (a.ok <=> a.at + size <= HEAP_SIZE)
  BY <1>2, <1>3, AllocFacts
<1>6. ASSUME Loadable(dec.blob)
      PROVE  \E n \in DOMAIN Doubled :
               /\ n \in Nat /\ First(dec.blob) \in Nat
               /\ size = First(dec.blob) * Doubled[n]
               /\ a.at + size <= (2 * size - First(dec.blob)) + n * 16 + DecoderBytes
               /\ (2 * size - First(dec.blob)) + n * 16 + DecoderBytes + 16 <= HEAP_SIZE
  <2> DEFINE first == First(dec.blob)
  <2>1. PICK m : Grown(m, dec)
    BY <1>6 DEF DecInv
  <2>2. m \in 1..19 /\ dec.buffer = first * Doubled[m]
        /\ dec.offset <= (2 * dec.buffer - first) + m * MAX_ALIGN + DecoderBytes
    BY <2>1, DoubledValues DEF Grown
  <2>3. first \in Nat
        /\ m + 1 \in 1..19
        /\ first * Doubled[m + 1] = 2 * (first * Doubled[m])
        /\ (2 * (2 * (first * Doubled[m])) - first) + (m + 1) * 16 + DecoderBytes + 16 <= HEAP_SIZE
    BY <1>2, <1>6, <2>2, RoomToGrow
  <2>4. (2 * size - first) + (m + 1) * 16 + DecoderBytes + 16 <= HEAP_SIZE /\ size = first * Doubled[m + 1]
    BY <2>2, <2>3
  <2> HIDE DEF first
  <2>5. a.at + size <= (2 * size - first) + (m + 1) * 16 + DecoderBytes
    <3> HIDE DEF a
    <3>1. dec.offset <= (2 * dec.buffer - first) + m * 16 + DecoderBytes
      BY <2>2 DEF MAX_ALIGN
    <3> QED
      BY <1>2, <1>3, <1>5, <2>2, <2>3, <3>1
  <2>6. m + 1 \in DOMAIN Doubled /\ m + 1 \in Nat
    BY <2>3, DoubledValues
  <2> HIDE DEF a, size
  <2> QED
    BY <2>3, <2>4, <2>5, <2>6 DEF first
<1> HIDE DEF a, size
<1>7. CASE a.ok /\ dec' = Allocated("inflate", size, a, size)
  <2>1. dec'.pc = "inflate" /\ dec'.buffer = size /\ dec'.offset = a.offset /\ dec'.blob = dec.blob
    BY <1>7, AllocatedFields
  <2>2. Loadable(dec.blob) => \E n : Grown(n, dec')
    BY <1>5, <1>6, <2>1 DEF Grown, MAX_ALIGN
  <2>3. size <= HEAP_SIZE
    BY <1>3, <1>5, <1>7 DEF HEAP_SIZE
  <2> QED
    BY <1>3, <1>7, <2>2, <2>3, AllocatedInv DEF a
<1>8. CASE ~a.ok /\ dec' = HaltWithError
  <2>1. ~Loadable(dec.blob)
    BY <1>3, <1>5, <1>6, <1>8 DEF HEAP_SIZE
  <2> QED
    BY <1>8, <2>1, HaltInv
<1> QED
  BY <1>4, <1>7, <1>8

LEMMA InflateInv == DecInv /\ Inflate => DecInv'
PROOF
<1> SUFFICES ASSUME DecInv, Inflate PROVE DecInv'
  OBVIOUS
<1>1. dec.pc = "inflate"
  BY DEF Inflate
<1>2. dec \in DecStates /\ dec.blob \in Blobs /\ dec.buffer \in Nat
  BY DEF DecInv, DecStates
<1>3. dec.blob.body.out \in Nat /\ dec.blob.place \in {"after", "elsewhere"}
  BY <1>2, BlobTyped
<1>4. (dec.zeroed <=> dec.blob.place = "after") /\ (Findable(dec.blob) => dec.skip = Len(dec.blob.head))
  BY <1>1 DEF DecInv
<1>5. CASE ~ZlibAtSkip
  <2>1. dec' = HaltWithError
    BY <1>5 DEF Inflate
  <2>2. ~Loadable(dec.blob)
    BY <1>4, <1>5 DEF ZlibAtSkip, Loadable, Findable
  <2> QED
    BY <1>1, <2>1, <2>2, HaltInv
<1>6. CASE ZlibAtSkip /\ dec.blob.body.out <= dec.buffer
  <2>1. dec' = [dec EXCEPT !.pc = "copy"]
    BY <1>6 DEF Inflate
  <2>2. dec' \in DecStates
    BY <1>2, <2>1, Zenon DEF DecStates
  <2>3. dec'.pc = "copy" /\ dec'.blob = dec.blob /\ dec'.offset = dec.offset
    BY <1>2, <2>1 DEF DecStates
  <2>4. dec'.blocks = dec.blocks /\ dec'.buffer = dec.buffer /\ dec'.skip = dec.skip
    BY <1>2, <2>1 DEF DecStates
  <2>5. dec'.zeroed = dec.zeroed
    BY <1>2, <2>1, Zenon DEF DecStates
  <2>6. dec'.zeroed <=> dec'.blob.place = "after"
    BY <1>4, <2>3, <2>5, Zenon
  <2>7. dec.blob.body.kind = "zlib" /\ dec.blob.place = "elsewhere"
    BY <1>3, <1>4, <1>6 DEF ZlibAtSkip
  <2> QED
    BY <1>1, <1>6, <2>2, <2>3, <2>4, <2>6, <2>7 DEF DecInv
<1>7. CASE ZlibAtSkip /\ ~(dec.blob.body.out <= dec.buffer)
  <2>1. dec.blob.body.out > dec.buffer
    BY <1>2, <1>3, <1>7
  <2>2. Allocating(2 * dec.buffer, [dec EXCEPT !.buffer = 2 * @])
    BY <1>7, Zenon DEF Inflate
  <2> QED
    BY <1>1, <2>1, <2>2, DoublingInv
<1> QED
  BY <1>5, <1>6, <1>7

LEMMA CopyAndJumpInv == DecInv /\ CopyAndJump => DecInv'
PROOF
<1> SUFFICES ASSUME DecInv, CopyAndJump PROVE DecInv'
  OBVIOUS
<1>1. dec.pc = "copy" /\ dec' = [dec EXCEPT !.pc = "jumped", !.stage3 = dec.blob.body.out]
  BY DEF CopyAndJump
<1>2. dec \in DecStates /\ dec.blob \in Blobs
  BY DEF DecInv, DecStates
<1>3. dec.blob.body.out \in Nat
  BY <1>2, BlobTyped
<1>4. dec' \in DecStates
  BY <1>1, <1>2, <1>3, Zenon DEF DecStates
<1>5. dec'.pc = "jumped" /\ dec'.blob = dec.blob /\ dec'.offset = dec.offset /\ dec'.stage3 = dec.blob.body.out
  BY <1>1, <1>2 DEF DecStates
<1>6. dec'.blocks = dec.blocks /\ dec'.buffer = dec.buffer /\ dec'.skip = dec.skip
  BY <1>1, <1>2 DEF DecStates
<1>7. dec'.zeroed = dec.zeroed
  BY <1>1, <1>2, Zenon DEF DecStates
<1>8. dec'.zeroed <=> dec'.blob.place = "after"
  BY <1>1, <1>5, <1>7, Zenon DEF DecInv
<1> QED
  BY <1>1, <1>4, <1>5, <1>6, <1>8 DEF DecInv

LEMMA DecNextInv == DecInv /\ [DecNext]_dec => DecInv'
PROOF
<1>1. ASSUME DecInv, UNCHANGED dec PROVE DecInv'
  BY <1>1 DEF DecInv
<1> QED
  BY <1>1, EnterInv, SkipStepInv, FirstBufferInv, DecoderInv, InflateInv, CopyAndJumpInv DEF DecNext

(***************************************************************************)
(* Every blob that can be loaded is loaded whole, and every other one      *)
(* halts, with the allocator's blocks apart and stage 3 clear of the       *)
(* decompressor (skip_gzip_header, BumpAllocator::alloc,                   *)
(* decompress_and_jump).                                                   *)
(***************************************************************************)
THEOREM StageIsLoaded == DecSpec => []StageLoads
PROOF
<1>1. DecInv => StageLoads
  <2> SUFFICES ASSUME DecInv PROVE StageLoads
    OBVIOUS
  <2>1. dec \in DecStates /\ dec.blob \in Blobs /\ dec.buffer \in Nat
    BY DEF DecInv, DecStates
  <2>2. dec.blob.body.out \in Nat /\ LoadedAt \in Nat /\ STAGE3_LOAD_ADDR + HEAP_SIZE <= LoadedAt
    BY <2>1, BlobTyped, DecompressorAssumption
  <2>3. ASSUME dec.pc = "jumped"
        PROVE  /\ dec.blob.body.kind = "zlib" /\ dec.blob.place = "elsewhere"
               /\ dec.stage3 = dec.blob.body.out
               /\ STAGE3_LOAD_ADDR + dec.stage3 <= LoadedAt
    <3>1. /\ dec.blob.body.kind = "zlib" /\ dec.blob.place = "elsewhere"
          /\ dec.stage3 = dec.blob.body.out
          /\ dec.blob.body.out <= dec.buffer /\ dec.buffer <= HEAP_SIZE
      BY <2>3 DEF DecInv
    <3>2. STAGE3_LOAD_ADDR + dec.stage3 <= LoadedAt
      BY <2>1, <2>2, <3>1 DEF STAGE3_LOAD_ADDR, HEAP_SIZE
    <3> QED
      BY <3>1, <3>2
  <2> QED
    BY <2>3 DEF DecInv, BlocksInv, StageLoads
<1> QED
  BY <1>1, DecInitInv, DecNextInv, PTL DEF DecSpec
=============================================================================
