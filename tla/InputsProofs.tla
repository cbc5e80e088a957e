---------------------------- MODULE InputsProofs ----------------------------
(***************************************************************************)
(* Proofs about what the loader and its tool take in: the editor of the    *)
(* boot menu, the enrolment of the configuration's hash and the command    *)
(* line.                                                                   *)
(***************************************************************************)
EXTENDS MenuEditor, Enroll, Cli, SequenceTheorems, NaturalsInduction, WellFoundedInduction, TLAPS

(***************************************************************************)
(* The editor of the boot menu, for every validator, every command line    *)
(* and every sequence of keys.                                             *)
(***************************************************************************)
EditorSpec == EditorInit /\ [][EditorNext]_ed

(* The fields of MenuState, whatever the buffer holds. *)
EditorShape ==
  /\ ed = [pc |-> "menu", editing |-> ed.editing, buffer |-> ed.buffer, locked |-> ed.locked,
           validator |-> ed.validator, diagnostic |-> ed.diagnostic, boot |-> ed.boot, typed |-> ed.typed]
  /\ ed.editing \in BOOLEAN /\ ed.locked \in BOOLEAN /\ ed.validator \in BOOLEAN
  /\ ed.boot \in BOOLEAN /\ ed.typed \in BOOLEAN

(* While a typed buffer is edited, a diagnostic that lets F10 through      *)
(* speaks of that very buffer.                                             *)
DiagnosticCurrent ==
  ed.editing /\ ed.typed /\ ed.validator /\ ed.diagnostic # "error" => ~Refused(ed.buffer)

EditorInv == EditorShape /\ DiagnosticCurrent /\ CommitsOnlyValidated

-----------------------------------------------------------------------------
LEMMA EditorInitInv == EditorInit => EditorInv
PROOF
  BY DEF EditorInit, EditorInv, EditorShape, DiagnosticCurrent, CommitsOnlyValidated

LEMMA ToggleInv == EditorInv /\ ToggleEditor => EditorInv'
PROOF
<1> SUFFICES ASSUME EditorInv, ToggleEditor PROVE EditorInv'
  OBVIOUS
<1>1. CASE ed.editing /\ ed' = [ed EXCEPT !.editing = FALSE]
  BY <1>1 DEF ToggleEditor, EditorInv, EditorShape, DiagnosticCurrent, CommitsOnlyValidated
<1>2. CASE \E c \in Cmdlines : ed' = [ed EXCEPT !.editing = TRUE, !.buffer = c, !.typed = FALSE]
  BY <1>2 DEF ToggleEditor, EditorInv, EditorShape, DiagnosticCurrent, CommitsOnlyValidated
<1> QED
  BY <1>1, <1>2 DEF ToggleEditor

(* Each key that changes the buffer has it validated again. *)
LEMMA RevalidateInv ==
  ASSUME EditorInv, ~ed.boot, ed.editing, NEW buffer, ed' = Revalidate(ed, buffer)
  PROVE  EditorInv'
PROOF
<1>1. /\ ed'.buffer = buffer
      /\ ed'.pc = "menu"
  BY DEF EditorInv, EditorShape, Revalidate
<1>2. ed'.editing = ed.editing
  BY DEF EditorInv, EditorShape, Revalidate
<1>3. ed'.locked = ed.locked
  BY DEF EditorInv, EditorShape, Revalidate
<1>4. ed'.validator = ed.validator
  BY DEF EditorInv, EditorShape, Revalidate
<1>5. ed'.boot = ed.boot
  BY DEF EditorInv, EditorShape, Revalidate
<1>6. ed'.typed = TRUE
  BY DEF EditorInv, EditorShape, Revalidate
<1>7. ed.validator /\ Refused(buffer) => ed'.diagnostic = "error"
  BY DEF EditorInv, EditorShape, Revalidate
<1>8. ed' = [pc |-> ed'.pc, editing |-> ed'.editing, buffer |-> ed'.buffer, locked |-> ed'.locked,
             validator |-> ed'.validator, diagnostic |-> ed'.diagnostic, boot |-> ed'.boot,
             typed |-> ed'.typed]
  BY DEF EditorInv, EditorShape, Revalidate
<1>9. EditorShape'
  BY <1>1, <1>2, <1>3, <1>4, <1>5, <1>6, <1>8 DEF EditorInv, EditorShape
<1>10. DiagnosticCurrent'
  BY <1>1, <1>4, <1>7 DEF DiagnosticCurrent
<1>11. CommitsOnlyValidated'
  BY <1>5 DEF CommitsOnlyValidated
<1> QED
  BY <1>9, <1>10, <1>11 DEF EditorInv

LEMMA HandleKeyInv == EditorInv /\ HandleEditorKey => EditorInv'
PROOF
<1> SUFFICES ASSUME EditorInv, HandleEditorKey PROVE EditorInv'
  OBVIOUS
<1>0. ed.editing /\ ~ed.locked /\ ~ed.boot
  BY DEF HandleEditorKey
<1>1. CASE ed' = [ed EXCEPT !.editing = FALSE, !.buffer = <<>>, !.diagnostic = "none"]
  <2>1. EditorShape'
    <3>1. ed' = [pc |-> ed'.pc, editing |-> ed'.editing, buffer |-> ed'.buffer, locked |-> ed'.locked,
                 validator |-> ed'.validator, diagnostic |-> ed'.diagnostic, boot |-> ed'.boot,
                 typed |-> ed'.typed]
      BY <1>1 DEF EditorInv, EditorShape
    <3>2. ed'.pc = "menu"
      BY <1>1 DEF EditorInv, EditorShape
    <3>3. ed'.editing \in BOOLEAN
      BY <1>1 DEF EditorInv, EditorShape
    <3>4. ed'.locked \in BOOLEAN
      BY <1>1 DEF EditorInv, EditorShape
    <3>5. ed'.validator \in BOOLEAN
      BY <1>1 DEF EditorInv, EditorShape
    <3>6. ed'.boot \in BOOLEAN
      BY <1>1 DEF EditorInv, EditorShape
    <3>7. ed'.typed \in BOOLEAN
      BY <1>1 DEF EditorInv, EditorShape
    <3> QED
      BY <3>1, <3>2, <3>3, <3>4, <3>5, <3>6, <3>7 DEF EditorShape
  <2>2. ~ed'.editing
    BY <1>1 DEF EditorInv, EditorShape
  <2>3. ~ed'.boot
    BY <1>0, <1>1 DEF EditorInv, EditorShape
  <2> QED
    BY <2>1, <2>2, <2>3 DEF EditorInv, DiagnosticCurrent, CommitsOnlyValidated
<1>2. CASE ed.diagnostic # "error" /\ ed' = [ed EXCEPT !.boot = TRUE, !.editing = FALSE]
  <2>1. EditorShape'
    <3>1. ed' = [pc |-> ed'.pc, editing |-> ed'.editing, buffer |-> ed'.buffer, locked |-> ed'.locked,
                 validator |-> ed'.validator, diagnostic |-> ed'.diagnostic, boot |-> ed'.boot,
                 typed |-> ed'.typed]
      BY <1>2 DEF EditorInv, EditorShape
    <3>2. ed'.pc = "menu"
      BY <1>2 DEF EditorInv, EditorShape
    <3>3. ed'.editing \in BOOLEAN
      BY <1>2 DEF EditorInv, EditorShape
    <3>4. ed'.locked \in BOOLEAN
      BY <1>2 DEF EditorInv, EditorShape
    <3>5. ed'.validator \in BOOLEAN
      BY <1>2 DEF EditorInv, EditorShape
    <3>6. ed'.boot \in BOOLEAN
      BY <1>2 DEF EditorInv, EditorShape
    <3>7. ed'.typed \in BOOLEAN
      BY <1>2 DEF EditorInv, EditorShape
    <3> QED
      BY <3>1, <3>2, <3>3, <3>4, <3>5, <3>6, <3>7 DEF EditorShape
  <2>2. ~ed'.editing
    BY <1>2 DEF EditorInv, EditorShape
  <2>3. ed'.locked = ed.locked
    BY <1>2 DEF EditorInv, EditorShape
  <2>4. ed'.validator = ed.validator
    BY <1>2 DEF EditorInv, EditorShape
  <2>5. ed'.typed = ed.typed
    BY <1>2 DEF EditorInv, EditorShape
  <2>6. ed'.buffer = ed.buffer
    BY <1>2 DEF EditorInv, EditorShape
  <2>7. ed.typed /\ ed.validator => ~Refused(ed.buffer)
    BY <1>0, <1>2 DEF EditorInv, DiagnosticCurrent
  <2>8. CommitsOnlyValidated'
    BY <1>0, <2>3, <2>4, <2>5, <2>6, <2>7 DEF CommitsOnlyValidated
  <2> QED
    BY <2>1, <2>2, <2>8 DEF EditorInv, DiagnosticCurrent
<1>3. CASE \E buffer : ed' = Revalidate(ed, buffer)
  <2>1. PICK buffer : ed' = Revalidate(ed, buffer)
    BY <1>3
  <2> QED
    BY <1>0, <2>1, RevalidateInv
<1>4. ASSUME ed' = Revalidate(ed, SubSeq(ed.buffer, 1, Len(ed.buffer) - 1))
      PROVE  \E buffer : ed' = Revalidate(ed, buffer)
  BY <1>4
<1>5. ASSUME NEW c \in Chars, ed' = Revalidate(ed, Append(ed.buffer, c))
      PROVE  \E buffer : ed' = Revalidate(ed, buffer)
  BY <1>5
<1> QED
  BY <1>1, <1>2, <1>3, <1>4, <1>5 DEF HandleEditorKey

(* handle_editor_key commits a typed buffer only if the validator accepts  *)
(* that buffer, and a locked editor commits none, after any sequence of    *)
(* keys.                                                                   *)
THEOREM CommitsAreValidated == EditorSpec => []CommitsOnlyValidated
PROOF
<1>1. EditorInv /\ UNCHANGED ed => EditorInv'
  BY DEF EditorInv, EditorShape, DiagnosticCurrent, CommitsOnlyValidated
<1>2. EditorInv /\ [EditorNext]_ed => EditorInv'
  BY <1>1, ToggleInv, HandleKeyInv DEF EditorNext
<1>3. EditorInv => CommitsOnlyValidated
  BY DEF EditorInv
<1> QED
  BY EditorInitInv, <1>2, <1>3, PTL DEF EditorSpec

(***************************************************************************)
(* enroll-config, for every binary, configuration and hash, whatever is    *)
(* answered, and wherever a write is cut off.                              *)
(***************************************************************************)
EnrollSpec == EnrollInit /\ [][EnrollNext]_en

(* A set of natural numbers has a least element. *)
LEMMA LeastNatural ==
  ASSUME NEW T, T \subseteq Nat, T # {}
  PROVE  Min(T) \in T /\ \A y \in T : Min(T) <= y
PROOF
<1> DEFINE R == OpToRel(<, Nat)
<1>1. IsWellFoundedOn(R, Nat)
  BY NatLessThanWellFounded
<1>2. \A x, y \in Nat : y < x => <<y, x>> \in R
  BY DEF OpToRel
<1> HIDE DEF R
<1>3. PICK x \in T : \A y \in T : ~(<<y, x>> \in R)
  BY <1>1, WFMin
<1>4. ASSUME NEW y \in T PROVE x <= y
  <2>1. x \in Nat /\ y \in Nat /\ ~(y < x)
    BY <1>2, <1>3, Zenon
  <2> QED
    BY <2>1
<1> QED
  BY <1>4 DEF Min

(* find_hash_slot finds the first signature, or one past the end. *)
LEMMA FindHashSlotFirst ==
  ASSUME NEW b \in Seq(CellValues)
  PROVE  /\ FindHashSlot(b) \in 1 .. Len(b) + 1
         /\ \A i \in 1 .. FindHashSlot(b) - 1 : b[i] # Sig
         /\ HasSlot(b) => b[FindHashSlot(b)] = Sig
PROOF
<1> DEFINE T == {i \in DOMAIN b : b[i] = Sig} \cup {Len(b) + 1}
<1>1. DOMAIN b = 1 .. Len(b) /\ Len(b) \in Nat
  OBVIOUS
<1>2. T \subseteq Nat /\ T # {}
  BY <1>1
<1>3. FindHashSlot(b) = Min(T)
  BY DEF FindHashSlot
<1>4. \A i \in 1 .. Len(b) : b[i] = Sig => i \in T
  BY <1>1
<1>5. \A i \in T : i = Len(b) + 1 \/ (i \in 1 .. Len(b) /\ b[i] = Sig)
  BY <1>1
<1>6. Len(b) + 1 \in T
  OBVIOUS
<1> HIDE DEF T
<1>7. Min(T) \in T /\ \A y \in T : Min(T) <= y
  BY <1>2, LeastNatural
<1> DEFINE o == Min(T)
<1>8. o \in T /\ (\A y \in T : o <= y) /\ FindHashSlot(b) = o
  BY <1>3, <1>7
<1> HIDE DEF o
<1> QED
  BY <1>1, <1>4, <1>5, <1>6, <1>8 DEF HasSlot

(* Only cells after the first signature differ: the slot stays the slot. *)
LEMMA SameSlot ==
  ASSUME NEW b \in Seq(CellValues), NEW p \in Seq(CellValues), Len(p) = Len(b), HasSlot(b),
         \A i \in 1 .. FindHashSlot(b) : p[i] = b[i]
  PROVE  FindHashSlot(p) = FindHashSlot(b)
PROOF
<1> DEFINE o == FindHashSlot(b)
           q == FindHashSlot(p)
<1>1. o \in 1 .. Len(b) /\ b[o] = Sig /\ \A i \in 1 .. o - 1 : b[i] # Sig
  BY FindHashSlotFirst DEF HasSlot
<1>2. /\ q \in 1 .. Len(b) + 1
      /\ \A i \in 1 .. q - 1 : p[i] # Sig
      /\ q <= Len(b) => p[q] = Sig
  BY FindHashSlotFirst DEF HasSlot
<1>3. \A i \in 1 .. o : p[i] = b[i]
  OBVIOUS
<1> HIDE DEF o, q
<1>4. Len(b) \in Nat
  OBVIOUS
<1>5. ~(o < q)
  BY <1>1, <1>2, <1>3, <1>4
<1>6. ~(q < o)
  BY <1>1, <1>2, <1>3, <1>4
<1>7. o = q
  BY <1>1, <1>2, <1>4, <1>5, <1>6
<1> QED
  BY <1>7 DEF o, q

(* A hash that fits the slot, and is not the one in it. *)
Enrollable(b, h) ==
  /\ b \in Seq(CellValues) /\ h \in Seq(CellValues)
  /\ HasSlot(b) /\ FindHashSlot(b) + HashLen <= Len(b)
  /\ Len(h) = HashLen /\ \E i \in 1 .. HashLen : h[i] # Zero
  /\ SubSeq(b, FindHashSlot(b) + 1, FindHashSlot(b) + HashLen) # h

(* patch_hash writes the slot alone. *)
LEMMA PatchWrites ==
  ASSUME NEW b, NEW h, Enrollable(b, h)
  PROVE  /\ PatchHash(b, h) \in Seq(CellValues)
         /\ Len(PatchHash(b, h)) = Len(b)
         /\ \A i \in 1 .. Len(b) :
              PatchHash(b, h)[i] =
                IF i \in FindHashSlot(b) + 1 .. FindHashSlot(b) + HashLen
                THEN h[i - FindHashSlot(b)] ELSE b[i]
PROOF
<1> DEFINE o == FindHashSlot(b)
           slot == o + 1 .. o + HashLen
           p == [i \in 1 .. Len(b) |-> IF i \in slot THEN h[i - o] ELSE b[i]]
<1>1. o \in 1 .. Len(b) /\ Len(b) \in Nat /\ HashLen \in Nat \ {0} /\ DOMAIN b = 1 .. Len(b)
  BY EnrollAssumption, FindHashSlotFirst DEF Enrollable, HasSlot
<1>2. Min(slot) = o + 1
  <2>0. o + 1 \in slot
    BY <1>1
  <2>1. slot \subseteq Nat /\ slot # {}
    BY <1>1, <2>0
  <2>2. Min(slot) \in slot /\ \A y \in slot : Min(slot) <= y
    BY <2>1, LeastNatural
  <2> DEFINE least == Min(slot)
  <2>4. least \in slot /\ least <= o + 1
    BY <2>2, <2>0
  <2> HIDE DEF least
  <2>5. least = o + 1
    BY <1>1, <2>4
  <2> QED
    BY <2>5 DEF least
<1>3. \A i \in slot : i - Min(slot) + 1 = i - o
  BY <1>1, <1>2
<1>4. PatchHash(b, h) = p
  BY <1>1, <1>3 DEF PatchHash, SlotCells
<1>5. \A i \in 1 .. Len(b) : p[i] \in CellValues
  <2> SUFFICES ASSUME NEW i \in 1 .. Len(b) PROVE p[i] \in CellValues
    OBVIOUS
  <2>1. b[i] \in CellValues
    BY DEF Enrollable
  <2>2. CASE i \in slot
    <3>1. i - o \in 1 .. HashLen
      BY <1>1, <2>2
    <3>2. h[i - o] \in CellValues
      BY <3>1 DEF Enrollable
    <3> QED
      BY <2>2, <3>2
  <2> QED
    BY <2>1, <2>2
<1>6. p \in [1 .. Len(b) -> CellValues]
  BY <1>5
<1>7. p \in Seq(CellValues) /\ Len(p) = Len(b)
  BY <1>1, <1>6, SeqDef
<1> QED
  BY <1>4, <1>7

(* The loader finds in the patched binary the hash that was written. *)
LEMMA PatchReadsBack ==
  ASSUME NEW b, NEW h, Enrollable(b, h)
  PROVE  /\ ReadHash(PatchHash(b, h)) = h
         /\ PatchHash(b, h) # b
         /\ h # <<>>
PROOF
<1> DEFINE o == FindHashSlot(b)
           p == PatchHash(b, h)
           r == SubSeq(p, o + 1, o + HashLen)
<1>1. /\ o \in 1 .. Len(b) /\ Len(b) \in Nat /\ HashLen \in Nat \ {0}
      /\ o + HashLen <= Len(b)
  BY EnrollAssumption, FindHashSlotFirst DEF Enrollable, HasSlot
<1>2. /\ p \in Seq(CellValues) /\ Len(p) = Len(b)
      /\ \A i \in 1 .. Len(b) : p[i] = IF i \in o + 1 .. o + HashLen THEN h[i - o] ELSE b[i]
  BY PatchWrites
<1>3. b \in Seq(CellValues) /\ h \in Seq(CellValues) /\ Len(h) = HashLen
  BY DEF Enrollable
<1>4. FindHashSlot(p) = o
  <2>1. \A i \in 1 .. o : p[i] = b[i]
    BY <1>1, <1>2
  <2> QED
    BY <1>2, <1>3, <2>1, SameSlot DEF Enrollable
<1> HIDE DEF o, p
<1>5. \A i \in o + 1 .. o + HashLen : p[i] \in CellValues
  BY <1>1, <1>2
<1>6. /\ r \in Seq(CellValues) /\ Len(r) = HashLen
      /\ \A i \in 1 .. HashLen : r[i] = p[o + i]
  BY <1>1, <1>5, SubSeqProperties
<1>7. \A i \in 1 .. HashLen : p[o + i] = h[i]
  <2> SUFFICES ASSUME NEW i \in 1 .. HashLen PROVE p[o + i] = h[i]
    OBVIOUS
  <2>1. o + i \in 1 .. Len(b) /\ o + i \in o + 1 .. o + HashLen /\ (o + i) - o = i
    BY <1>1
  <2> QED
    BY <1>2, <2>1
<1> HIDE DEF r
<1>8. r = h
  <2>1. \A i \in 1 .. Len(r) : r[i] = h[i]
    BY <1>6, <1>7
  <2> QED
    BY <1>3, <1>6, <2>1, SeqEqual
<1>9. ~(\A i \in DOMAIN r : r[i] = Zero)
  BY <1>3, <1>8 DEF Enrollable
<1>10. ReadHash(p) = h
  BY <1>1, <1>2, <1>4, <1>8, <1>9 DEF ReadHash, r
<1>11. p # b
  BY <1>8 DEF Enrollable, o, r
<1>12. h # <<>>
  BY <1>1, <1>3
<1> QED
  BY <1>10, <1>11, <1>12 DEF p

EnrollResults ==
  {"none", "usage", "io", "not_found", "panic", "dry_run", "no_op", "patched", "io_write", "crash"}

EnrollFlags == [dry : BOOLEAN, yes : BOOLEAN, tty : BOOLEAN]

EnrollRecord ==
  [pc : {"shell", "slot", "confirm", "write"},
   bin : Seq(CellValues), before : Seq(CellValues), data : Seq(CellValues),
   hash : Seq(CellValues), config : Configs \cup {<<>>},
   flags : EnrollFlags, result : EnrollResults, runs : Nat]

EnrollType == en \in EnrollRecord

(* During a run: what was read is the file, what is being written is a     *)
(* prefix of the patched binary, and the question comes only for a hash    *)
(* that fits a slot holding another one.                                   *)
EnrollRunning ==
  en.pc # "shell" =>
    /\ en.config \in Configs /\ en.hash = HashOf(en.config) /\ en.runs > 0
    /\ en.pc \in {"slot", "confirm"} => en.bin = en.before /\ en.data = en.before
    /\ en.pc \in {"confirm", "write"} => Enrollable(en.before, en.hash) /\ ~en.flags.dry
    /\ en.pc = "write" =>
         /\ en.data = PatchHash(en.before, en.hash)
         /\ \E n \in 0 .. Len(en.before) : en.bin = SubSeq(en.data, 1, n)

EnrollInv == EnrollType /\ EnrollRunning /\ EnrollPatches

-----------------------------------------------------------------------------
LEMMA EnrollInitInv == EnrollInit => EnrollInv
PROOF
<1> SUFFICES ASSUME EnrollInit PROVE EnrollInv
  OBVIOUS
<1>1. PICK bin \in Binaries :
    en = [pc |-> "shell", bin |-> bin, before |-> bin, data |-> <<>>, hash |-> <<>>, config |-> <<>>,
          flags |-> [dry |-> FALSE, yes |-> FALSE, tty |-> FALSE], result |-> "none", runs |-> 0]
  BY DEF EnrollInit
<1>2. bin \in Seq(CellValues) /\ <<>> \in Seq(CellValues)
  BY EnrollAssumption, EmptySeq
<1>3. EnrollType
  BY <1>1, <1>2 DEF EnrollType, EnrollRecord, EnrollFlags, EnrollResults
<1>4. en.pc = "shell" /\ en.runs = 0
  BY <1>1
<1> QED
  BY <1>3, <1>4 DEF EnrollInv, EnrollRunning, EnrollPatches

(* A run that ends without having written leaves the file it found. *)
LEMMA EndsUntouched ==
  ASSUME EnrollType', en'.pc = "shell", en'.bin = en'.before,
         en'.result \in {"usage", "io", "not_found", "panic", "dry_run"}
  PROVE  EnrollInv'
PROOF
<1>1. EnrollRunning'
  BY DEF EnrollRunning
<1>2. EnrollPatches'
  BY DEF EnrollPatches
<1> QED
  BY <1>1, <1>2 DEF EnrollInv

LEMMA EnrollStartInv == EnrollInv /\ EnrollStart => EnrollInv'
PROOF
<1> SUFFICES ASSUME EnrollInv, EnrollStart PROVE EnrollInv'
  OBVIOUS
<1>0. EnrollType
  BY DEF EnrollInv
<1>1. PICK config \in Configs, flags \in [dry : BOOLEAN, yes : BOOLEAN, tty : BOOLEAN] :
        LET e == [en EXCEPT !.before = en.bin, !.flags = flags, !.config = config,
                            !.hash = HashOf(config), !.data = en.bin, !.runs = @ + 1]
        IN  \/ en' = Finish(e, "usage")
            \/ en' = Finish(e, "io")
            \/ en' = [e EXCEPT !.pc = "slot"]
  BY DEF EnrollStart
<1> DEFINE e == [en EXCEPT !.before = en.bin, !.flags = flags, !.config = config,
                           !.hash = HashOf(config), !.data = en.bin, !.runs = @ + 1]
<1>2. HashOf(config) \in Seq(CellValues)
  BY EnrollAssumption
<1>3. flags \in EnrollFlags
  BY DEF EnrollFlags
<1>9. en.bin \in Seq(CellValues) /\ en.runs + 1 \in Nat /\ config \in Configs \cup {<<>>}
  BY <1>0 DEF EnrollType, EnrollRecord
<1>10. e \in EnrollRecord
  BY <1>0, <1>2, <1>3, <1>9, Zenon DEF EnrollType, EnrollRecord
<1>11. e.bin = en.bin /\ e.before = en.bin /\ e.data = en.bin
  BY <1>0 DEF EnrollType, EnrollRecord
<1>12. e.config = config /\ e.hash = HashOf(config) /\ e.runs = en.runs + 1
  BY <1>0 DEF EnrollType, EnrollRecord
<1>4. en' = Finish(e, "usage") \/ en' = Finish(e, "io") \/ en' = [e EXCEPT !.pc = "slot"]
  BY <1>1
<1> HIDE DEF e
<1>5. CASE en' = Finish(e, "usage")
  <2>1. EnrollType' /\ en'.pc = "shell" /\ en'.bin = en'.before /\ en'.result = "usage"
    BY <1>10, <1>11, <1>5 DEF Finish, EnrollType, EnrollRecord, EnrollResults
  <2> QED
    BY <2>1, EndsUntouched
<1>6. CASE en' = Finish(e, "io")
  <2>1. EnrollType' /\ en'.pc = "shell" /\ en'.bin = en'.before /\ en'.result = "io"
    BY <1>10, <1>11, <1>6 DEF Finish, EnrollType, EnrollRecord, EnrollResults
  <2> QED
    BY <2>1, EndsUntouched
<1>7. CASE en' = [e EXCEPT !.pc = "slot"]
  <2>1. EnrollType' /\ en'.pc = "slot" /\ en'.bin = en.bin /\ en'.before = en.bin /\ en'.data = en.bin
    BY <1>10, <1>11, <1>7 DEF EnrollType, EnrollRecord
  <2>2. en'.config = config /\ en'.hash = HashOf(config) /\ en'.runs = en.runs + 1
    BY <1>10, <1>12, <1>7 DEF EnrollRecord
  <2>3. en.runs \in Nat
    BY <1>0 DEF EnrollType, EnrollRecord
  <2>4. EnrollRunning'
    BY <2>1, <2>2, <2>3 DEF EnrollRunning
  <2>5. EnrollPatches'
    BY <2>1 DEF EnrollPatches
  <2> QED
    BY <2>1, <2>4, <2>5 DEF EnrollInv
<1> QED
  BY <1>4, <1>5, <1>6, <1>7

LEMMA EnrollSlotInv == EnrollInv /\ EnrollSlot => EnrollInv'
PROOF
<1> SUFFICES ASSUME EnrollInv, EnrollSlot PROVE EnrollInv'
  OBVIOUS
<1> DEFINE o == FindHashSlot(en.data)
           already == SubSeq(en.data, o + 1, o + HashLen) = en.hash
<1>0. EnrollType /\ EnrollRunning
  BY DEF EnrollInv
<1>1. /\ en.pc = "slot" /\ en.bin = en.before /\ en.data = en.before
      /\ en.config \in Configs /\ en.hash = HashOf(en.config) /\ en.runs > 0
  BY <1>0 DEF EnrollSlot, EnrollRunning
<1>2. en.before \in Seq(CellValues) /\ en.hash \in Seq(CellValues)
  BY <1>0 DEF EnrollType, EnrollRecord
<1>3. Len(en.hash) = HashLen /\ \E i \in 1 .. HashLen : en.hash[i] # Zero
  BY <1>1, EnrollAssumption
<1>4. ASSUME NEW r \in {"not_found", "panic", "dry_run"}, en' = Finish(en, r)
      PROVE  EnrollInv'
  <2>1. EnrollType'
    BY <1>0, <1>4 DEF Finish, EnrollType, EnrollRecord, EnrollResults
  <2>2. en'.pc = "shell" /\ en'.bin = en'.before /\ en'.result = r
    BY <1>0, <1>1, <1>4 DEF Finish, EnrollType, EnrollRecord
  <2> QED
    BY <2>1, <2>2, EndsUntouched
<1>5. CASE HasSlot(en.data) /\ o + HashLen <= Len(en.data) /\ already /\ en' = Finish(en, "no_op")
  <2>1. EnrollType'
    BY <1>0, <1>5 DEF Finish, EnrollType, EnrollRecord, EnrollResults
  <2>2. en'.pc = "shell" /\ en'.bin = en.before /\ en'.before = en.before /\ en'.result = "no_op"
    BY <1>0, <1>1, <1>5 DEF Finish, EnrollType, EnrollRecord
  <2>3. en'.config = en.config
    BY <1>0, <1>5 DEF Finish, EnrollType, EnrollRecord
  <2>4. SubSeq(en.before, FindHashSlot(en.before) + 1, FindHashSlot(en.before) + HashLen) = HashOf(en.config)
    BY <1>1, <1>5
  <2>5. VerifyConfigHash(en.before, en.config)
    BY <2>4 DEF VerifyConfigHash, ReadHash
  <2>6. EnrollPatches'
    BY <2>2, <2>3, <2>5 DEF EnrollPatches
  <2> QED
    BY <2>1, <2>2, <2>6 DEF EnrollInv, EnrollRunning
<1>6. CASE /\ HasSlot(en.data) /\ o + HashLen <= Len(en.data) /\ ~already /\ ~en.flags.dry
           /\ en' = [en EXCEPT !.pc = "confirm"]
  <2>1. EnrollType'
    BY <1>0, <1>6 DEF EnrollType, EnrollRecord
  <2>2. en'.pc = "confirm" /\ en'.bin = en.bin /\ en'.before = en.before /\ en'.data = en.data
    BY <1>0, <1>6 DEF EnrollType, EnrollRecord
  <2>3. en'.config = en.config /\ en'.hash = en.hash /\ en'.runs = en.runs /\ en'.flags = en.flags
    BY <1>0, <1>6 DEF EnrollType, EnrollRecord
  <2>4. Enrollable(en.before, en.hash)
    BY <1>1, <1>2, <1>3, <1>6 DEF Enrollable
  <2>5. EnrollRunning'
    BY <1>1, <1>6, <2>2, <2>3, <2>4 DEF EnrollRunning
  <2> QED
    BY <2>1, <2>2, <2>5 DEF EnrollInv, EnrollPatches
<1>7. o \in Nat /\ HashLen \in Nat /\ Len(en.data) \in Nat
  BY <1>1, <1>2, FindHashSlotFirst, EnrollAssumption
<1>8. en' = CASE ~HasSlot(en.data) -> Finish(en, "not_found")
              [] HasSlot(en.data) /\ o + HashLen > Len(en.data) -> Finish(en, "panic")
              [] OTHER -> IF en.flags.dry THEN Finish(en, "dry_run")
                          ELSE IF already THEN Finish(en, "no_op")
                          ELSE [en EXCEPT !.pc = "confirm"]
  BY DEF EnrollSlot
<1> HIDE DEF o, already
<1>9. CASE ~HasSlot(en.data)
  <2>1. en' = Finish(en, "not_found")
    BY <1>8, <1>9
  <2> QED
    BY <1>4, <2>1
<1>10. CASE HasSlot(en.data) /\ o + HashLen > Len(en.data)
  <2>1. en' = Finish(en, "panic")
    BY <1>8, <1>10
  <2> QED
    BY <1>4, <2>1
<1>11. CASE HasSlot(en.data) /\ ~(o + HashLen > Len(en.data))
  <2>1. en' = IF en.flags.dry THEN Finish(en, "dry_run")
              ELSE IF already THEN Finish(en, "no_op") ELSE [en EXCEPT !.pc = "confirm"]
    BY <1>8, <1>11
  <2>2. o + HashLen <= Len(en.data)
    BY <1>7, <1>11
  <2> QED
    BY <1>4, <1>5, <1>6, <1>11, <2>1, <2>2
<1> QED
  BY <1>9, <1>10, <1>11

LEMMA ConfirmInv == EnrollInv /\ ConfirmDestructive => EnrollInv'
PROOF
<1> SUFFICES ASSUME EnrollInv, ConfirmDestructive PROVE EnrollInv'
  OBVIOUS
<1>0. EnrollType /\ EnrollRunning
  BY DEF EnrollInv
<1>1. /\ en.pc = "confirm" /\ en.data = en.before
      /\ en.config \in Configs /\ en.hash = HashOf(en.config) /\ en.runs > 0
      /\ Enrollable(en.before, en.hash) /\ ~en.flags.dry
      /\ en' = [en EXCEPT !.pc = "write", !.data = PatchHash(@, en.hash), !.bin = <<>>]
  BY <1>0 DEF ConfirmDestructive, EnrollRunning
<1>2. PatchHash(en.before, en.hash) \in Seq(CellValues)
  BY <1>1, PatchWrites
<1>3. <<>> \in Seq(CellValues) /\ en.before \in Seq(CellValues) /\ Len(en.before) \in Nat
  BY <1>0 DEF EnrollType, EnrollRecord
<1>4. EnrollType'
  <2>1. PatchHash(en.data, en.hash) \in Seq(CellValues)
    BY <1>1, <1>2
  <2> QED
    BY <1>0, <1>1, <1>3, <2>1, Zenon DEF EnrollType, EnrollRecord
<1>5. en'.pc = "write" /\ en'.bin = <<>> /\ en'.before = en.before
  BY <1>0, <1>1 DEF EnrollType, EnrollRecord
<1>6. en'.data = PatchHash(en.before, en.hash) /\ en'.hash = en.hash /\ en'.config = en.config
  BY <1>0, <1>1 DEF EnrollType, EnrollRecord
<1>7. en'.runs = en.runs /\ en'.flags = en.flags
  BY <1>0, <1>1 DEF EnrollType, EnrollRecord
<1>8. en'.bin = SubSeq(en'.data, 1, 0) /\ 0 \in 0 .. Len(en.before)
  BY <1>3, <1>5, SubSeqEmpty
<1>9. EnrollRunning'
  BY <1>1, <1>5, <1>6, <1>7, <1>8 DEF EnrollRunning
<1> QED
  BY <1>4, <1>5, <1>9 DEF EnrollInv, EnrollPatches

LEMMA DeclinedInv == EnrollInv /\ Declined => EnrollInv'
PROOF
<1> SUFFICES ASSUME EnrollInv, Declined PROVE EnrollInv'
  OBVIOUS
<1>0. EnrollType /\ EnrollRunning
  BY DEF EnrollInv
<1>1. en.bin = en.before /\ en' = Finish(en, "usage")
  BY <1>0 DEF Declined, EnrollRunning
<1>2. EnrollType'
  BY <1>0, <1>1 DEF Finish, EnrollType, EnrollRecord, EnrollResults
<1>3. en'.pc = "shell" /\ en'.bin = en'.before /\ en'.result = "usage"
  BY <1>0, <1>1 DEF Finish, EnrollType, EnrollRecord
<1> QED
  BY <1>2, <1>3, EndsUntouched

LEMMA WritePieceInv == EnrollInv /\ WritePiece => EnrollInv'
PROOF
<1> SUFFICES ASSUME EnrollInv, WritePiece PROVE EnrollInv'
  OBVIOUS
<1> DEFINE b == en.before
           h == en.hash
           p == PatchHash(b, h)
<1>0. EnrollType /\ EnrollRunning
  BY DEF EnrollInv
<1>1. /\ en.pc = "write" /\ en.config \in Configs /\ h = HashOf(en.config) /\ en.runs > 0
      /\ Enrollable(b, h) /\ ~en.flags.dry /\ en.data = p
  BY <1>0 DEF WritePiece, EnrollRunning
<1>2. PICK n \in 0 .. Len(b) : en.bin = SubSeq(p, 1, n)
  BY <1>0, <1>1 DEF EnrollRunning
<1>3. b \in Seq(CellValues) /\ p \in Seq(CellValues) /\ Len(p) = Len(b) /\ Len(b) \in Nat
  BY <1>1, PatchWrites DEF Enrollable
<1>4. Len(en.bin) = n
  <2>1. \A i \in 1 .. n : p[i] \in CellValues
    BY <1>3
  <2>2. Len(SubSeq(p, 1, n)) = IF 1 <= n THEN n - 1 + 1 ELSE 0
    BY <2>1, SubSeqProperties
  <2> QED
    BY <1>2, <1>3, <2>2
<1>5. CASE Len(en.bin) < Len(en.data) /\ en' = [en EXCEPT !.bin = SubSeq(en.data, 1, Len(@) + 1)]
  <2>1. n + 1 \in 0 .. Len(b)
    BY <1>1, <1>3, <1>4, <1>5
  <2>2. SubSeq(p, 1, n + 1) \in Seq(CellValues)
    <3>1. \A i \in 1 .. n + 1 : p[i] \in CellValues
      BY <1>3, <2>1
    <3> QED
      BY <3>1, SubSeqProperties
  <2>3. en' = [en EXCEPT !.bin = SubSeq(p, 1, n + 1)]
    BY <1>0, <1>1, <1>4, <1>5 DEF EnrollType, EnrollRecord
  <2>4. EnrollType'
    BY <1>0, <2>2, <2>3, Zenon DEF EnrollType, EnrollRecord
  <2>5. en'.pc = "write" /\ en'.bin = SubSeq(p, 1, n + 1) /\ en'.before = b /\ en'.data = p
    BY <1>0, <1>1, <2>3 DEF EnrollType, EnrollRecord
  <2>6. en'.hash = h /\ en'.config = en.config /\ en'.runs = en.runs /\ en'.flags = en.flags
    BY <1>0, <2>3 DEF EnrollType, EnrollRecord
  <2> HIDE DEF b, h, p
  <2>7. EnrollRunning'
    BY <1>1, <2>1, <2>5, <2>6 DEF EnrollRunning, b, h, p
  <2> QED
    BY <2>4, <2>5, <2>7 DEF EnrollInv, EnrollPatches
<1>6. ASSUME NEW r \in {"patched", "io_write", "crash"}, en' = Finish(en, r)
      PROVE  /\ EnrollType' /\ en'.pc = "shell" /\ en'.bin = en.bin /\ en'.before = b /\ en'.hash = h
             /\ en'.config = en.config /\ en'.flags = en.flags /\ en'.result = r
  <2>1. EnrollType'
    BY <1>0, <1>6 DEF Finish, EnrollType, EnrollRecord, EnrollResults
  <2>2. en'.pc = "shell" /\ en'.bin = en.bin /\ en'.before = b /\ en'.hash = h
    BY <1>0, <1>6 DEF Finish, EnrollType, EnrollRecord
  <2>3. en'.config = en.config /\ en'.flags = en.flags /\ en'.result = r
    BY <1>0, <1>6 DEF Finish, EnrollType, EnrollRecord
  <2> QED
    BY <2>1, <2>2, <2>3
<1>7. CASE Len(en.bin) = Len(en.data) /\ en' = Finish(en, "patched")
  <2>1. /\ EnrollType' /\ en'.pc = "shell" /\ en'.bin = en.bin /\ en'.before = b /\ en'.hash = h
        /\ en'.config = en.config /\ en'.flags = en.flags /\ en'.result = "patched"
    BY <1>6, <1>7
  <2>2. en.bin = p
    BY <1>1, <1>2, <1>3, <1>4, <1>7, SubSeqFull
  <2>3. \E o \in DOMAIN b :
          /\ b[o] = Sig /\ \A i \in 1 .. o - 1 : b[i] # Sig
          /\ \A i \in DOMAIN p : p[i] = IF i \in o + 1 .. o + HashLen THEN h[i - o] ELSE b[i]
    <3>1. FindHashSlot(b) \in DOMAIN b
      BY <1>1, <1>3, FindHashSlotFirst DEF Enrollable, HasSlot
    <3>2. b[FindHashSlot(b)] = Sig /\ \A i \in 1 .. FindHashSlot(b) - 1 : b[i] # Sig
      BY <1>1, <1>3, FindHashSlotFirst DEF Enrollable
    <3>3. \A i \in DOMAIN p : p[i] = IF i \in FindHashSlot(b) + 1 .. FindHashSlot(b) + HashLen
                                      THEN h[i - FindHashSlot(b)] ELSE b[i]
      BY <1>1, <1>3, PatchWrites
    <3> QED
      BY <3>1, <3>2, <3>3, Zenon
  <2>4. p # b /\ \A c \in Configs : VerifyConfigHash(p, c) <=> HashOf(c) = HashOf(en.config)
    BY <1>1, PatchReadsBack DEF VerifyConfigHash
  <2> HIDE DEF b, h, p
  <2>5. EnrollPatches'
    <3>1. Len(en'.bin) = Len(en'.before)
      BY <1>3, <2>1, <2>2
    <3>2. \E o \in DOMAIN en'.before :
            /\ en'.before[o] = Sig /\ \A i \in 1 .. o - 1 : en'.before[i] # Sig
            /\ \A i \in DOMAIN en'.bin :
                 en'.bin[i] = IF i \in o + 1 .. o + HashLen THEN en'.hash[i - o] ELSE en'.before[i]
      <4>1. b = en'.before /\ p = en'.bin /\ h = en'.hash
        BY <2>1, <2>2
      <4> QED
        BY ONLY <2>3, <4>1
    <3>3. en'.bin # en'.before /\ ~en'.flags.dry
      BY <1>1, <2>1, <2>2, <2>4
    <3>4. \A c \in Configs : VerifyConfigHash(en'.bin, c) <=> HashOf(c) = HashOf(en'.config)
      BY <2>1, <2>2, <2>4
    <3> QED
      BY <2>1, <3>1, <3>2, <3>3, <3>4, Zenon DEF EnrollPatches
  <2> QED
    BY <2>1, <2>5 DEF EnrollInv, EnrollRunning
<1>8. ASSUME NEW r \in {"io_write", "crash"}, en' = Finish(en, r)
      PROVE  EnrollInv'
  <2>1. /\ EnrollType' /\ en'.pc = "shell" /\ en'.bin = en.bin /\ en'.before = b /\ en'.hash = h
        /\ en'.result = r
    BY <1>6, <1>8
  <2>2. EnrollPatches'
    BY <1>2, <2>1 DEF EnrollPatches
  <2> QED
    BY <2>1, <2>2 DEF EnrollInv, EnrollRunning
<1> QED
  BY <1>5, <1>7, <1>8 DEF WritePiece

(* However often enroll-config is run, whatever is answered and wherever a *)
(* write is cut off: success means that the binary differs from the one    *)
(* found in the first slot's hash alone and that the loader accepts with   *)
(* it exactly the configurations of that hash; a refusal, a dry run and a  *)
(* no-op leave the file alone; and only an interrupted write leaves        *)
(* anything else, a prefix of the patched binary.                          *)
THEOREM EnrollmentIsWhole == EnrollSpec => []EnrollPatches
PROOF
<1>1. EnrollInv /\ UNCHANGED en => EnrollInv'
  BY DEF EnrollInv, EnrollType, EnrollRunning, EnrollPatches
<1>2. EnrollInv /\ [EnrollNext]_en => EnrollInv'
  BY <1>1, EnrollStartInv, EnrollSlotInv, ConfirmInv, DeclinedInv, WritePieceInv DEF EnrollNext
<1>3. EnrollInv => EnrollPatches
  BY DEF EnrollInv
<1> QED
  BY EnrollInitInv, <1>2, <1>3, PTL DEF EnrollSpec

----------------------------------------------------------------------------
(***************************************************************************)
(* The command line, for every list of arguments and every environment.    *)
(***************************************************************************)
CliSpec == CliInit /\ [][CliNext]_cli

DryNames == {"--dry-run", "-n"}

YesNames == {"--yes", "-y", "--force"}

(* One of these flags is among the arguments before the i-th. *)
AskedBefore(args, names, i) ==
  \E k \in 1..(i - 1) : Flag(names, args[k]) /\ ~IsValue(args, k)

(* No "--" of its own ends the global flags before the i-th argument. *)
NoEndBefore(args, i) ==
  \A j \in 1..(i - 1) : args[j] = <<"--">> => IsValue(args, j)

(* The i-th argument is the next parse_globals looks at: it is nobody's    *)
(* value, and the flags hold what the ones before it ask for.              *)
Heard(args, i, flags) ==
  /\ i \in 1..(Len(args) + 1)
  /\ ~IsValue(args, i)
  /\ NoEndBefore(args, i)
  /\ AskedBefore(args, DryNames, i) => flags.dry_run
  /\ flags.yes \/ flags.force => AskedBefore(args, YesNames, i)

(* The flags hold what the whole command line asks for. *)
Meant(args, flags) ==
  /\ Asked(args, DryNames) => flags.dry_run
  /\ flags.yes \/ flags.force => Asked(args, YesNames)

FlagRecords ==
  [format : FormatNames \cup {"none"}, json : BOOLEAN, dry_run : BOOLEAN, quiet : BOOLEAN,
   color : ColorNames, yes : BOOLEAN, force : BOOLEAN, help : BOOLEAN, version : BOOLEAN]

Environments ==
  [stdout_is_tty : BOOLEAN, stdin_is_tty : BOOLEAN, agent_mode : BOOLEAN, ci_mode : BOOLEAN,
   term_is_dumb : BOOLEAN, no_color : BOOLEAN, force_color : BOOLEAN, cli_color_off : BOOLEAN]

Policies == [format : FormatNames, color : BOOLEAN]

Codes == IoCodes \cup {"none", "usage", "invalid"}

CliRecords ==
  [pc : {"globals", "run", "body", "confirm", "write", "emit", "tui", "keys", "restore", "exited"},
   args : CommandLines, env : Environments, flags : FlagRecords, i : Nat, saw_subcommand : BOOLEAN,
   policy : Policies, sub : Commands \cup {"none"}, rest : Seq(Seq(STRING)), typed : BOOLEAN,
   written : BOOLEAN, raw : BOOLEAN, in_filter : BOOLEAN, code : Codes, exit : -1..6]

(* What lets a destructive command change its target. *)
Granted(state) ==
  /\ ~state.flags.dry_run
  /\ state.flags.yes \/ state.flags.force \/ (state.typed /\ state.env.stdin_is_tty)

(* The inductive invariant: the flags while they are parsed and after;     *)
(* who may write, and who has; who may hold the terminal, and who does.    *)
CliSafe(state) ==
  /\ state.pc = "globals" => Heard(state.args, state.i, state.flags)
  /\ state.pc = "run" \/ state.sub # "none" => Meant(state.args, state.flags)
  /\ state.pc \in {"globals", "run"} => state.sub = "none"
  /\ state.pc = "confirm" => ~state.flags.dry_run
  /\ state.pc = "write" => Granted(state)
  /\ state.written /\ state.sub \in Destructive => Granted(state)
  /\ state.pc \in {"globals", "run", "body", "confirm", "write"} => ~state.written
  /\ state.pc # "exited" => state.exit = -1
  /\ state.exit = 2 => ~state.written
  /\ state.exit = 0 => ~state.raw
  /\ state.raw => state.pc \in {"keys", "restore", "exited"}
  /\ state.raw \/ state.pc \in {"tui", "keys", "restore"} => ~ShouldFallBack(state.env)
  /\ state.policy.color => ~IsMachine(state.policy.format)

CliInv == cli \in CliRecords /\ CliSafe(cli)

(* After an argument that is nobody's value: the next one is its value if  *)
(* it takes one, and the one after that is not.                            *)
LEMMA ValuesAlternate ==
  ASSUME NEW args, NEW i \in Nat \ {0}, ~IsValue(args, i)
  PROVE  /\ ~TakesNext(args[i]) => ~IsValue(args, i + 1)
         /\ TakesNext(args[i]) => IsValue(args, i + 1) /\ ~IsValue(args, i + 2)
<1>1. ASSUME ~TakesNext(args[i]), IsValue(args, i + 1) PROVE FALSE
  <2>1. PICK j \in 1..i : \A k \in j..i : TakesNext(args[k])
    BY <1>1 DEF IsValue
  <2> QED
    BY <1>1, <2>1
<1>2. ASSUME TakesNext(args[i]) PROVE IsValue(args, i + 1)
  <2> DEFINE T == {j \in 1..i : \A k \in j..i : TakesNext(args[k])}
  <2>1. T \subseteq Nat /\ i \in T
    BY <1>2
  <2>2. PICK j \in T : \A y \in T : j <= y
    <3>1. T # {}
      BY <2>1
    <3> HIDE DEF T
    <3>2. Min(T) \in T /\ \A y \in T : Min(T) <= y
      BY <2>1, <3>1, LeastNatural
    <3> QED
      BY <3>2, Zenon
  <2>3. j \in 1..i /\ \A k \in j..i : TakesNext(args[k])
    BY <2>2
  <2>4. j > 1 => ~TakesNext(args[j - 1])
    <3>1. SUFFICES ASSUME j > 1, TakesNext(args[j - 1]) PROVE FALSE
      OBVIOUS
    <3>2. j - 1 \in 1..i
      BY <2>3, <3>1
    <3>3. \A k \in (j - 1)..i : TakesNext(args[k])
      BY <2>3, <3>1
    <3>4. j <= j - 1
      BY <2>2, <3>2, <3>3
    <3> QED
      BY <2>3, <3>4
  <2> HIDE DEF T
  <2>5. ((i + 1) - j) % 2 = 1
    <3>1. CASE j = i
      BY <3>1
    <3>2. CASE j < i
      <4>1. (i - j) % 2 # 1
        BY <2>3, <2>4, <3>2 DEF IsValue
      <4> QED
        BY <2>3, <4>1
    <3> QED
      BY <2>3, <3>1, <3>2
  <2> QED
    BY <2>3, <2>4, <2>5 DEF IsValue
<1>3. ASSUME TakesNext(args[i]), IsValue(args, i + 2) PROVE FALSE
  <2>1. PICK j \in 1..(i + 1) : /\ ((i + 2) - j) % 2 = 1
                                /\ \A k \in j..(i + 1) : TakesNext(args[k])
                                /\ j > 1 => ~TakesNext(args[j - 1])
    BY <1>3 DEF IsValue
  <2>2. j # i + 1
    BY <1>3, <2>1
  <2>3. j # i
    BY <2>1
  <2>4. j \in 1..(i - 1) /\ (i - j) % 2 = 1 /\ \A k \in j..(i - 1) : TakesNext(args[k])
    BY <2>1, <2>2, <2>3
  <2> QED
    BY <2>1, <2>4 DEF IsValue
<1> QED
  BY <1>1, <1>2, <1>3

(* One argument that is no "--" of its own and takes no value. *)
LEMMA OneHeard ==
  ASSUME NEW args \in CommandLines, NEW i \in 1..Len(args), NEW flags, NEW next,
         Heard(args, i, flags), ~TakesNext(args[i]), ~Flag({"--"}, args[i]),
         flags.dry_run \/ Flag(DryNames, args[i]) => next.dry_run,
         next.yes \/ next.force => flags.yes \/ flags.force \/ Flag(YesNames, args[i])
  PROVE  Heard(args, i + 1, next)
<1>1. args \in Seq(Seq(STRING))
  BY CliAssumption
<1>2. ~IsValue(args, i) /\ ~IsValue(args, i + 1)
  BY <1>1, ValuesAlternate DEF Heard
<1>3. args[i] # <<"--">>
  <2>1. Len(<<"--">>) = 1 /\ <<"--">>[1] \in {"--"}
    OBVIOUS
  <2> QED
    BY <2>1 DEF Flag
<1>4. NoEndBefore(args, i + 1)
  BY <1>1, <1>3 DEF Heard, NoEndBefore
<1>5. \A names : AskedBefore(args, names, i + 1) <=> AskedBefore(args, names, i) \/ Flag(names, args[i])
  BY <1>1, <1>2 DEF AskedBefore
<1>6. i + 1 \in 1..(Len(args) + 1)
  BY <1>1
<1> QED
  BY <1>2, <1>4, <1>5, <1>6, Zenon DEF Heard

(* An option with its value in the next argument. *)
LEMMA TwoHeard ==
  ASSUME NEW args \in CommandLines, NEW i \in 1..(Len(args) - 1), NEW flags, NEW next,
         Heard(args, i, flags), TakesNext(args[i]),
         next.dry_run = flags.dry_run, next.yes = flags.yes, next.force = flags.force
  PROVE  Heard(args, i + 2, next)
<1>1. args \in Seq(Seq(STRING))
  BY CliAssumption
<1>2. ~IsValue(args, i) /\ IsValue(args, i + 1) /\ ~IsValue(args, i + 2)
  BY <1>1, ValuesAlternate DEF Heard
<1>3. args[i] # <<"--">> /\ ~Flag(DryNames, args[i]) /\ ~Flag(YesNames, args[i])
  BY DEF TakesNext, Flag, DryNames, YesNames
<1>4. NoEndBefore(args, i + 2)
  BY <1>1, <1>2, <1>3 DEF Heard, NoEndBefore
<1>5. ASSUME NEW names, ~Flag(names, args[i])
      PROVE  AskedBefore(args, names, i + 2) <=> AskedBefore(args, names, i)
  <2>1. 1..((i + 2) - 1) = (1..(i - 1)) \cup {i, i + 1}
    BY <1>1
  <2> QED
    BY <1>2, <1>5, <2>1, Zenon DEF AskedBefore
<1>6. i + 2 \in 1..(Len(args) + 1)
  BY <1>1
<1> QED
  BY <1>2, <1>3, <1>4, <1>5, <1>6, Zenon DEF Heard

(* At the end of the arguments, or at a "--" of its own, the flags hold    *)
(* what the command line asks for.                                         *)
LEMMA AllHeard ==
  ASSUME NEW args \in CommandLines, NEW i, NEW flags, Heard(args, i, flags),
         i > Len(args) \/ Flag({"--"}, args[i])
  PROVE  Meant(args, flags)
<1>1. args \in Seq(Seq(STRING)) /\ i \in 1..(Len(args) + 1)
  BY CliAssumption DEF Heard
<1>2. ASSUME AskedBefore(args, YesNames, i) PROVE Asked(args, YesNames)
  <2>1. PICK k \in 1..(i - 1) : Flag(YesNames, args[k]) /\ ~IsValue(args, k)
    BY <1>2, Zenon DEF AskedBefore
  <2>2. k \in DOMAIN args /\ 1..(k - 1) \subseteq 1..(i - 1)
    BY <1>1
  <2> QED
    BY <2>1, <2>2, Zenon DEF Heard, NoEndBefore, Asked
<1>3. ASSUME Asked(args, DryNames) PROVE AskedBefore(args, DryNames, i)
  <2>1. PICK k \in DOMAIN args :
          /\ Flag(DryNames, args[k]) /\ ~IsValue(args, k)
          /\ \A j \in 1..(k - 1) : args[j] = <<"--">> => IsValue(args, j)
    BY <1>3, Zenon DEF Asked
  <2> k \in 1..Len(args)
    BY <1>1
  <2>2. CASE k < i
    <3>1. k \in 1..(i - 1)
      BY <1>1, <2>2
    <3> QED
      BY <2>1, <3>1, Zenon DEF AskedBefore
  <2>3. CASE k >= i
    <3>1. Flag({"--"}, args[i]) /\ i \in 1..Len(args)
      BY <1>1, <2>3
    <3>2. k # i
      BY <2>1, <3>1 DEF Flag, DryNames
    <3>3. args[i] = <<"--">>
      BY <1>1, <3>1 DEF Flag
    <3>4. i \in 1..(k - 1)
      BY <1>1, <2>3, <3>2
    <3> QED
      BY <2>1, <3>3, <3>4, Zenon DEF Heard
  <2> QED
    BY <1>1, <2>2, <2>3
<1> QED
  BY <1>2, <1>3 DEF Heard, Meant

(* An error decides the exit status and changes nothing else. *)
LEMMA FailFacts ==
  ASSUME NEW s \in CliRecords, NEW code \in Codes
  PROVE  LET t == Fail(s, code)
         IN /\ t \in CliRecords /\ t.pc = "exited" /\ t.exit = ExitCode(code)
            /\ t.args = s.args /\ t.env = s.env /\ t.flags = s.flags /\ t.policy = s.policy
            /\ t.sub = s.sub /\ t.typed = s.typed /\ t.written = s.written /\ t.raw = s.raw
<1>1. ExitCode(code) \in -1..6
  BY DEF ExitCode, Codes, IoCodes
<1>2. Fail(s, code) \in CliRecords
  BY <1>1, Zenon DEF Fail, CliRecords
<1>3. Fail(s, code).pc = "exited" /\ Fail(s, code).exit = ExitCode(code) /\ Fail(s, code).args = s.args
  BY Zenon DEF Fail, CliRecords
<1>4. Fail(s, code).env = s.env /\ Fail(s, code).flags = s.flags /\ Fail(s, code).policy = s.policy
  BY Zenon DEF Fail, CliRecords
<1>5. Fail(s, code).sub = s.sub /\ Fail(s, code).typed = s.typed
  BY Zenon DEF Fail, CliRecords
<1>6. Fail(s, code).written = s.written /\ Fail(s, code).raw = s.raw
  BY Zenon DEF Fail, CliRecords
<1> QED
  BY <1>2, <1>3, <1>4, <1>5, <1>6

(* What a state needs for an error to end the command there. *)
MayFail(state) ==
  /\ state.sub # "none" => Meant(state.args, state.flags)
  /\ state.written /\ state.sub \in Destructive => Granted(state)
  /\ state.raw => ~ShouldFallBack(state.env)
  /\ state.policy.color => ~IsMachine(state.policy.format)

LEMMA SafeMayFail ==
  ASSUME NEW s, CliSafe(s)
  PROVE  MayFail(s)
  BY Zenon DEF CliSafe, MayFail

(* An error where nothing is written, or one that is not about the         *)
(* arguments, keeps the invariant.                                         *)
LEMMA FailSafe ==
  ASSUME NEW s \in CliRecords, MayFail(s),
         NEW code \in Codes \ {"none"}, ~s.written \/ code \in IoCodes
  PROVE  Fail(s, code) \in CliRecords /\ CliSafe(Fail(s, code))
<1> DEFINE t == Fail(s, code)
<1>1. /\ t \in CliRecords /\ t.pc = "exited" /\ t.exit = ExitCode(code)
      /\ t.args = s.args /\ t.env = s.env /\ t.flags = s.flags /\ t.policy = s.policy
      /\ t.sub = s.sub /\ t.typed = s.typed /\ t.written = s.written /\ t.raw = s.raw
  BY FailFacts
<1>2. ExitCode(code) # 0 /\ (ExitCode(code) = 2 => code \notin IoCodes)
  BY DEF ExitCode, Codes, IoCodes
<1> HIDE DEF t
<1>3. Granted(t) <=> Granted(s)
  BY <1>1, Zenon DEF Granted
<1>4. CliSafe(t)
  BY <1>1, <1>2, <1>3 DEF CliSafe, MayFail
<1> QED
  BY <1>1, <1>4 DEF t

(* A command that ends well with the terminal as it was keeps it. *)
LEMMA SucceedSafe ==
  ASSUME NEW s \in CliRecords, CliSafe(s), s.pc # "exited", ~s.raw
  PROVE  Succeed(s) \in CliRecords /\ CliSafe(Succeed(s))
<1> DEFINE t == Succeed(s)
<1>1. t \in CliRecords
  <2>1. 0 \in -1..6
    OBVIOUS
  <2> QED
    BY <2>1, Zenon DEF Succeed, CliRecords
<1>2. t.pc = "exited" /\ t.exit = 0 /\ t.args = s.args
  BY Zenon DEF Succeed, CliRecords
<1>3. t.env = s.env /\ t.flags = s.flags /\ t.policy = s.policy
  BY Zenon DEF Succeed, CliRecords
<1>4. t.sub = s.sub /\ t.typed = s.typed /\ t.written = s.written /\ t.raw = s.raw
  BY Zenon DEF Succeed, CliRecords
<1> HIDE DEF t
<1>5. Granted(t) <=> Granted(s)
  BY <1>3, <1>4, Zenon DEF Granted
<1>6. CliSafe(t)
  BY <1>2, <1>3, <1>4, <1>5 DEF CliSafe
<1> QED
  BY <1>1, <1>6 DEF t

(* A machine format is never coloured. *)
LEMMA PolicyKept ==
  ASSUME NEW flags \in FlagRecords, NEW env \in Environments
  PROVE  /\ ResolvePolicy(flags, env) \in Policies
         /\ ResolvePolicy(flags, env).color => ~IsMachine(ResolvePolicy(flags, env).format)
<1> DEFINE format == ResolveFormat(flags.format, flags.json, env)
<1>1. flags.format \in FormatNames \cup {"none"}
  BY DEF FlagRecords
<1>2. format \in FormatNames
  BY <1>1, Zenon DEF ResolveFormat, FormatNames
<1> DEFINE color == ResolveColor(flags.color, format, env)
           policy == ResolvePolicy(flags, env)
<1>3. color \in BOOLEAN
  BY Zenon DEF ResolveColor
<1>4. color => ~IsMachine(format)
  BY Zenon DEF ResolveColor
<1>5. policy = [format |-> format, color |-> color]
  BY Zenon DEF ResolvePolicy
<1> HIDE DEF format, color, policy
<1>6. policy.format = format /\ policy.color = color
  BY <1>5
<1>7. policy \in Policies
  BY <1>2, <1>3, <1>5 DEF Policies
<1> QED
  BY <1>4, <1>6, <1>7, Zenon DEF policy

(* The environment and the first policy are what they should be. *)
LEMMA CliInitInv == CliInit => CliInv
<1> SUFFICES ASSUME CliInit PROVE CliInv
  OBVIOUS
<1>1. PICK args \in CommandLines, vars \in Variables :
        cli = [pc |-> "globals", args |-> args, env |-> EnvSnapshot(vars), flags |-> GlobalFlags,
               i |-> 1, saw_subcommand |-> FALSE,
               policy |-> FallbackPolicy(EnvSnapshot(vars)), sub |-> "none", rest |-> <<>>,
               typed |-> FALSE, written |-> FALSE, raw |-> FALSE, in_filter |-> FALSE,
               code |-> "none", exit |-> -1]
  BY Zenon DEF CliInit
<1> DEFINE env == EnvSnapshot(vars)
<1>2. env \in Environments
  BY CliAssumption, Zenon DEF EnvSnapshot, Environments, Truthy, Filled
<1>3. GlobalFlags \in FlagRecords /\ ~GlobalFlags.dry_run /\ ~GlobalFlags.yes /\ ~GlobalFlags.force
  BY Zenon DEF GlobalFlags, FlagRecords, ColorNames
<1> HIDE DEF env
<1>4. /\ FallbackPolicy(env) \in Policies
      /\ FallbackPolicy(env).color => ~IsMachine(FallbackPolicy(env).format)
  BY <1>2, <1>3, PolicyKept DEF FallbackPolicy
<1>5. args \in Seq(Seq(STRING)) /\ Len(args) \in Nat
  BY CliAssumption
<1>6. Heard(args, 1, GlobalFlags)
  <2>1. 1..(1 - 1) = {} /\ 1 \in 1..(Len(args) + 1)
    BY <1>5
  <2> QED
    BY <1>3, <2>1, Zenon DEF Heard, IsValue, NoEndBefore, AskedBefore
<1>7. cli \in CliRecords
  <2>1. 1 \in Nat /\ -1 \in -1..6 /\ <<>> \in Seq(Seq(STRING))
    OBVIOUS
  <2> QED
    BY <1>1, <1>2, <1>3, <1>4, <2>1, Zenon DEF CliRecords, Codes, env
<1>8. /\ cli.pc = "globals" /\ cli.args = args /\ cli.flags = GlobalFlags /\ cli.i = 1
      /\ cli.policy = FallbackPolicy(env) /\ cli.sub = "none" /\ cli.exit = -1
  BY <1>1 DEF env
<1>9. ~cli.written /\ ~cli.raw
  BY <1>1, Zenon
<1> QED
  BY <1>4, <1>6, <1>7, <1>8, <1>9 DEF CliInv, CliSafe

(* A step of parse_globals that leaves only the flags, the place and the   *)
(* rest changed keeps the invariant when the flags hold what was heard.    *)
LEMMA ParsedInv ==
  ASSUME CliInv, cli.pc = "globals", NEW flags \in FlagRecords, NEW i \in Nat,
         Heard(cli.args, i, flags),
         cli' = [cli EXCEPT !.flags = flags, !.i = i]
  PROVE  CliInv'
<1>1. cli \in CliRecords
  BY DEF CliInv
<1>2. cli' \in CliRecords
  BY <1>1, Zenon DEF CliRecords
<1>3. cli'.pc = cli.pc /\ cli'.args = cli.args /\ cli'.flags = flags /\ cli'.i = i
  BY <1>1, Zenon DEF CliRecords
<1>4. cli'.env = cli.env /\ cli'.policy = cli.policy /\ cli'.sub = cli.sub /\ cli'.exit = cli.exit
  BY <1>1, Zenon DEF CliRecords
<1>5. cli'.written = cli.written /\ cli'.raw = cli.raw
  BY <1>1, Zenon DEF CliRecords
<1> QED
  BY <1>2, <1>3, <1>4, <1>5 DEF CliInv, CliSafe

(* An argument taken as a global flag: the flags hold what it asks for. *)
LEMMA TakeHeard ==
  ASSUME CliInv, cli.pc = "globals", cli.i <= Len(cli.args), NEW flags \in FlagRecords,
         ~TakesNext(cli.args[cli.i]), ~Flag({"--"}, cli.args[cli.i]),
         cli.flags.dry_run \/ Flag(DryNames, cli.args[cli.i]) => flags.dry_run,
         flags.yes \/ flags.force =>
           cli.flags.yes \/ cli.flags.force \/ Flag(YesNames, cli.args[cli.i]),
         cli' = [cli EXCEPT !.flags = flags, !.i = @ + 1]
  PROVE  CliInv'
<1>1. cli.args \in CommandLines /\ cli.i \in Nat /\ cli.flags \in FlagRecords
  BY Zenon DEF CliInv, CliRecords
<1>2. Heard(cli.args, cli.i, cli.flags) /\ cli.i \in 1..Len(cli.args)
  BY <1>1 DEF CliInv, CliSafe, Heard
<1>3. Heard(cli.args, cli.i + 1, flags)
  BY <1>1, <1>2, OneHeard, Zenon
<1>4. cli.i + 1 \in Nat
  BY <1>1
<1> QED
  BY <1>3, <1>4, ParsedInv

(* An option whose value is refused. *)
LEMMA ValueRefused ==
  ASSUME CliInv, cli.pc = "globals", cli' = Fail(cli, "usage")
  PROVE  CliInv'
<1>1. cli \in CliRecords /\ ~cli.written /\ CliSafe(cli)
  BY DEF CliInv, CliSafe
<1>2. "usage" \in Codes \ {"none"}
  BY DEF Codes
<1> QED
  BY <1>1, <1>2, FailSafe, SafeMayFail, Zenon DEF CliInv

(* An option taken with its value. *)
LEMMA TakeValueHeard ==
  ASSUME CliInv, cli.pc = "globals", cli.i <= Len(cli.args), NEW flags \in FlagRecords,
         cli.args[cli.i][1] \in {"--format", "--fields", "--color"},
         flags.dry_run = cli.flags.dry_run, flags.yes = cli.flags.yes, flags.force = cli.flags.force,
         ValueAt(cli.args, cli.i) # Unset,
         cli' = [cli EXCEPT !.flags = flags, !.i = After(cli.args, @)]
  PROVE  CliInv'
<1> DEFINE args == cli.args
           i == cli.i
<1>1. cli \in CliRecords /\ args \in CommandLines /\ i \in Nat /\ cli.flags \in FlagRecords
  BY Zenon DEF CliInv, CliRecords
<1>2. Heard(args, i, cli.flags) /\ i \in 1..Len(args) /\ args \in Seq(Seq(STRING))
  BY <1>1, CliAssumption DEF CliInv, CliSafe, Heard
<1>3. Len(args[i]) \in {1, 2}
  BY <1>1, <1>2, CliAssumption
<1> HIDE DEF args, i
<1>4. CASE Len(args[i]) = 2
  <2>1. After(args, i) = i + 1
    BY <1>4 DEF After
  <2>2. ~TakesNext(args[i]) /\ ~Flag({"--"}, args[i]) /\ ~Flag(DryNames, args[i])
    BY <1>4 DEF TakesNext, Flag
  <2>3. Heard(args, i + 1, flags)
    BY <1>1, <1>2, <2>2, OneHeard, Zenon
  <2>4. cli' = [cli EXCEPT !.flags = flags, !.i = After(args, i)]
    BY Zenon DEF args, i
  <2>5. i + 1 \in Nat
    BY <1>1
  <2> QED
    BY <1>4, <2>1, <2>3, <2>4, <2>5, ParsedInv, Zenon DEF args
<1>5. CASE Len(args[i]) = 1
  <2>1. After(args, i) = i + 2
    BY <1>5 DEF After
  <2>2. i < Len(args)
    BY <1>5, <1>2 DEF ValueAt, args, i
  <2>3. TakesNext(args[i]) /\ i \in 1..(Len(args) - 1)
    BY <1>2, <1>5, <2>2 DEF TakesNext, Flag, args, i
  <2>4. Heard(args, i + 2, flags)
    BY <1>1, <1>2, <2>3, TwoHeard, Zenon
  <2>5. cli' = [cli EXCEPT !.flags = flags, !.i = After(args, i)]
    BY Zenon DEF args, i
  <2>6. i + 2 \in Nat
    BY <1>1
  <2> QED
    BY <1>5, <2>1, <2>4, <2>5, <2>6, ParsedInv, Zenon DEF args
<1> QED
  BY <1>3, <1>4, <1>5

(* A "--" of its own ends the global flags, and so does the end of the     *)
(* arguments.                                                              *)
LEMMA EndHeard ==
  ASSUME CliInv, cli.pc = "globals", NEW rest \in Seq(Seq(STRING)),
         cli.i > Len(cli.args) \/ Flag({"--"}, cli.args[cli.i]),
         cli' = [cli EXCEPT !.rest = rest, !.pc = "run"]
  PROVE  CliInv'
<1>1. cli \in CliRecords /\ cli.args \in CommandLines
  BY Zenon DEF CliInv, CliRecords
<1>2. Heard(cli.args, cli.i, cli.flags)
  BY DEF CliInv, CliSafe
<1>3. Meant(cli.args, cli.flags)
  BY <1>1, <1>2, AllHeard, Zenon
<1>4. cli' \in CliRecords
  BY <1>1, Zenon DEF CliRecords
<1>5. cli'.pc = "run" /\ cli'.args = cli.args /\ cli'.flags = cli.flags
  BY <1>1, Zenon DEF CliRecords
<1>6. cli'.env = cli.env /\ cli'.policy = cli.policy /\ cli'.sub = cli.sub /\ cli'.exit = cli.exit
  BY <1>1, Zenon DEF CliRecords
<1>7. cli'.written = cli.written /\ cli'.raw = cli.raw
  BY <1>1, Zenon DEF CliRecords
<1> QED
  BY <1>3, <1>4, <1>5, <1>6, <1>7 DEF CliInv, CliSafe

(* An argument kept for the command. *)
LEMMA KeptHeard ==
  ASSUME CliInv, cli.pc = "globals", cli.i <= Len(cli.args),
         ~TakesNext(cli.args[cli.i]), ~Flag({"--"}, cli.args[cli.i]), ~Flag(DryNames, cli.args[cli.i]),
         cli' = [cli EXCEPT !.rest = Append(@, cli.args[cli.i]), !.i = @ + 1,
                            !.saw_subcommand = @ \/ ~IsOption(cli.args[cli.i])]
  PROVE  CliInv'
<1> DEFINE args == cli.args
           i == cli.i
           rest == Append(cli.rest, args[i])
           saw == cli.saw_subcommand \/ ~IsOption(args[i])
<1>1. /\ cli \in CliRecords /\ args \in CommandLines /\ i \in Nat
      /\ cli.flags \in FlagRecords /\ cli.rest \in Seq(Seq(STRING))
  BY Zenon DEF CliInv, CliRecords
<1>2. Heard(args, i, cli.flags) /\ i \in 1..Len(args) /\ args \in Seq(Seq(STRING))
  BY <1>1, CliAssumption DEF CliInv, CliSafe, Heard
<1>3. rest \in Seq(Seq(STRING)) /\ i + 1 \in Nat
  BY <1>1, <1>2
<1>4. saw \in BOOLEAN
  BY Zenon
<1>5. cli' = [cli EXCEPT !.rest = rest, !.i = i + 1, !.saw_subcommand = saw]
  BY Zenon
<1>6. Heard(args, i + 1, cli.flags)
  BY <1>1, <1>2, OneHeard, Zenon
<1> HIDE DEF args, i, rest, saw
<1>7. cli' \in CliRecords
  BY <1>1, <1>3, <1>4, <1>5, Zenon DEF CliRecords
<1>8. cli'.pc = cli.pc /\ cli'.args = args /\ cli'.flags = cli.flags /\ cli'.i = i + 1
  BY <1>1, <1>5, Zenon DEF CliRecords, args
<1>9. cli'.env = cli.env /\ cli'.policy = cli.policy /\ cli'.sub = cli.sub /\ cli'.exit = cli.exit
  BY <1>1, <1>5, Zenon DEF CliRecords
<1>10. cli'.written = cli.written /\ cli'.raw = cli.raw
  BY <1>1, <1>5, Zenon DEF CliRecords
<1> QED
  BY <1>6, <1>7, <1>8, <1>9, <1>10 DEF CliInv, CliSafe

(* parse_globals, one argument. *)
LEMMA ParseGlobalInv ==
  ASSUME CliInv, ParseGlobal
  PROVE  CliInv'
<1> DEFINE a == cli.args[cli.i]
           v == ValueAt(cli.args, cli.i)
           f == cli.flags
           Take(flags) == cli' = [cli EXCEPT !.flags = flags, !.i = @ + 1]
           TakeValue(ok, flags) ==
             cli' = IF ok THEN [cli EXCEPT !.flags = flags, !.i = After(cli.args, @)] ELSE Fail(cli, "usage")
<1>1. /\ cli.pc = "globals" /\ cli.i <= Len(cli.args)
      /\ cli \in CliRecords /\ cli.args \in Seq(Seq(STRING)) /\ cli.i \in 1..Len(cli.args)
      /\ f \in FlagRecords /\ cli.rest \in Seq(Seq(STRING))
  <2>1. /\ cli.pc = "globals" /\ cli.i <= Len(cli.args) /\ cli \in CliRecords
        /\ cli.args \in CommandLines /\ cli.i \in Nat /\ f \in FlagRecords /\ cli.rest \in Seq(Seq(STRING))
    BY Zenon DEF ParseGlobal, CliInv, CliRecords
  <2>2. Heard(cli.args, cli.i, f)
    BY <2>1, Zenon DEF CliInv, CliSafe
  <2> QED
    BY <2>1, <2>2, CliAssumption DEF Heard
<1>2. \/ /\ Flag({"--json"}, a) /\ Take([f EXCEPT !.json = TRUE])
      \/ /\ Flag({"-E"}, a) /\ Take([f EXCEPT !.format = "explore"])
      \/ /\ Flag({"--dry-run", "-n"}, a) /\ Take([f EXCEPT !.dry_run = TRUE])
      \/ /\ Flag({"--quiet", "-q"}, a) /\ Take([f EXCEPT !.quiet = TRUE])
      \/ /\ Flag({"--no-color"}, a) /\ Take([f EXCEPT !.color = "never"])
      \/ /\ Flag({"--yes", "-y"}, a) /\ Take([f EXCEPT !.yes = TRUE])
      \/ /\ Flag({"--force"}, a) /\ Take([f EXCEPT !.force = TRUE])
      \/ /\ Flag({"--help", "-h", "help"}, a) /\ Take([f EXCEPT !.help = TRUE])
      \/ /\ Flag({"--version", "-V"}, a) /\ Take([f EXCEPT !.version = TRUE])
      \/ /\ Flag({"--verbose", "-v", "--print0", "-0"}, a) /\ Take(f)
      \/ /\ a[1] = "--format" /\ TakeValue(v \in FormatNames, [f EXCEPT !.format = FormatOf(v)])
      \/ /\ a[1] = "--fields" /\ TakeValue(v # Unset, f)
      \/ /\ a[1] = "--color" /\ TakeValue(v \in ColorNames, [f EXCEPT !.color = v])
      \/ /\ Flag({"--"}, a)
         /\ cli' = [cli EXCEPT !.rest = @ \o SubSeq(cli.args, cli.i, Len(cli.args)), !.pc = "run"]
      \/ /\ a[1] \notin {"--format", "--fields", "--color"} /\ ~Flag({"--"}, a) /\ ~Flag(DryNames, a)
         /\ cli' = [cli EXCEPT !.rest = Append(@, a), !.i = @ + 1, !.saw_subcommand = @ \/ ~IsOption(a)]
  BY SMTT(60) DEF ParseGlobal, DryNames
<1> HIDE DEF a, v
<1>3. CASE Flag({"--json"}, a) /\ Take([f EXCEPT !.json = TRUE])
  <2> DEFINE next == [f EXCEPT !.json = TRUE]
  <2>1. next \in FlagRecords
    BY <1>1, Zenon DEF FlagRecords, FormatNames, ColorNames
  <2>2. next.dry_run = f.dry_run /\ next.yes = f.yes /\ next.force = f.force
    BY <1>1, Zenon DEF FlagRecords
  <2>3. cli' = [cli EXCEPT !.flags = next, !.i = @ + 1]
    BY <1>3, Zenon
  <2> HIDE DEF next
  <2>4. ~TakesNext(a) /\ ~Flag({"--"}, a) /\ ~Flag(DryNames, a)
    BY <1>3 DEF Flag, TakesNext, DryNames, YesNames
  <2> QED
    BY <1>1, <2>1, <2>2, <2>3, <2>4, TakeHeard, Zenon DEF a
<1>4. CASE Flag({"-E"}, a) /\ Take([f EXCEPT !.format = "explore"])
  <2> DEFINE next == [f EXCEPT !.format = "explore"]
  <2>1. next \in FlagRecords
    BY <1>1, Zenon DEF FlagRecords, FormatNames, ColorNames
  <2>2. next.dry_run = f.dry_run /\ next.yes = f.yes /\ next.force = f.force
    BY <1>1, Zenon DEF FlagRecords
  <2>3. cli' = [cli EXCEPT !.flags = next, !.i = @ + 1]
    BY <1>4, Zenon
  <2> HIDE DEF next
  <2>4. ~TakesNext(a) /\ ~Flag({"--"}, a) /\ ~Flag(DryNames, a)
    BY <1>4 DEF Flag, TakesNext, DryNames, YesNames
  <2> QED
    BY <1>1, <2>1, <2>2, <2>3, <2>4, TakeHeard, Zenon DEF a
<1>5. CASE Flag({"--dry-run", "-n"}, a) /\ Take([f EXCEPT !.dry_run = TRUE])
  <2> DEFINE next == [f EXCEPT !.dry_run = TRUE]
  <2>1. next \in FlagRecords
    BY <1>1, Zenon DEF FlagRecords, FormatNames, ColorNames
  <2>2. next.dry_run = TRUE /\ next.yes = f.yes /\ next.force = f.force
    BY <1>1, Zenon DEF FlagRecords
  <2>3. cli' = [cli EXCEPT !.flags = next, !.i = @ + 1]
    BY <1>5, Zenon
  <2> HIDE DEF next
  <2>4. ~TakesNext(a) /\ ~Flag({"--"}, a)
    BY <1>5 DEF Flag, TakesNext, DryNames, YesNames
  <2> QED
    BY <1>1, <2>1, <2>2, <2>3, <2>4, TakeHeard, Zenon DEF a
<1>6. CASE Flag({"--quiet", "-q"}, a) /\ Take([f EXCEPT !.quiet = TRUE])
  <2> DEFINE next == [f EXCEPT !.quiet = TRUE]
  <2>1. next \in FlagRecords
    BY <1>1, Zenon DEF FlagRecords, FormatNames, ColorNames
  <2>2. next.dry_run = f.dry_run /\ next.yes = f.yes /\ next.force = f.force
    BY <1>1, Zenon DEF FlagRecords
  <2>3. cli' = [cli EXCEPT !.flags = next, !.i = @ + 1]
    BY <1>6, Zenon
  <2> HIDE DEF next
  <2>4. ~TakesNext(a) /\ ~Flag({"--"}, a) /\ ~Flag(DryNames, a)
    BY <1>6 DEF Flag, TakesNext, DryNames, YesNames
  <2> QED
    BY <1>1, <2>1, <2>2, <2>3, <2>4, TakeHeard, Zenon DEF a
<1>7. CASE Flag({"--no-color"}, a) /\ Take([f EXCEPT !.color = "never"])
  <2> DEFINE next == [f EXCEPT !.color = "never"]
  <2>1. next \in FlagRecords
    BY <1>1, Zenon DEF FlagRecords, FormatNames, ColorNames
  <2>2. next.dry_run = f.dry_run /\ next.yes = f.yes /\ next.force = f.force
    BY <1>1, Zenon DEF FlagRecords
  <2>3. cli' = [cli EXCEPT !.flags = next, !.i = @ + 1]
    BY <1>7, Zenon
  <2> HIDE DEF next
  <2>4. ~TakesNext(a) /\ ~Flag({"--"}, a) /\ ~Flag(DryNames, a)
    BY <1>7 DEF Flag, TakesNext, DryNames, YesNames
  <2> QED
    BY <1>1, <2>1, <2>2, <2>3, <2>4, TakeHeard, Zenon DEF a
<1>8. CASE Flag({"--yes", "-y"}, a) /\ Take([f EXCEPT !.yes = TRUE])
  <2> DEFINE next == [f EXCEPT !.yes = TRUE]
  <2>1. next \in FlagRecords
    BY <1>1, Zenon DEF FlagRecords, FormatNames, ColorNames
  <2>2. next.dry_run = f.dry_run /\ next.yes = TRUE /\ next.force = f.force
    BY <1>1, Zenon DEF FlagRecords
  <2>3. cli' = [cli EXCEPT !.flags = next, !.i = @ + 1]
    BY <1>8, Zenon
  <2> HIDE DEF next
  <2>4. ~TakesNext(a) /\ ~Flag({"--"}, a) /\ ~Flag(DryNames, a) /\ Flag(YesNames, a)
    BY <1>8 DEF Flag, TakesNext, DryNames, YesNames
  <2> QED
    BY <1>1, <2>1, <2>2, <2>3, <2>4, TakeHeard, Zenon DEF a
<1>9. CASE Flag({"--force"}, a) /\ Take([f EXCEPT !.force = TRUE])
  <2> DEFINE next == [f EXCEPT !.force = TRUE]
  <2>1. next \in FlagRecords
    BY <1>1, Zenon DEF FlagRecords, FormatNames, ColorNames
  <2>2. next.dry_run = f.dry_run /\ next.yes = f.yes /\ next.force = TRUE
    BY <1>1, Zenon DEF FlagRecords
  <2>3. cli' = [cli EXCEPT !.flags = next, !.i = @ + 1]
    BY <1>9, Zenon
  <2> HIDE DEF next
  <2>4. ~TakesNext(a) /\ ~Flag({"--"}, a) /\ ~Flag(DryNames, a) /\ Flag(YesNames, a)
    BY <1>9 DEF Flag, TakesNext, DryNames, YesNames
  <2> QED
    BY <1>1, <2>1, <2>2, <2>3, <2>4, TakeHeard, Zenon DEF a
<1>10. CASE Flag({"--help", "-h", "help"}, a) /\ Take([f EXCEPT !.help = TRUE])
  <2> DEFINE next == [f EXCEPT !.help = TRUE]
  <2>1. next \in FlagRecords
    BY <1>1, Zenon DEF FlagRecords, FormatNames, ColorNames
  <2>2. next.dry_run = f.dry_run /\ next.yes = f.yes /\ next.force = f.force
    BY <1>1, Zenon DEF FlagRecords
  <2>3. cli' = [cli EXCEPT !.flags = next, !.i = @ + 1]
    BY <1>10, Zenon
  <2> HIDE DEF next
  <2>4. ~TakesNext(a) /\ ~Flag({"--"}, a) /\ ~Flag(DryNames, a)
    BY <1>10 DEF Flag, TakesNext, DryNames, YesNames
  <2> QED
    BY <1>1, <2>1, <2>2, <2>3, <2>4, TakeHeard, Zenon DEF a
<1>11. CASE Flag({"--version", "-V"}, a) /\ Take([f EXCEPT !.version = TRUE])
  <2> DEFINE next == [f EXCEPT !.version = TRUE]
  <2>1. next \in FlagRecords
    BY <1>1, Zenon DEF FlagRecords, FormatNames, ColorNames
  <2>2. next.dry_run = f.dry_run /\ next.yes = f.yes /\ next.force = f.force
    BY <1>1, Zenon DEF FlagRecords
  <2>3. cli' = [cli EXCEPT !.flags = next, !.i = @ + 1]
    BY <1>11, Zenon
  <2> HIDE DEF next
  <2>4. ~TakesNext(a) /\ ~Flag({"--"}, a) /\ ~Flag(DryNames, a)
    BY <1>11 DEF Flag, TakesNext, DryNames, YesNames
  <2> QED
    BY <1>1, <2>1, <2>2, <2>3, <2>4, TakeHeard, Zenon DEF a
<1>12. CASE Flag({"--verbose", "-v", "--print0", "-0"}, a) /\ Take(f)
  <2>1. ~TakesNext(a) /\ ~Flag({"--"}, a) /\ ~Flag(DryNames, a)
    BY <1>12 DEF Flag, TakesNext, DryNames
  <2>2. cli' = [cli EXCEPT !.flags = f, !.i = @ + 1]
    BY <1>12, Zenon
  <2> QED
    BY <1>1, <2>1, <2>2, TakeHeard, Zenon DEF a
<1>13. CASE a[1] = "--format" /\ TakeValue(v \in FormatNames, [f EXCEPT !.format = FormatOf(v)])
  <2> DEFINE next == [f EXCEPT !.format = FormatOf(v)]
             ok == v \in FormatNames
  <2>1. CASE ~ok
    <3>1. cli' = Fail(cli, "usage")
      BY <1>13, <2>1, Zenon
    <3> QED
      BY <1>1, <3>1, ValueRefused, Zenon
  <2>2. CASE ok
    <3>1. next \in FlagRecords
      BY <1>1, <2>2, Zenon DEF FlagRecords, FormatOf, FormatNames
    <3>2. next.dry_run = f.dry_run /\ next.yes = f.yes /\ next.force = f.force
      BY <1>1, Zenon DEF FlagRecords
    <3>3. cli' = [cli EXCEPT !.flags = next, !.i = After(cli.args, @)]
      BY <1>13, <2>2, Zenon
    <3>4. v # Unset /\ a[1] \in {"--format", "--fields", "--color"}
      BY <1>13, <2>2, CliAssumption, Zenon DEF FormatNames, ColorNames
    <3> HIDE DEF next
    <3> QED
      BY <1>1, <3>1, <3>2, <3>3, <3>4, TakeValueHeard, Zenon DEF a, v
  <2> QED
    BY <2>1, <2>2
<1>14. CASE a[1] = "--fields" /\ TakeValue(v # Unset, f)
  <2> DEFINE next == f
             ok == v # Unset
  <2>1. CASE ~ok
    <3>1. cli' = Fail(cli, "usage")
      BY <1>14, <2>1, Zenon
    <3> QED
      BY <1>1, <3>1, ValueRefused, Zenon
  <2>2. CASE ok
    <3>1. next \in FlagRecords
      BY <1>1, <2>2, Zenon DEF FlagRecords, FormatOf, FormatNames
    <3>2. next.dry_run = f.dry_run /\ next.yes = f.yes /\ next.force = f.force
      BY <1>1, Zenon DEF FlagRecords
    <3>3. cli' = [cli EXCEPT !.flags = next, !.i = After(cli.args, @)]
      BY <1>14, <2>2, Zenon
    <3>4. v # Unset /\ a[1] \in {"--format", "--fields", "--color"}
      BY <1>14, <2>2, CliAssumption, Zenon DEF FormatNames, ColorNames
    <3> HIDE DEF next
    <3> QED
      BY <1>1, <3>1, <3>2, <3>3, <3>4, TakeValueHeard, Zenon DEF a, v
  <2> QED
    BY <2>1, <2>2
<1>15. CASE a[1] = "--color" /\ TakeValue(v \in ColorNames, [f EXCEPT !.color = v])
  <2> DEFINE next == [f EXCEPT !.color = v]
             ok == v \in ColorNames
  <2>1. CASE ~ok
    <3>1. cli' = Fail(cli, "usage")
      BY <1>15, <2>1, Zenon
    <3> QED
      BY <1>1, <3>1, ValueRefused, Zenon
  <2>2. CASE ok
    <3>1. next \in FlagRecords
      BY <1>1, <2>2, Zenon DEF FlagRecords, FormatOf, FormatNames
    <3>2. next.dry_run = f.dry_run /\ next.yes = f.yes /\ next.force = f.force
      BY <1>1, Zenon DEF FlagRecords
    <3>3. cli' = [cli EXCEPT !.flags = next, !.i = After(cli.args, @)]
      BY <1>15, <2>2, Zenon
    <3>4. v # Unset /\ a[1] \in {"--format", "--fields", "--color"}
      BY <1>15, <2>2, CliAssumption, Zenon DEF FormatNames, ColorNames
    <3> HIDE DEF next
    <3> QED
      BY <1>1, <3>1, <3>2, <3>3, <3>4, TakeValueHeard, Zenon DEF a, v
  <2> QED
    BY <2>1, <2>2
<1>16. CASE /\ Flag({"--"}, a)
           /\ cli' = [cli EXCEPT !.rest = @ \o SubSeq(cli.args, cli.i, Len(cli.args)), !.pc = "run"]
  <2> DEFINE rest == cli.rest \o SubSeq(cli.args, cli.i, Len(cli.args))
  <2>1. rest \in Seq(Seq(STRING))
    BY <1>1
  <2>2. cli' = [cli EXCEPT !.rest = rest, !.pc = "run"]
    BY <1>16, Zenon
  <2> HIDE DEF rest
  <2> QED
    BY <1>1, <1>16, <2>1, <2>2, EndHeard, Zenon DEF a
<1>17. CASE /\ a[1] \notin {"--format", "--fields", "--color"} /\ ~Flag({"--"}, a) /\ ~Flag(DryNames, a)
           /\ cli' = [cli EXCEPT !.rest = Append(@, a), !.i = @ + 1, !.saw_subcommand = @ \/ ~IsOption(a)]
  <2>1. ~TakesNext(a)
    BY <1>17, Zenon DEF TakesNext, Flag
  <2> QED
    BY <1>1, <1>17, <2>1, KeptHeard, Zenon DEF a
<1> QED
  BY <1>2, <1>3, <1>4, <1>5, <1>6, <1>7, <1>8, <1>9, <1>10, <1>11, <1>12, <1>13, <1>14, <1>15, <1>16, <1>17, Zenon

LEMMA GlobalsParsedInv ==
  ASSUME CliInv, GlobalsParsed
  PROVE  CliInv'
<1>1. cli.pc = "globals" /\ cli.i > Len(cli.args) /\ cli' = [cli EXCEPT !.pc = "run"]
  BY Zenon DEF GlobalsParsed
<1>2. cli \in CliRecords /\ cli.args \in CommandLines
  BY Zenon DEF CliInv, CliRecords
<1>3. Meant(cli.args, cli.flags)
  <2>1. Heard(cli.args, cli.i, cli.flags)
    BY <1>1 DEF CliInv, CliSafe
  <2> QED
    BY <1>1, <1>2, <2>1, AllHeard, Zenon
<1>4. cli' \in CliRecords
  BY <1>1, <1>2, Zenon DEF CliRecords
<1>5. cli'.pc = "run" /\ cli'.args = cli.args /\ cli'.flags = cli.flags
  BY <1>1, <1>2, Zenon DEF CliRecords
<1>6. cli'.env = cli.env /\ cli'.policy = cli.policy /\ cli'.sub = cli.sub /\ cli'.exit = cli.exit
  BY <1>1, <1>2, Zenon DEF CliRecords
<1>7. cli'.written = cli.written /\ cli'.raw = cli.raw
  BY <1>1, <1>2, Zenon DEF CliRecords
<1> QED
  BY <1>1, <1>3, <1>4, <1>5, <1>6, <1>7 DEF CliInv, CliSafe

(* The policy is resolved before the command is looked up. *)
LEMMA RunInv ==
  ASSUME CliInv, Run
  PROVE  CliInv'
<1> DEFINE policy == ResolvePolicy(cli.flags, cli.env)
           known == [cli EXCEPT !.policy = policy]
<1>1. cli \in CliRecords /\ CliSafe(cli) /\ cli.pc = "run"
  BY DEF CliInv, Run
<1>2. policy \in Policies /\ (policy.color => ~IsMachine(policy.format))
  <2>1. cli.flags \in FlagRecords /\ cli.env \in Environments
    BY <1>1, Zenon DEF CliRecords
  <2> QED
    BY <2>1, PolicyKept
<1> HIDE DEF policy
<1>3. known \in CliRecords
  BY <1>1, <1>2, Zenon DEF CliRecords
<1>4. known.pc = cli.pc /\ known.args = cli.args /\ known.flags = cli.flags /\ known.policy = policy
  BY <1>1, Zenon DEF CliRecords
<1>5. known.env = cli.env /\ known.sub = cli.sub /\ known.exit = cli.exit /\ known.rest = cli.rest
  BY <1>1, Zenon DEF CliRecords
<1>6. known.written = cli.written /\ known.raw = cli.raw
  BY <1>1, Zenon DEF CliRecords
<1>7. \/ cli' = Succeed(known)
      \/ cli' = Fail(known, "usage")
      \/ /\ Flag(Commands, cli.rest[1]) /\ cli.rest # <<>>
         /\ cli' = [known EXCEPT !.pc = "body", !.sub = cli.rest[1][1], !.rest = Tail(cli.rest)]
  BY <1>1, <1>5, Zenon DEF Run, policy
<1> HIDE DEF known
<1>8. CliSafe(known) /\ MayFail(known) /\ ~known.raw /\ ~known.written /\ known.pc = "run"
  BY <1>1, <1>2, <1>4, <1>5, <1>6 DEF CliSafe, MayFail
<1>9. CASE cli' = Succeed(known)
  BY <1>3, <1>8, <1>9, SucceedSafe DEF CliInv
<1>10. CASE cli' = Fail(known, "usage")
  <2>1. "usage" \in Codes \ {"none"}
    BY DEF Codes
  <2> QED
    BY <1>3, <1>8, <1>10, <2>1, FailSafe, Zenon DEF CliInv
<1>11. CASE /\ Flag(Commands, cli.rest[1]) /\ cli.rest # <<>>
            /\ cli' = [known EXCEPT !.pc = "body", !.sub = cli.rest[1][1], !.rest = Tail(cli.rest)]
  <2> DEFINE sub == cli.rest[1][1]
             rest == Tail(cli.rest)
  <2>1. sub \in Commands
    BY <1>11 DEF Flag
  <2>2. rest \in Seq(Seq(STRING))
    <3>1. cli.rest \in Seq(Seq(STRING))
      BY <1>1, Zenon DEF CliRecords
    <3> QED
      BY <1>11, <3>1, HeadTailProperties, Zenon
  <2>3. cli' = [known EXCEPT !.pc = "body", !.sub = sub, !.rest = rest]
    BY <1>11
  <2> HIDE DEF sub, rest
  <2>4. cli' \in CliRecords
    BY <1>3, <2>1, <2>2, <2>3, Zenon DEF CliRecords
  <2>5. cli'.pc = "body" /\ cli'.args = known.args /\ cli'.flags = known.flags /\ cli'.policy = known.policy
    BY <1>3, <2>3, Zenon DEF CliRecords
  <2>6. cli'.env = known.env /\ cli'.exit = known.exit
    BY <1>3, <2>3, Zenon DEF CliRecords
  <2>7. cli'.written = known.written /\ cli'.raw = known.raw
    BY <1>3, <2>3, Zenon DEF CliRecords
  <2> QED
    BY <1>8, <2>4, <2>5, <2>6, <2>7 DEF CliInv, CliSafe
<1> QED
  BY <1>7, <1>9, <1>10, <1>11

(* A step that only moves the command on, and may set what it wrote, what  *)
(* the person typed and who holds the terminal.                            *)
Moved(pc, typed, written, raw) ==
  /\ cli' \in CliRecords
  /\ cli'.pc = pc /\ cli'.typed = typed /\ cli'.written = written /\ cli'.raw = raw
  /\ cli'.args = cli.args /\ cli'.flags = cli.flags /\ cli'.env = cli.env
  /\ cli'.policy = cli.policy /\ cli'.sub = cli.sub /\ cli'.exit = cli.exit

(* Ending with an error after the write or the terminal was tried. *)
LEMMA FailAfter ==
  ASSUME NEW s \in CliRecords, MayFail(s), NEW code \in IoCodes, cli' = Fail(s, code)
  PROVE  CliInv'
<1>1. code \in Codes \ {"none"}
  BY DEF Codes, IoCodes
<1> QED
  BY <1>1, FailSafe, Zenon DEF CliInv

LEMMA BodyFailsInv ==
  ASSUME CliInv, BodyFails
  PROVE  CliInv'
<1>1. cli \in CliRecords /\ MayFail(cli) /\ ~cli.written
  BY SafeMayFail DEF CliInv, CliSafe, BodyFails
<1>2. PICK code \in BodyErrors(cli.sub) \cup {"usage"} : cli' = Fail(cli, code)
  BY Zenon DEF BodyFails
<1>3. code \in Codes \ {"none"}
  BY <1>2, Zenon DEF BodyErrors, Codes, IoCodes
<1> QED
  BY <1>1, <1>2, <1>3, FailSafe, Zenon DEF CliInv

LEMMA BodyRunsInv ==
  ASSUME CliInv, BodyRuns
  PROVE  CliInv'
<1>1. cli \in CliRecords /\ CliSafe(cli) /\ MayFail(cli) /\ cli.pc = "body" /\ ~cli.written /\ ~cli.raw
  BY SafeMayFail DEF CliInv, CliSafe, BodyRuns
<1>2. \/ cli' = Succeed(cli)
      \/ cli' = [cli EXCEPT !.pc = "emit"]
      \/ cli.sub = "sbom" /\ cli' = [cli EXCEPT !.pc = "emit", !.written = TRUE]
      \/ /\ cli.sub = "sbom"
         /\ \E code \in IoCodes, changed \in BOOLEAN : cli' = Fail([cli EXCEPT !.written = changed], code)
      \/ ~cli.flags.dry_run /\ cli' = [cli EXCEPT !.pc = "confirm"]
  BY Zenon DEF BodyRuns, DryRun
<1>3. CASE cli' = Succeed(cli)
  BY <1>1, <1>3, SucceedSafe DEF CliInv
<1>4. CASE cli' = [cli EXCEPT !.pc = "emit"]
  <2>1. Moved("emit", cli.typed, cli.written, cli.raw)
    <3>1. cli' \in CliRecords
      BY <1>1, <1>4, Zenon DEF CliRecords
    <3>2. cli'.pc = "emit" /\ cli'.args = cli.args /\ cli'.flags = cli.flags /\ cli'.env = cli.env
      BY <1>1, <1>4, Zenon DEF CliRecords
    <3>3. cli'.policy = cli.policy /\ cli'.sub = cli.sub /\ cli'.exit = cli.exit
      BY <1>1, <1>4, Zenon DEF CliRecords
    <3>4. cli'.typed = cli.typed /\ cli'.written = cli.written /\ cli'.raw = cli.raw
      BY <1>1, <1>4, Zenon DEF CliRecords
    <3> QED
      BY <3>1, <3>2, <3>3, <3>4, Zenon DEF Moved
  <2> QED
    BY <1>1, <2>1 DEF CliInv, CliSafe, Moved
<1>5. CASE cli.sub = "sbom" /\ cli' = [cli EXCEPT !.pc = "emit", !.written = TRUE]
  <2>1. Moved("emit", cli.typed, TRUE, cli.raw)
    <3>1. cli' \in CliRecords
      BY <1>1, <1>5, Zenon DEF CliRecords
    <3>2. cli'.pc = "emit" /\ cli'.args = cli.args /\ cli'.flags = cli.flags /\ cli'.env = cli.env
      BY <1>1, <1>5, Zenon DEF CliRecords
    <3>3. cli'.policy = cli.policy /\ cli'.sub = cli.sub /\ cli'.exit = cli.exit
      BY <1>1, <1>5, Zenon DEF CliRecords
    <3>4. cli'.typed = cli.typed /\ cli'.written = TRUE /\ cli'.raw = cli.raw
      BY <1>1, <1>5, Zenon DEF CliRecords
    <3> QED
      BY <3>1, <3>2, <3>3, <3>4, Zenon DEF Moved
  <2>2. cli.sub \notin Destructive
    BY <1>5 DEF Destructive
  <2> QED
    BY <1>1, <2>1, <2>2 DEF CliInv, CliSafe, Moved
<1>6. CASE /\ cli.sub = "sbom"
           /\ \E code \in IoCodes, changed \in BOOLEAN : cli' = Fail([cli EXCEPT !.written = changed], code)
  <2>1. PICK code \in IoCodes, changed \in BOOLEAN : cli' = Fail([cli EXCEPT !.written = changed], code)
    BY <1>6
  <2> DEFINE s == [cli EXCEPT !.written = changed]
  <2>2. s \in CliRecords
    BY <1>1, Zenon DEF CliRecords
  <2>3. s.args = cli.args /\ s.flags = cli.flags /\ s.sub = cli.sub
    BY <1>1, Zenon DEF CliRecords
  <2>4. s.env = cli.env /\ s.policy = cli.policy /\ s.raw = cli.raw
    BY <1>1, Zenon DEF CliRecords
  <2>5. cli.sub \notin Destructive
    BY <1>6 DEF Destructive
  <2> HIDE DEF s
  <2>6. MayFail(s)
    BY <1>1, <2>3, <2>4, <2>5, Zenon DEF MayFail
  <2> QED
    BY <2>1, <2>2, <2>6, FailAfter, Zenon DEF s
<1>7. CASE ~cli.flags.dry_run /\ cli' = [cli EXCEPT !.pc = "confirm"]
  <2>1. Moved("confirm", cli.typed, cli.written, cli.raw)
    <3>1. cli' \in CliRecords
      BY <1>1, <1>7, Zenon DEF CliRecords
    <3>2. cli'.pc = "confirm" /\ cli'.args = cli.args /\ cli'.flags = cli.flags /\ cli'.env = cli.env
      BY <1>1, <1>7, Zenon DEF CliRecords
    <3>3. cli'.policy = cli.policy /\ cli'.sub = cli.sub /\ cli'.exit = cli.exit
      BY <1>1, <1>7, Zenon DEF CliRecords
    <3>4. cli'.typed = cli.typed /\ cli'.written = cli.written /\ cli'.raw = cli.raw
      BY <1>1, <1>7, Zenon DEF CliRecords
    <3> QED
      BY <3>1, <3>2, <3>3, <3>4, Zenon DEF Moved
  <2> QED
    BY <1>1, <1>7, <2>1 DEF CliInv, CliSafe, Moved
<1> QED
  BY <1>2, <1>3, <1>4, <1>5, <1>6, <1>7

LEMMA ConfirmationInv ==
  ASSUME CliInv, Confirm
  PROVE  CliInv'
<1>1. /\ cli \in CliRecords /\ CliSafe(cli) /\ MayFail(cli) /\ cli.pc = "confirm" /\ ~cli.written
      /\ ~cli.flags.dry_run
  BY SafeMayFail DEF CliInv, CliSafe, Confirm
<1>2. \/ (cli.flags.yes \/ cli.flags.force) /\ cli' = [cli EXCEPT !.pc = "write"]
      \/ cli.env.stdin_is_tty /\ cli' = [cli EXCEPT !.pc = "write", !.typed = TRUE]
      \/ \E code \in IoCodes \cup {"usage"} : cli' = Fail(cli, code)
  BY Zenon DEF Confirm
<1>3. CASE (cli.flags.yes \/ cli.flags.force) /\ cli' = [cli EXCEPT !.pc = "write"]
  <2>1. Moved("write", cli.typed, cli.written, cli.raw)
    <3>1. cli' \in CliRecords
      BY <1>1, <1>3, Zenon DEF CliRecords
    <3>2. cli'.pc = "write" /\ cli'.args = cli.args /\ cli'.flags = cli.flags /\ cli'.env = cli.env
      BY <1>1, <1>3, Zenon DEF CliRecords
    <3>3. cli'.policy = cli.policy /\ cli'.sub = cli.sub /\ cli'.exit = cli.exit
      BY <1>1, <1>3, Zenon DEF CliRecords
    <3>4. cli'.typed = cli.typed /\ cli'.written = cli.written /\ cli'.raw = cli.raw
      BY <1>1, <1>3, Zenon DEF CliRecords
    <3> QED
      BY <3>1, <3>2, <3>3, <3>4, Zenon DEF Moved
  <2>2. Granted(cli')
    BY <1>1, <1>3, <2>1, Zenon DEF Moved, Granted
  <2> QED
    BY <1>1, <2>1, <2>2 DEF CliInv, CliSafe, Moved
<1>4. CASE cli.env.stdin_is_tty /\ cli' = [cli EXCEPT !.pc = "write", !.typed = TRUE]
  <2>1. Moved("write", TRUE, cli.written, cli.raw)
    <3>1. cli' \in CliRecords
      BY <1>1, <1>4, Zenon DEF CliRecords
    <3>2. cli'.pc = "write" /\ cli'.args = cli.args /\ cli'.flags = cli.flags /\ cli'.env = cli.env
      BY <1>1, <1>4, Zenon DEF CliRecords
    <3>3. cli'.policy = cli.policy /\ cli'.sub = cli.sub /\ cli'.exit = cli.exit
      BY <1>1, <1>4, Zenon DEF CliRecords
    <3>4. cli'.typed = TRUE /\ cli'.written = cli.written /\ cli'.raw = cli.raw
      BY <1>1, <1>4, Zenon DEF CliRecords
    <3> QED
      BY <3>1, <3>2, <3>3, <3>4, Zenon DEF Moved
  <2>2. Granted(cli')
    BY <1>1, <1>4, <2>1, Zenon DEF Moved, Granted
  <2> QED
    BY <1>1, <2>1, <2>2 DEF CliInv, CliSafe, Moved
<1>5. CASE \E code \in IoCodes \cup {"usage"} : cli' = Fail(cli, code)
  <2>1. PICK code \in IoCodes \cup {"usage"} : cli' = Fail(cli, code)
    BY <1>5
  <2>2. code \in Codes \ {"none"}
    BY DEF Codes, IoCodes
  <2> QED
    BY <1>1, <2>1, <2>2, FailSafe, Zenon DEF CliInv
<1> QED
  BY <1>2, <1>3, <1>4, <1>5

LEMMA WriteInv ==
  ASSUME CliInv, Write
  PROVE  CliInv'
<1>1. cli \in CliRecords /\ CliSafe(cli) /\ MayFail(cli) /\ Granted(cli) /\ cli.pc = "write" /\ ~cli.raw
  BY SafeMayFail DEF CliInv, CliSafe, Write
<1>2. \/ cli' = [cli EXCEPT !.pc = "emit", !.written = TRUE]
      \/ \E code \in IoCodes, changed \in BOOLEAN : cli' = Fail([cli EXCEPT !.written = changed], code)
  BY Zenon DEF Write
<1>3. CASE cli' = [cli EXCEPT !.pc = "emit", !.written = TRUE]
  <2>1. Moved("emit", cli.typed, TRUE, cli.raw)
    <3>1. cli' \in CliRecords
      BY <1>1, <1>3, Zenon DEF CliRecords
    <3>2. cli'.pc = "emit" /\ cli'.args = cli.args /\ cli'.flags = cli.flags /\ cli'.env = cli.env
      BY <1>1, <1>3, Zenon DEF CliRecords
    <3>3. cli'.policy = cli.policy /\ cli'.sub = cli.sub /\ cli'.exit = cli.exit
      BY <1>1, <1>3, Zenon DEF CliRecords
    <3>4. cli'.typed = cli.typed /\ cli'.written = TRUE /\ cli'.raw = cli.raw
      BY <1>1, <1>3, Zenon DEF CliRecords
    <3> QED
      BY <3>1, <3>2, <3>3, <3>4, Zenon DEF Moved
  <2>2. Granted(cli')
    BY <1>1, <2>1, Zenon DEF Moved, Granted
  <2> QED
    BY <1>1, <2>1, <2>2 DEF CliInv, CliSafe, Moved
<1>4. CASE \E code \in IoCodes, changed \in BOOLEAN : cli' = Fail([cli EXCEPT !.written = changed], code)
  <2>1. PICK code \in IoCodes, changed \in BOOLEAN : cli' = Fail([cli EXCEPT !.written = changed], code)
    BY <1>4
  <2> DEFINE s == [cli EXCEPT !.written = changed]
  <2>2. s \in CliRecords
    BY <1>1, Zenon DEF CliRecords
  <2>3. s.args = cli.args /\ s.flags = cli.flags /\ s.sub = cli.sub /\ s.typed = cli.typed
    BY <1>1, Zenon DEF CliRecords
  <2>4. s.env = cli.env /\ s.policy = cli.policy /\ s.raw = cli.raw
    BY <1>1, Zenon DEF CliRecords
  <2> HIDE DEF s
  <2>5. Granted(s)
    BY <1>1, <2>3, <2>4, Zenon DEF Granted
  <2>6. MayFail(s)
    BY <1>1, <2>3, <2>4, <2>5, Zenon DEF MayFail
  <2> QED
    BY <2>1, <2>2, <2>6, FailAfter, Zenon DEF s
<1> QED
  BY <1>2, <1>3, <1>4

(* Printing the result ends the command. *)
LEMMA EmitToInv ==
  ASSUME NEW s \in CliRecords, CliSafe(s), s.pc = "emit", EmitTo(s)
  PROVE  CliInv'
<1>1. MayFail(s) /\ ~s.raw
  BY SafeMayFail DEF CliSafe
<1>2. cli' = Succeed(s) \/ \E code \in IoCodes : cli' = Fail(s, code)
  BY Zenon DEF EmitTo
<1>3. CASE cli' = Succeed(s)
  BY <1>1, <1>3, SucceedSafe DEF CliInv
<1>4. CASE \E code \in IoCodes : cli' = Fail(s, code)
  BY <1>1, <1>4, FailAfter, Zenon
<1> QED
  BY <1>2, <1>3, <1>4

LEMMA EmitInv ==
  ASSUME CliInv, Emit
  PROVE  CliInv'
<1>1. cli \in CliRecords /\ CliSafe(cli) /\ cli.pc = "emit" /\ ~cli.raw
  BY DEF CliInv, CliSafe, Emit
<1> DEFINE json == [format |-> "json", color |-> FALSE]
           s == [cli EXCEPT !.policy = json]
<1>2. EmitTo(cli) \/ EmitTo(s) \/ (~ShouldFallBack(cli.env) /\ cli' = [cli EXCEPT !.pc = "tui"])
  BY Zenon DEF Emit
<1>3. CASE EmitTo(cli)
  BY <1>1, <1>3, EmitToInv
<1>4. CASE EmitTo(s)
  <2>1. json \in Policies /\ ~json.color
    BY Zenon DEF Policies, FormatNames
  <2> HIDE DEF json
  <2>2. s \in CliRecords
    BY <1>1, <2>1, Zenon DEF CliRecords
  <2>3. s.pc = cli.pc /\ s.args = cli.args /\ s.flags = cli.flags /\ s.sub = cli.sub /\ s.exit = cli.exit
    BY <1>1, Zenon DEF CliRecords
  <2>4. s.env = cli.env /\ s.policy = json
    BY <1>1, Zenon DEF CliRecords
  <2>5. s.typed = cli.typed /\ s.written = cli.written /\ s.raw = cli.raw
    BY <1>1, Zenon DEF CliRecords
  <2> HIDE DEF s
  <2>6. Granted(s) <=> Granted(cli)
    BY <2>3, <2>4, <2>5, Zenon DEF Granted
  <2>7. CliSafe(s)
    BY <1>1, <2>1, <2>3, <2>4, <2>5, <2>6 DEF CliSafe
  <2> QED
    BY <1>1, <1>4, <2>2, <2>3, <2>7, EmitToInv, Zenon
<1>5. CASE ~ShouldFallBack(cli.env) /\ cli' = [cli EXCEPT !.pc = "tui"]
  <2>1. Moved("tui", cli.typed, cli.written, cli.raw)
    <3>1. cli' \in CliRecords
      BY <1>1, <1>5, Zenon DEF CliRecords
    <3>2. cli'.pc = "tui" /\ cli'.args = cli.args /\ cli'.flags = cli.flags /\ cli'.env = cli.env
      BY <1>1, <1>5, Zenon DEF CliRecords
    <3>3. cli'.policy = cli.policy /\ cli'.sub = cli.sub /\ cli'.exit = cli.exit
      BY <1>1, <1>5, Zenon DEF CliRecords
    <3>4. cli'.typed = cli.typed /\ cli'.written = cli.written /\ cli'.raw = cli.raw
      BY <1>1, <1>5, Zenon DEF CliRecords
    <3> QED
      BY <3>1, <3>2, <3>3, <3>4, Zenon DEF Moved
  <2>2. Granted(cli') <=> Granted(cli)
    BY <2>1, Zenon DEF Moved, Granted
  <2> QED
    BY <1>1, <1>5, <2>1, <2>2 DEF CliInv, CliSafe, Moved
<1> QED
  BY <1>2, <1>3, <1>4, <1>5

(* An error in the browser, with raw mode on or off. *)
LEMMA TuiFails ==
  ASSUME CliInv, cli.pc \in {"tui", "keys", "restore"}, NEW code \in IoCodes, NEW raw \in BOOLEAN,
         cli' = Fail([cli EXCEPT !.raw = raw], code)
  PROVE  CliInv'
<1> DEFINE s == [cli EXCEPT !.raw = raw]
<1>1. cli \in CliRecords /\ CliSafe(cli) /\ MayFail(cli) /\ ~ShouldFallBack(cli.env)
  BY SafeMayFail DEF CliInv, CliSafe
<1>2. s \in CliRecords
  BY <1>1, Zenon DEF CliRecords
<1>3. s.args = cli.args /\ s.flags = cli.flags /\ s.sub = cli.sub /\ s.typed = cli.typed
  BY <1>1, Zenon DEF CliRecords
<1>4. s.env = cli.env /\ s.policy = cli.policy /\ s.written = cli.written
  BY <1>1, Zenon DEF CliRecords
<1>5. cli' = Fail(s, code)
  BY Zenon
<1> HIDE DEF s
<1>6. Granted(s) <=> Granted(cli)
  BY <1>3, <1>4, Zenon DEF Granted
<1>7. MayFail(s)
  BY <1>1, <1>3, <1>4, <1>6, Zenon DEF MayFail
<1> QED
  BY <1>2, <1>5, <1>7, FailAfter, Zenon

LEMMA TuiEnterInv ==
  ASSUME CliInv, TuiEnter
  PROVE  CliInv'
<1>1. cli \in CliRecords /\ CliSafe(cli) /\ cli.pc = "tui" /\ ~ShouldFallBack(cli.env)
  BY DEF CliInv, CliSafe, TuiEnter
<1>2. CASE \E code \in IoCodes, raw \in BOOLEAN : cli' = Fail([cli EXCEPT !.raw = raw], code)
  BY <1>1, <1>2, TuiFails, Zenon
<1>3. CASE cli' = [cli EXCEPT !.pc = "keys", !.raw = TRUE]
  <2>1. Moved("keys", cli.typed, cli.written, TRUE)
    <3>1. cli' \in CliRecords
      BY <1>1, <1>3, Zenon DEF CliRecords
    <3>2. cli'.pc = "keys" /\ cli'.args = cli.args /\ cli'.flags = cli.flags /\ cli'.env = cli.env
      BY <1>1, <1>3, Zenon DEF CliRecords
    <3>3. cli'.policy = cli.policy /\ cli'.sub = cli.sub /\ cli'.exit = cli.exit
      BY <1>1, <1>3, Zenon DEF CliRecords
    <3>4. cli'.typed = cli.typed /\ cli'.written = cli.written /\ cli'.raw = TRUE
      BY <1>1, <1>3, Zenon DEF CliRecords
    <3> QED
      BY <3>1, <3>2, <3>3, <3>4, Zenon DEF Moved
  <2>2. Granted(cli') <=> Granted(cli)
    BY <2>1, Zenon DEF Moved, Granted
  <2> QED
    BY <1>1, <2>1, <2>2 DEF CliInv, CliSafe, Moved
<1> QED
  BY <1>2, <1>3, Zenon DEF TuiEnter

LEMMA TuiKeyInv ==
  ASSUME CliInv, TuiKey
  PROVE  CliInv'
<1>1. cli \in CliRecords /\ CliSafe(cli) /\ MayFail(cli) /\ cli.pc = "keys" /\ ~ShouldFallBack(cli.env)
  BY SafeMayFail DEF CliInv, CliSafe, TuiKey
<1>2. CASE cli' = [cli EXCEPT !.in_filter = ~@]
  <2>1. Moved("keys", cli.typed, cli.written, cli.raw)
    <3>1. cli' \in CliRecords
      BY <1>1, <1>2, Zenon DEF CliRecords
    <3>2. cli'.pc = "keys" /\ cli'.args = cli.args /\ cli'.flags = cli.flags /\ cli'.env = cli.env
      BY <1>1, <1>2, Zenon DEF CliRecords
    <3>3. cli'.policy = cli.policy /\ cli'.sub = cli.sub /\ cli'.exit = cli.exit
      BY <1>1, <1>2, Zenon DEF CliRecords
    <3>4. cli'.typed = cli.typed /\ cli'.written = cli.written /\ cli'.raw = cli.raw
      BY <1>1, <1>2, Zenon DEF CliRecords
    <3> QED
      BY <3>1, <3>2, <3>3, <3>4, Zenon DEF Moved
  <2>2. Granted(cli') <=> Granted(cli)
    BY <2>1, Zenon DEF Moved, Granted
  <2> QED
    BY <1>1, <2>1, <2>2 DEF CliInv, CliSafe, Moved
<1>3. CASE cli' = [cli EXCEPT !.pc = "restore"]
  <2>1. Moved("restore", cli.typed, cli.written, cli.raw)
    <3>1. cli' \in CliRecords
      BY <1>1, <1>3, Zenon DEF CliRecords
    <3>2. cli'.pc = "restore" /\ cli'.args = cli.args /\ cli'.flags = cli.flags /\ cli'.env = cli.env
      BY <1>1, <1>3, Zenon DEF CliRecords
    <3>3. cli'.policy = cli.policy /\ cli'.sub = cli.sub /\ cli'.exit = cli.exit
      BY <1>1, <1>3, Zenon DEF CliRecords
    <3>4. cli'.typed = cli.typed /\ cli'.written = cli.written /\ cli'.raw = cli.raw
      BY <1>1, <1>3, Zenon DEF CliRecords
    <3> QED
      BY <3>1, <3>2, <3>3, <3>4, Zenon DEF Moved
  <2>2. Granted(cli') <=> Granted(cli)
    BY <2>1, Zenon DEF Moved, Granted
  <2> QED
    BY <1>1, <2>1, <2>2 DEF CliInv, CliSafe, Moved
<1>4. CASE \E code \in IoCodes : cli' = Fail(cli, code)
  BY <1>1, <1>4, FailAfter, Zenon
<1> QED
  BY <1>2, <1>3, <1>4, Zenon DEF TuiKey

LEMMA TuiRestoreInv ==
  ASSUME CliInv, TuiRestore
  PROVE  CliInv'
<1>1. cli \in CliRecords /\ CliSafe(cli) /\ cli.pc = "restore" /\ ~ShouldFallBack(cli.env)
  BY DEF CliInv, CliSafe, TuiRestore
<1>2. CASE cli' = Succeed([cli EXCEPT !.raw = FALSE])
  <2> DEFINE s == [cli EXCEPT !.raw = FALSE]
  <2>1. s \in CliRecords
    BY <1>1, Zenon DEF CliRecords
  <2>2. s.pc = cli.pc /\ s.args = cli.args /\ s.flags = cli.flags /\ s.sub = cli.sub /\ s.exit = cli.exit
    BY <1>1, Zenon DEF CliRecords
  <2>3. s.env = cli.env /\ s.policy = cli.policy
    BY <1>1, Zenon DEF CliRecords
  <2>4. s.typed = cli.typed /\ s.written = cli.written /\ s.raw = FALSE
    BY <1>1, Zenon DEF CliRecords
  <2>5. cli' = Succeed(s)
    BY <1>2
  <2> HIDE DEF s
  <2>6. Granted(s) <=> Granted(cli)
    BY <2>2, <2>3, <2>4, Zenon DEF Granted
  <2>7. CliSafe(s)
    BY <1>1, <2>2, <2>3, <2>4, <2>6 DEF CliSafe
  <2> QED
    BY <1>1, <2>1, <2>2, <2>4, <2>5, <2>7, SucceedSafe DEF CliInv
<1>3. CASE \E code \in IoCodes, raw \in BOOLEAN : cli' = Fail([cli EXCEPT !.raw = raw], code)
  BY <1>1, <1>3, TuiFails, Zenon
<1> QED
  BY <1>2, <1>3, Zenon DEF TuiRestore

LEMMA CliNextInv ==
  ASSUME CliInv, [CliNext]_cli
  PROVE  CliInv'
<1>1. CASE cli' = cli
  BY <1>1, Zenon DEF CliInv
<1> QED
  BY <1>1, ParseGlobalInv, GlobalsParsedInv, RunInv, BodyFailsInv, BodyRunsInv, ConfirmationInv, WriteInv,
     EmitInv, TuiEnterInv, TuiKeyInv, TuiRestoreInv, Zenon DEF CliNext

(***************************************************************************)
(* Whatever the arguments, their order and the environment: install and    *)
(* enroll-config change nothing under --dry-run, and otherwise only after  *)
(* --yes, --force or a typed yes at a terminal; a command refused for its  *)
(* arguments has changed nothing; status 0 leaves the terminal as it was;  *)
(* a machine format is never coloured; and the browser takes no agent's or *)
(* CI's terminal.  What the flags mean is defined on the whole command     *)
(* line (Asked), and parse_globals hears it an argument at a time.         *)
(***************************************************************************)
THEOREM CommandsObey == CliSpec => []CliObeys
<1>1. CliInv => CliObeys
  <2> SUFFICES ASSUME CliInv PROVE CliObeys
    OBVIOUS
  <2>1. CliSafe(cli)
    BY DEF CliInv
  <2>2. cli.sub \in Destructive => cli.sub # "none"
    BY DEF Destructive
  <2>3. ASSUME cli.written, cli.sub \in Destructive
        PROVE  /\ ~Asked(cli.args, {"--dry-run", "-n"})
               /\ \/ Asked(cli.args, {"--yes", "-y", "--force"})
                  \/ cli.typed /\ cli.env.stdin_is_tty
    BY <2>1, <2>2, <2>3, Zenon DEF CliSafe, Granted, Meant, DryNames, YesNames
  <2>4. cli.policy.color => cli.policy.format \in {"human", "explore"}
    BY <2>1, Zenon DEF CliSafe, IsMachine
  <2>5. cli.raw => cli.env.stdout_is_tty /\ ~cli.env.agent_mode /\ ~cli.env.ci_mode
    BY <2>1, Zenon DEF CliSafe, ShouldFallBack
  <2>6. (cli.exit = 2 => ~cli.written) /\ (cli.exit = 0 => ~cli.raw)
    BY <2>1, Zenon DEF CliSafe
  <2> QED
    BY <2>3, <2>4, <2>5, <2>6, Zenon DEF CliObeys
<1> QED
  BY <1>1, CliInitInv, CliNextInv, PTL DEF CliSpec
=============================================================================
