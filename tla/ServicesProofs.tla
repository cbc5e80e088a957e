--------------------------- MODULE ServicesProofs ---------------------------
(***************************************************************************)
(* Proofs about the parts that stand beside the boot path: the test        *)
(* harness and the start of the other processors.                          *)
(***************************************************************************)
EXTENDS TestRunner, Smp, SequenceTheorems, FiniteSetTheorems, NaturalsInduction,
        WellFoundedInduction, TLAPS

(***************************************************************************)
(* The test harness, for every command line, every set of missing images   *)
(* and every behaviour of the guest.                                       *)
(***************************************************************************)
TrSpec == TrInit /\ [][TrNext]_tr

(* The lines of a sequence, as a set. *)
Said(lines) == {lines[k] : k \in DOMAIN lines}

(* What a kernel or the loader prints. *)
Sentinels ==
  {"KERNEL_ENTRY", "ZAMAK", "LIMINE_PROTOCOL_OK", "ASM_VERIFY_OK", "ASM_VERIFY_FAIL",
   "Linux version", "PANIC"}

Lines == Sentinels \cup {Unreadable}

TestNames ==
  {"bios-boot-smoke", "uefi-boot-smoke", "asm-wrapper-state-check", "uefi-linux-boot", "boot-smoke"}

CaseRecords ==
  [name : TestNames, mode : {"Bios", "Uefi"}, kernel : {"test", "verify", "linux"},
   expected : SUBSET Sentinels]

Guests == [killed : BOOLEAN, code : Int, printed : SUBSET Lines]

Results == [verdict : {"Pass", "Fail", "Timeout", "Skip"}, guest : Guests]

Children ==
  [state : {"running", "ended"}, code : Int, killed : BOOLEAN,
   program : [lines : Seq(Sentinels), writes : Nat], lines : Seq(Sentinels), printed : Seq(Lines),
   pipe : Seq(Lines), matched : SUBSET Sentinels, reader : {"reading", "joining"}, done : BOOLEAN,
   watchdog : {"waiting", "reaping", "finished"}, timed_out : BOOLEAN]

Harnesses ==
  [pc : {"main", "next", "test", "exited"}, argv : ArgLists, missing : Missing, host : Firmwares,
   device : Devices, single : BOOLEAN, cases : Seq(CaseRecords), i : Nat, fails : Nat, exit : Int,
   results : Seq(Results), child : Children \cup {NoChild}]

(***************************************************************************)
(* What the reader knows of the guest: a sentinel it matched was printed;  *)
(* while it reads, a sentinel that was printed is matched or still in the  *)
(* pipe; once it has stopped it has them all, met a line it could not      *)
(* read, or has read everything a dead guest printed.                      *)
(***************************************************************************)
ChildInv(child, expected) ==
  /\ child \in Children
  /\ child.matched \subseteq expected
  /\ child.matched \subseteq Said(child.printed)
  /\ Said(child.pipe) \subseteq Said(child.printed)
  /\ child.killed => child.timed_out
  /\ child.reader = "reading" =>
       expected \cap Said(child.printed) \subseteq child.matched \cup Said(child.pipe)
  /\ child.reader = "joining" =>
       \/ child.matched = expected
       \/ Unreadable \in Said(child.printed)
       \/ child.state = "ended" /\ expected \cap Said(child.printed) \subseteq child.matched

(* What a result may say of a guest. *)
ResultSound(r, expected) ==
  /\ r.verdict = "Pass" =>
       /\ ~r.guest.killed
       /\ \/ r.guest.code = EXIT_SUCCESS
          \/ expected \subseteq r.guest.printed /\ r.guest.code # EXIT_FAILURE
  /\ r.verdict = "Fail" =>
       \/ r.guest.code = EXIT_FAILURE
       \/ ~(expected \subseteq r.guest.printed)
       \/ Unreadable \in r.guest.printed

Failed(results) == \E i \in DOMAIN results : results[i].verdict \in {"Fail", "Timeout"}

TrInv ==
  /\ tr \in Harnesses
  /\ \A k \in DOMAIN tr.cases : tr.cases[k].expected # {}
  /\ tr.pc = "main" => tr.results = <<>> /\ tr.i = 1 /\ tr.fails = 0
  /\ tr.i = Len(tr.results) + 1
  /\ \A k \in DOMAIN tr.results : ResultSound(tr.results[k], tr.cases[k].expected)
  /\ tr.fails > 0 <=> Failed(tr.results)
  /\ tr.pc = "test" => tr.i \in DOMAIN tr.cases /\ ChildInv(tr.child, Test.expected)
  /\ tr.pc = "exited" /\ tr.exit = 0 => ~Failed(tr.results)
  /\ tr.pc = "exited" /\ tr.exit = 1 => Failed(tr.results)

-----------------------------------------------------------------------------
LEMMA SaidAppend ==
  ASSUME NEW S, NEW s \in Seq(S), NEW l \in S
  PROVE  Append(s, l) \in Seq(S) /\ Said(Append(s, l)) = Said(s) \cup {l}
PROOF
<1>1. Append(s, l) \in Seq(S) /\ Len(Append(s, l)) = Len(s) + 1
      /\ DOMAIN Append(s, l) = 1..(Len(s) + 1) /\ DOMAIN s = 1..Len(s) /\ Len(s) \in Nat
  OBVIOUS
<1>2. Append(s, l)[Len(s) + 1] = l /\ \A k \in 1..Len(s) : Append(s, l)[k] = s[k]
  OBVIOUS
<1>3. \A k : k \in 1..(Len(s) + 1) <=> k \in 1..Len(s) \/ k = Len(s) + 1
  BY <1>1
<1> QED
  BY ONLY <1>1, <1>2, <1>3, Zenon DEF Said

LEMMA SaidHead ==
  ASSUME NEW S, NEW s \in Seq(S), s # <<>>
  PROVE  Tail(s) \in Seq(S) /\ Head(s) \in S /\ Said(s) = {Head(s)} \cup Said(Tail(s))
PROOF
<1>1. Len(s) \in Nat /\ Len(s) > 0 /\ DOMAIN s = 1..Len(s)
  BY EmptySeq
<1>2. Tail(s) \in Seq(S) /\ DOMAIN Tail(s) = 1..(Len(s) - 1) /\ Head(s) = s[1]
      /\ \A k \in 1..(Len(s) - 1) : Tail(s)[k] = s[k + 1]
  BY HeadTailProperties, <1>1
<1>3. Head(s) \in S
  BY <1>1, <1>2
<1>4. ASSUME NEW x \in Said(s) PROVE x \in {Head(s)} \cup Said(Tail(s))
  <2>1. PICK k \in 1..Len(s) : x = s[k]
    BY <1>1 DEF Said
  <2>2. CASE k = 1
    BY <2>1, <2>2, <1>2
  <2>3. CASE k # 1
    <3>1. k - 1 \in 1..(Len(s) - 1) /\ (k - 1) + 1 = k
      BY <2>3, <1>1
    <3>2. x = Tail(s)[k - 1]
      BY <3>1, <2>1, <1>2
    <3> QED
      BY <3>1, <3>2, <1>2 DEF Said
  <2> QED
    BY <2>2, <2>3
<1>5. ASSUME NEW x \in {Head(s)} \cup Said(Tail(s)) PROVE x \in Said(s)
  <2>1. CASE x = Head(s)
    BY <2>1, <1>1, <1>2 DEF Said
  <2>2. CASE x \in Said(Tail(s))
    <3>1. PICK k \in 1..(Len(s) - 1) : x = Tail(s)[k]
      BY <2>2, <1>2 DEF Said
    <3>2. x = s[k + 1] /\ k + 1 \in 1..Len(s)
      BY <3>1, <1>1, <1>2
    <3> QED
      BY <3>2, <1>1 DEF Said
  <2> QED
    BY <2>1, <2>2
<1> QED
  BY <1>2, <1>3, <1>4, <1>5

-----------------------------------------------------------------------------
(* The guest, the reader and the watchdog each keep the child's invariant. *)
LEMMA EmittedInv ==
  ASSUME NEW c, NEW expected, ChildInv(c, expected), c.state = "running", NEW l \in Lines
  PROVE  ChildInv(Emitted(c, l), expected) /\ Emitted(c, l).state = "running"
         /\ Emitted(c, l).lines = c.lines
PROOF
<1> DEFINE d == Emitted(c, l)
<1>1. c \in Children /\ c.printed \in Seq(Lines) /\ c.pipe \in Seq(Lines)
  BY DEF ChildInv, Children
<1>2. /\ Append(c.printed, l) \in Seq(Lines) /\ Said(Append(c.printed, l)) = Said(c.printed) \cup {l}
      /\ Append(c.pipe, l) \in Seq(Lines) /\ Said(Append(c.pipe, l)) = Said(c.pipe) \cup {l}
  BY <1>1, SaidAppend
<1>3. d \in Children
  BY <1>1, <1>2, Zenon DEF Children, Emitted
<1>4. d.printed = Append(c.printed, l) /\ d.pipe = Append(c.pipe, l)
  BY <1>1 DEF Children, Emitted
<1>5. d.matched = c.matched /\ d.reader = c.reader /\ d.state = c.state
  BY <1>1 DEF Children, Emitted
<1>6. d.killed = c.killed /\ d.timed_out = c.timed_out /\ d.lines = c.lines
  BY <1>1 DEF Children, Emitted
<1> HIDE DEF d
<1>7. ChildInv(d, expected)
  BY <1>2, <1>3, <1>4, <1>5, <1>6 DEF ChildInv
<1> QED
  BY <1>5, <1>6, <1>7 DEF d

LEMMA LinesInv ==
  ASSUME NEW c, NEW expected, ChildInv(c, expected), NEW lines \in Seq(Sentinels)
  PROVE  ChildInv([c EXCEPT !.lines = lines], expected)
PROOF
<1> DEFINE d == [c EXCEPT !.lines = lines]
<1>1. c \in Children
  BY DEF ChildInv
<1>3. d \in Children
  BY <1>1, Zenon DEF Children
<1>4. d.printed = c.printed /\ d.pipe = c.pipe
  BY <1>1 DEF Children
<1>5. d.matched = c.matched /\ d.reader = c.reader /\ d.state = c.state
  BY <1>1 DEF Children
<1>6. d.killed = c.killed /\ d.timed_out = c.timed_out
  BY <1>1 DEF Children
<1> HIDE DEF d
<1>7. ChildInv(d, expected)
  BY <1>3, <1>4, <1>5, <1>6 DEF ChildInv
<1> QED
  BY <1>7 DEF d

LEMMA EndsInv ==
  ASSUME NEW c, NEW expected, ChildInv(c, expected), NEW code \in Int
  PROVE  ChildInv(Ends(c, code), expected)
PROOF
<1> DEFINE d == Ends(c, code)
<1>1. c \in Children
  BY DEF ChildInv
<1>3. d \in Children
  BY <1>1, Zenon DEF Children, Ends
<1>4. d.printed = c.printed /\ d.pipe = c.pipe
  BY <1>1 DEF Children, Ends
<1>5. d.matched = c.matched /\ d.reader = c.reader /\ d.state = "ended"
  BY <1>1 DEF Children, Ends
<1>6. d.killed = c.killed /\ d.timed_out = c.timed_out
  BY <1>1 DEF Children, Ends
<1> HIDE DEF d
<1>7. ChildInv(d, expected)
  BY <1>3, <1>4, <1>5, <1>6 DEF ChildInv
<1> QED
  BY <1>7 DEF d

(* A deadline sets timed_out with the kill. *)
LEMMA KillInv ==
  ASSUME NEW c, NEW expected, ChildInv(c, expected)
  PROVE  ChildInv([Kill(c) EXCEPT !.watchdog = "reaping", !.timed_out = TRUE], expected)
PROOF
<1> DEFINE k == Kill(c)
           d == [k EXCEPT !.watchdog = "reaping", !.timed_out = TRUE]
<1>1. c \in Children
  BY DEF ChildInv
<1>2. k \in Children
  BY <1>1, Zenon DEF Children, Kill
<1>3. k.printed = c.printed /\ k.pipe = c.pipe /\ k.matched = c.matched
  BY <1>1 DEF Children, Kill
<1>4. k.reader = c.reader /\ (c.state = "ended" => k.state = "ended")
  BY <1>1 DEF Children, Kill
<1> HIDE DEF k
<1>5. d \in Children
  BY <1>2, Zenon DEF Children
<1>6. d.printed = k.printed /\ d.pipe = k.pipe /\ d.matched = k.matched
  BY <1>2 DEF Children
<1>7. d.reader = k.reader /\ d.state = k.state /\ d.timed_out = TRUE
  BY <1>2 DEF Children
<1> HIDE DEF d
<1>8. ChildInv(d, expected)
  BY <1>3, <1>4, <1>5, <1>6, <1>7 DEF ChildInv
<1> QED
  BY <1>8 DEF d, k

LEMMA WatchdogInv ==
  ASSUME NEW c, NEW expected, ChildInv(c, expected), NEW w \in {"reaping", "finished"}
  PROVE  ChildInv([c EXCEPT !.watchdog = w], expected)
PROOF
<1> DEFINE d == [c EXCEPT !.watchdog = w]
<1>1. c \in Children
  BY DEF ChildInv
<1>3. d \in Children
  BY <1>1, Zenon DEF Children
<1>4. d.printed = c.printed /\ d.pipe = c.pipe
  BY <1>1 DEF Children
<1>5. d.matched = c.matched /\ d.reader = c.reader /\ d.state = c.state
  BY <1>1 DEF Children
<1>6. d.killed = c.killed /\ d.timed_out = c.timed_out
  BY <1>1 DEF Children
<1> HIDE DEF d
<1>7. ChildInv(d, expected)
  BY <1>3, <1>4, <1>5, <1>6 DEF ChildInv
<1> QED
  BY <1>7 DEF d

LEMMA StopInv ==
  ASSUME NEW c, NEW expected, ChildInv(c, expected),
         \/ c.matched = expected
         \/ Unreadable \in Said(c.printed)
         \/ c.state = "ended" /\ expected \cap Said(c.printed) \subseteq c.matched
  PROVE  ChildInv(StopReading(c), expected)
PROOF
<1> DEFINE d == StopReading(c)
<1>1. c \in Children
  BY DEF ChildInv
<1>3. d \in Children
  BY <1>1, Zenon DEF Children, StopReading
<1>4. d.printed = c.printed /\ d.pipe = c.pipe
  BY <1>1 DEF Children, StopReading
<1>5. d.matched = c.matched /\ d.reader = "joining" /\ d.state = c.state
  BY <1>1 DEF Children, StopReading
<1>6. d.killed = c.killed /\ d.timed_out = c.timed_out
  BY <1>1 DEF Children, StopReading
<1> HIDE DEF d
<1>7. ChildInv(d, expected)
  BY <1>3, <1>4, <1>5, <1>6 DEF ChildInv
<1> QED
  BY <1>7 DEF d

(* Reading a line moves it from the pipe to what is matched. *)
LEMMA ReadInv ==
  ASSUME NEW c, NEW expected, expected \subseteq Sentinels, ChildInv(c, expected),
         c.reader = "reading", c.pipe # <<>>,
         NEW matched, matched = c.matched \cup ({Head(c.pipe)} \cap expected)
  PROVE  /\ ChildInv([c EXCEPT !.pipe = Tail(@), !.matched = matched], expected)
         /\ [c EXCEPT !.pipe = Tail(@), !.matched = matched].matched = matched
         /\ Head(c.pipe) \in Said([c EXCEPT !.pipe = Tail(@), !.matched = matched].printed)
PROOF
<1> DEFINE d == [c EXCEPT !.pipe = Tail(@), !.matched = matched]
<1>1. c \in Children /\ c.pipe \in Seq(Lines) /\ c.matched \subseteq Sentinels
  BY DEF ChildInv, Children
<1>2. Tail(c.pipe) \in Seq(Lines) /\ Said(c.pipe) = {Head(c.pipe)} \cup Said(Tail(c.pipe))
  BY <1>1, SaidHead
<1>3. matched \in SUBSET Sentinels
  BY <1>1
<1>4. d \in Children
  BY <1>1, <1>2, <1>3, Zenon DEF Children
<1>5. d.printed = c.printed /\ d.pipe = Tail(c.pipe)
  BY <1>1 DEF Children
<1>6. d.matched = matched /\ d.reader = c.reader /\ d.state = c.state
  BY <1>1 DEF Children
<1>7. d.killed = c.killed /\ d.timed_out = c.timed_out
  BY <1>1 DEF Children
<1> HIDE DEF d
<1>8. Said(c.pipe) \subseteq Said(c.printed) /\ c.matched \subseteq Said(c.printed)
      /\ expected \cap Said(c.printed) \subseteq c.matched \cup Said(c.pipe)
      /\ c.matched \subseteq expected /\ (c.killed => c.timed_out)
  BY DEF ChildInv
<1>9. Said(Tail(c.pipe)) \subseteq Said(c.printed) /\ matched \subseteq Said(c.printed)
      /\ expected \cap Said(c.printed) \subseteq matched \cup Said(Tail(c.pipe))
      /\ matched \subseteq expected /\ Head(c.pipe) \in Said(c.printed)
  BY <1>2, <1>8
<1>10. ChildInv(d, expected)
  BY <1>4, <1>5, <1>6, <1>7, <1>8, <1>9 DEF ChildInv
<1> QED
  BY <1>5, <1>6, <1>9, <1>10 DEF d

-----------------------------------------------------------------------------
(* The steps of the harness. *)
LEMMA TrInitInv == TrInit => TrInv
PROOF
<1> SUFFICES ASSUME TrInit PROVE TrInv
  OBVIOUS
<1>1. PICK argv \in ArgLists, missing \in Missing, host \in Firmwares, device \in Devices :
        tr = [pc |-> "main", argv |-> argv, missing |-> missing, host |-> host,
              device |-> device, single |-> FALSE, cases |-> <<>>, i |-> 1, fails |-> 0,
              exit |-> 0, results |-> <<>>, child |-> NoChild]
  BY DEF TrInit
<1>2. <<>> \in Seq(CaseRecords) /\ <<>> \in Seq(Results) /\ 1 \in Nat /\ 0 \in Nat /\ 0 \in Int
  OBVIOUS
<1>3. tr \in Harnesses
  BY <1>1, <1>2, Zenon DEF Harnesses
<1>4. tr.pc = "main" /\ tr.results = <<>> /\ tr.cases = <<>> /\ tr.i = 1 /\ tr.fails = 0
  BY <1>1
<1>5. Len(<<>>) = 0 /\ DOMAIN <<>> = {}
  OBVIOUS
<1> QED
  BY <1>3, <1>4, <1>5 DEF TrInv, Failed

(* A step that only changes the child, and keeps its invariant. *)
LEMMA ToChildInv ==
  ASSUME TrInv, tr.pc = "test", NEW child, ChildInv(child, Test.expected), ToChild(child)
  PROVE  TrInv'
PROOF
<1>1. tr \in Harnesses /\ child \in Children
  BY DEF TrInv, ChildInv
<1>2. tr' \in Harnesses
  BY <1>1, Zenon DEF Harnesses, ToChild
<1>3. tr'.pc = tr.pc /\ tr'.cases = tr.cases /\ tr'.i = tr.i
  BY <1>1 DEF Harnesses, ToChild
<1>4. tr'.fails = tr.fails /\ tr'.results = tr.results /\ tr'.child = child
  BY <1>1 DEF Harnesses, ToChild
<1>5. Test' = Test
  BY <1>3 DEF Test
<1> QED
  BY <1>2, <1>3, <1>4, <1>5 DEF TrInv

LEMMA ExitInv ==
  ASSUME TrInv, NEW code \in Int, Exit(code), tr.pc # "test",
         code = 0 => ~Failed(tr.results), code = 1 => Failed(tr.results)
  PROVE  TrInv'
PROOF
<1>1. tr \in Harnesses
  BY DEF TrInv
<1>2. tr' \in Harnesses
  BY <1>1, Zenon DEF Harnesses, Exit
<1>3. tr'.pc = "exited" /\ tr'.cases = tr.cases /\ tr'.i = tr.i
  BY <1>1 DEF Harnesses, Exit
<1>4. tr'.fails = tr.fails /\ tr'.results = tr.results /\ tr'.exit = code
  BY <1>1 DEF Harnesses, Exit
<1> QED
  BY <1>2, <1>3, <1>4 DEF TrInv

(* A test case expects at least one sentinel. *)
CasesTyped(cases) ==
  cases \in Seq(CaseRecords) /\ \A k \in DOMAIN cases : cases[k].expected # {}

LEMMA OneCase ==
  ASSUME NEW name \in TestNames, NEW mode \in {"Bios", "Uefi"}, NEW kernel \in {"test", "verify", "linux"},
         NEW expected \in SUBSET Sentinels, expected # {}
  PROVE  TestCase(name, mode, kernel, expected) \in CaseRecords
         /\ TestCase(name, mode, kernel, expected).expected # {}
PROOF
  BY DEF TestCase, CaseRecords

LEMMA SuitesTyped == \A s \in DOMAIN Suites : CasesTyped(Suites[s])
PROOF
<1>0. DOMAIN Suites = {"boot-smoke", "asm-verification", "linux-bzimage"}
  BY DEF Suites
<1> DEFINE a == TestCase("bios-boot-smoke", "Bios", "test", {"ZAMAK", "LIMINE_PROTOCOL_OK"})
           b == TestCase("uefi-boot-smoke", "Uefi", "test", {"ZAMAK", "LIMINE_PROTOCOL_OK"})
           v == TestCase("asm-wrapper-state-check", "Uefi", "verify", {"ASM_VERIFY_OK"})
           l == TestCase("uefi-linux-boot", "Uefi", "linux", {"ZAMAK", "Linux version"})
<1>1. a \in CaseRecords /\ a.expected # {} /\ b \in CaseRecords /\ b.expected # {}
  BY OneCase DEF TestNames, Sentinels
<1>2. v \in CaseRecords /\ v.expected # {} /\ l \in CaseRecords /\ l.expected # {}
  BY OneCase DEF TestNames, Sentinels
<1>3. Suites["boot-smoke"] = <<a, b>> /\ Suites["asm-verification"] = <<v>>
      /\ Suites["linux-bzimage"] = <<l>>
  BY DEF Suites
<1> HIDE DEF a, b, v, l
<1>4. CasesTyped(<<a, b>>) /\ CasesTyped(<<v>>) /\ CasesTyped(<<l>>)
  BY <1>1, <1>2 DEF CasesTyped
<1> QED
  BY <1>0, <1>3, <1>4

LEMMA SingleTyped == \A mode : CasesTyped(RunSingle(mode))
PROOF
<1> TAKE mode
<1> DEFINE m == IF mode = "--bios" THEN "Bios" ELSE "Uefi"
           a == TestCase("boot-smoke", m, "test", {"ZAMAK"})
<1>1. m \in {"Bios", "Uefi"}
  OBVIOUS
<1>2. a \in CaseRecords /\ a.expected # {}
  BY <1>1, OneCase DEF TestNames, Sentinels
<1>3. RunSingle(mode) = <<a>>
  BY DEF RunSingle
<1> HIDE DEF a
<1> QED
  BY <1>2, <1>3 DEF CasesTyped

LEMMA SuiteStartInv ==
  ASSUME TrInv, tr.pc = "main", NEW cases, CasesTyped(cases), NEW single \in BOOLEAN,
         tr' = [tr EXCEPT !.pc = "next", !.single = single, !.cases = cases]
  PROVE  TrInv'
PROOF
<1>1. tr \in Harnesses /\ cases \in Seq(CaseRecords)
  BY DEF TrInv, CasesTyped
<1>2. tr' \in Harnesses
  BY <1>1, Zenon DEF Harnesses
<1>3. tr'.pc = "next" /\ tr'.cases = cases /\ tr'.i = tr.i
  BY <1>1 DEF Harnesses
<1>4. tr'.fails = tr.fails /\ tr'.results = tr.results
  BY <1>1 DEF Harnesses
<1>5. tr.results = <<>> /\ DOMAIN <<>> = {}
  BY DEF TrInv
<1> QED
  BY <1>2, <1>3, <1>4, <1>5 DEF TrInv, CasesTyped

LEMMA MainInv == TrInv /\ Main => TrInv'
PROOF
<1> SUFFICES ASSUME TrInv, Main PROVE TrInv'
  OBVIOUS
<1> DEFINE args == ParseArgs(tr.argv)
<1>1. tr.pc = "main" /\ tr \in Harnesses /\ ~Failed(tr.results)
  BY DEF Main, TrInv, Failed
<1>2. \/ Exit(2)
      \/ Exit(0)
      \/ args.arg \in DOMAIN Suites /\ tr' = [tr EXCEPT !.pc = "next", !.cases = Suites[args.arg]]
      \/ tr' = [tr EXCEPT !.pc = "next", !.single = TRUE, !.cases = RunSingle(args.mode)]
  <2> HIDE DEF args
  <2>1. args = ParseArgs(tr.argv)
    BY DEF args
  <2> QED
    BY <2>1, Zenon DEF Main
<1> HIDE DEF args
<1>3. CASE Exit(2) \/ Exit(0)
  BY <1>1, <1>3, ExitInv
<1>4. CASE args.arg \in DOMAIN Suites /\ tr' = [tr EXCEPT !.pc = "next", !.cases = Suites[args.arg]]
  <2>1. tr' = [tr EXCEPT !.pc = "next", !.single = tr.single, !.cases = Suites[args.arg]]
    BY <1>1, <1>4 DEF Harnesses
  <2>2. tr.single \in BOOLEAN
    BY <1>1 DEF Harnesses
  <2> QED
    BY <1>1, <1>4, <2>1, <2>2, SuitesTyped, SuiteStartInv
<1>5. CASE tr' = [tr EXCEPT !.pc = "next", !.single = TRUE, !.cases = RunSingle(args.mode)]
  BY <1>1, <1>5, SingleTyped, SuiteStartInv
<1> QED
  BY <1>2, <1>3, <1>4, <1>5

(* A sound result added at the place of its test. *)
LEMMA ReportInv ==
  ASSUME TrInv, tr.pc \in {"next", "test"}, tr.i <= Len(tr.cases),
         NEW verdict \in {"Pass", "Fail", "Timeout", "Skip"}, NEW guest \in Guests,
         ResultSound([verdict |-> verdict, guest |-> guest], Test.expected),
         Report(verdict, guest)
  PROVE  TrInv'
PROOF
<1> DEFINE r == [verdict |-> verdict, guest |-> guest]
           more == IF verdict \in {"Fail", "Timeout"} THEN 1 ELSE 0
<1>1. tr \in Harnesses /\ tr.i \in Nat /\ tr.fails \in Nat /\ tr.results \in Seq(Results)
      /\ tr.i = Len(tr.results) + 1
  BY DEF TrInv, Harnesses
<1>2. r \in Results /\ r.verdict = verdict
  BY DEF Results
<1>3. more \in {0, 1} /\ (more = 1 <=> verdict \in {"Fail", "Timeout"})
  OBVIOUS
<1>4. tr' = [tr EXCEPT !.pc = "next", !.i = @ + 1, !.child = NoChild,
                      !.fails = @ + more, !.results = Append(@, r)]
  BY DEF Report
<1> HIDE DEF r, more
<1>5. tr.i + 1 \in Nat /\ tr.fails + more \in Nat /\ Append(tr.results, r) \in Seq(Results)
  BY <1>1, <1>2, <1>3
<1>6. tr' \in Harnesses
  BY <1>1, <1>4, <1>5, Zenon DEF Harnesses
<1>7. tr'.pc = "next" /\ tr'.cases = tr.cases /\ tr'.i = tr.i + 1
  BY <1>1, <1>4 DEF Harnesses
<1>8. tr'.fails = tr.fails + more /\ tr'.results = Append(tr.results, r)
  BY <1>1, <1>4 DEF Harnesses
<1>9. /\ Len(Append(tr.results, r)) = Len(tr.results) + 1
      /\ DOMAIN Append(tr.results, r) = 1..tr.i
      /\ DOMAIN tr.results = 1..(tr.i - 1)
      /\ Append(tr.results, r)[tr.i] = r
      /\ \A k \in 1..(tr.i - 1) : Append(tr.results, r)[k] = tr.results[k]
  BY <1>1
<1>10. \A k : k \in 1..tr.i <=> k \in 1..(tr.i - 1) \/ k = tr.i
  BY <1>1
<1>11. \A k \in DOMAIN tr'.results : ResultSound(tr'.results[k], tr'.cases[k].expected)
  <2>1. ResultSound(r, tr.cases[tr.i].expected)
    BY DEF r, Test
  <2>2. \A k \in DOMAIN tr.results : ResultSound(tr.results[k], tr.cases[k].expected)
    BY DEF TrInv
  <2> QED
    BY ONLY <1>7, <1>8, <1>9, <1>10, <2>1, <2>2, Zenon
<1>12. tr'.fails > 0 <=> Failed(tr'.results)
  <2>1. Failed(tr'.results) <=> Failed(tr.results) \/ verdict \in {"Fail", "Timeout"}
    BY ONLY <1>2, <1>8, <1>9, <1>10, Zenon DEF Failed
  <2>2. tr.fails > 0 <=> Failed(tr.results)
    BY DEF TrInv
  <2>3. tr.fails + more > 0 <=> tr.fails > 0 \/ more = 1
    BY <1>1, <1>3
  <2> QED
    BY <1>3, <1>8, <2>1, <2>2, <2>3
<1>13. tr'.i = Len(tr'.results) + 1
  BY <1>1, <1>7, <1>8, <1>9
<1> QED
  BY <1>6, <1>7, <1>11, <1>12, <1>13 DEF TrInv

LEMMA SkipInv == TrInv /\ SkipTest => TrInv'
PROOF
<1> SUFFICES ASSUME TrInv, SkipTest PROVE TrInv'
  OBVIOUS
<1>1. NoGuest \in Guests
  BY DEF NoGuest, Guests, NoCode
<1>2. ResultSound([verdict |-> "Skip", guest |-> NoGuest], Test.expected)
  BY DEF ResultSound
<1> QED
  BY <1>1, <1>2, ReportInv DEF SkipTest

(* A guest that starts has printed nothing. *)
LEMMA FreshChild ==
  ASSUME NEW program \in [lines : Seq(Sentinels), writes : Nat], NEW expected
  PROVE  ChildInv([state |-> "running", code |-> NoCode, killed |-> FALSE,
                   program |-> program, lines |-> <<"ZAMAK">> \o program.lines,
                   printed |-> <<>>, pipe |-> <<>>, matched |-> {},
                   reader |-> "reading", done |-> FALSE,
                   watchdog |-> "waiting", timed_out |-> FALSE], expected)
PROOF
<1> DEFINE lines == <<"ZAMAK">> \o program.lines
<1>a. "ZAMAK" \in Sentinels
  BY DEF Sentinels
<1>b. program.lines \in Seq(Sentinels)
  OBVIOUS
<1>0. <<"ZAMAK">> \in Seq(Sentinels) /\ program.lines \in Seq(Sentinels)
  BY <1>a, <1>b
<1>1. lines \in Seq(Sentinels) /\ <<>> \in Seq(Lines) /\ {} \in SUBSET Sentinels /\ NoCode \in Int
  BY <1>0 DEF NoCode
<1>2. Said(<<>>) = {}
  BY DEF Said
<1> HIDE DEF lines
<1> DEFINE c == [state |-> "running", code |-> NoCode, killed |-> FALSE,
                 program |-> program, lines |-> lines, printed |-> <<>>, pipe |-> <<>>,
                 matched |-> {}, reader |-> "reading", done |-> FALSE,
                 watchdog |-> "waiting", timed_out |-> FALSE]
<1>3. c \in Children
  BY <1>1, Zenon DEF Children
<1>4. c.printed = <<>> /\ c.pipe = <<>> /\ c.matched = {} /\ c.reader = "reading" /\ c.killed = FALSE
  OBVIOUS
<1> HIDE DEF c
<1>5. ChildInv(c, expected)
  BY <1>2, <1>3, <1>4 DEF ChildInv
<1> QED
  BY <1>5 DEF c, lines

LEMMA ProgramTyped ==
  \A kernel : \A program \in Programs(kernel) : program \in [lines : Seq(Sentinels), writes : Nat]
PROOF
<1>1. TestKernel \in [lines : Seq(Sentinels), writes : Nat]
  BY DEF TestKernel, Sentinels
<1>2. AsmVerify \in [lines : Seq(Sentinels), writes : Nat]
  BY DEF AsmVerify, Sentinels
<1>3. AsmVerifyFails \in [lines : Seq(Sentinels), writes : Nat]
  BY DEF AsmVerifyFails, Sentinels
<1>4. LinuxStub \in [lines : Seq(Sentinels), writes : Nat]
  BY DEF LinuxStub, Sentinels
<1> QED
  BY <1>1, <1>2, <1>3, <1>4 DEF Programs

LEMMA StartInv == TrInv /\ StartTest => TrInv'
PROOF
<1> SUFFICES ASSUME TrInv, StartTest PROVE TrInv'
  OBVIOUS
<1>0. tr \in Harnesses /\ tr.i \in Nat /\ tr.cases \in Seq(CaseRecords)
      /\ tr.results \in Seq(Results) /\ tr.i = Len(tr.results) + 1
  BY DEF TrInv, Harnesses
<1>1. tr \in Harnesses /\ tr.pc = "next" /\ tr.i <= Len(tr.cases) /\ tr.i \in Nat /\ tr.i >= 1
      /\ tr.cases \in Seq(CaseRecords)
  <2>1. tr.pc = "next" /\ tr.i <= Len(tr.cases)
    BY Zenon DEF StartTest
  <2>2. tr.i >= 1
    BY <1>0
  <2> QED
    BY <1>0, <2>1, <2>2
<1>2. tr.i \in DOMAIN tr.cases
  BY <1>1
<1>3. CASE Exit(101)
  BY <1>1, <1>3, ExitInv
<1>4. CASE Report("Fail", NoGuest)
  <2>1. NoGuest \in Guests /\ NoGuest.printed = {}
    BY DEF NoGuest, Guests, NoCode
  <2>2. Test.expected # {}
    BY <1>2 DEF TrInv, Test
  <2>3. ResultSound([verdict |-> "Fail", guest |-> NoGuest], Test.expected)
    BY <2>1, <2>2 DEF ResultSound
  <2> QED
    BY <1>1, <1>4, <2>1, <2>3, ReportInv
<1>5. ASSUME NEW program \in Programs(Test.kernel), NEW child,
             ChildInv(child, Test.expected), tr' = [tr EXCEPT !.pc = "test", !.child = child]
      PROVE TrInv'
  <2>1. child \in Children
    BY <1>5 DEF ChildInv
  <2>2. tr' \in Harnesses
    BY <1>1, <1>5, <2>1, Zenon DEF Harnesses
  <2>3. tr'.pc = "test" /\ tr'.cases = tr.cases /\ tr'.i = tr.i
    BY <1>1, <1>5 DEF Harnesses
  <2>4. tr'.fails = tr.fails /\ tr'.results = tr.results /\ tr'.child = child
    BY <1>1, <1>5 DEF Harnesses
  <2>5. Test' = Test
    BY <2>3 DEF Test
  <2> QED
    BY <1>2, <1>5, <2>2, <2>3, <2>4, <2>5 DEF TrInv
<1> QED
  BY <1>3, <1>4, <1>5, FreshChild, ProgramTyped DEF StartTest

LEMMA EndInv == TrInv /\ SuiteEnds => TrInv'
PROOF
<1> SUFFICES ASSUME TrInv, SuiteEnds PROVE TrInv'
  OBVIOUS
<1>1. tr.fails > 0 <=> Failed(tr.results)
  BY DEF TrInv
<1> QED
  BY <1>1, ExitInv DEF SuiteEnds

-----------------------------------------------------------------------------
(* The steps of a test. *)
LEMMA TestFacts ==
  ASSUME TrInv, tr.pc = "test"
  PROVE  ChildInv(tr.child, Test.expected) /\ tr.child \in Children /\ Test.expected \in SUBSET Sentinels
         /\ tr.i <= Len(tr.cases)
PROOF
<1>1. tr.cases \in Seq(CaseRecords) /\ tr.i \in DOMAIN tr.cases /\ ChildInv(tr.child, Test.expected)
  BY DEF TrInv, Harnesses
<1>2. Test \in CaseRecords /\ tr.i <= Len(tr.cases)
  BY <1>1 DEF Test
<1> QED
  BY <1>1, <1>2 DEF CaseRecords, ChildInv

LEMMA GuestInv == TrInv /\ Guest => TrInv'
PROOF
<1> SUFFICES ASSUME TrInv, Guest PROVE TrInv'
  OBVIOUS
<1>1. tr.pc = "test" /\ tr.child.state = "running"
  BY DEF Guest, GuestPrints, GuestGarbles, GuestExits, GuestPanics, GuestDies, Running
<1>2. ChildInv(tr.child, Test.expected) /\ tr.child \in Children
  BY <1>1, TestFacts
<1>3. tr.child.lines \in Seq(Sentinels) /\ tr.child.program.writes \in Nat
  BY <1>2 DEF Children
<1>4. CASE GuestPrints
  <2> DEFINE l == Head(tr.child.lines)
  <2>1. l \in Sentinels /\ Tail(tr.child.lines) \in Seq(Sentinels)
    BY <1>3, <1>4, SaidHead DEF GuestPrints
  <2>2. l \in Lines
    BY <2>1 DEF Lines
  <2>3. ToChild([Emitted(tr.child, l) EXCEPT !.lines = Tail(Emitted(tr.child, l).lines)])
    BY <1>4 DEF GuestPrints
  <2> HIDE DEF l
  <2>4. ChildInv(Emitted(tr.child, l), Test.expected) /\ Emitted(tr.child, l).lines = tr.child.lines
    BY <1>1, <1>2, <2>2, EmittedInv
  <2>5. ChildInv([Emitted(tr.child, l) EXCEPT !.lines = Tail(tr.child.lines)], Test.expected)
    BY <2>1, <2>4, LinesInv
  <2> QED
    BY <1>1, <2>3, <2>4, <2>5, ToChildInv
<1>5. CASE GuestGarbles
  <2>1. Unreadable \in Lines
    BY DEF Lines
  <2> QED
    BY <1>1, <1>2, <1>5, <2>1, EmittedInv, ToChildInv DEF GuestGarbles
<1>6. CASE GuestExits
  <2>1. DebugExit(tr.child.program.writes) \in Int
    BY <1>3 DEF DebugExit
  <2> QED
    BY <1>1, <1>2, <1>6, <2>1, EndsInv, ToChildInv DEF GuestExits
<1>7. CASE GuestPanics
  <2> DEFINE child == Emitted(tr.child, "PANIC")
  <2>1. "PANIC" \in Lines
    BY DEF Lines, Sentinels
  <2>2. ChildInv(child, Test.expected)
    BY <1>1, <1>2, <2>1, EmittedInv
  <2>3. DebugExit(50) \in Int /\ <<>> \in Seq(Sentinels)
    BY DEF DebugExit
  <2>4. ToChild(Ends(child, DebugExit(50))) \/ ToChild([child EXCEPT !.lines = <<>>])
    BY <1>7 DEF GuestPanics
  <2> HIDE DEF child
  <2>5. ChildInv(Ends(child, DebugExit(50)), Test.expected)
        /\ ChildInv([child EXCEPT !.lines = <<>>], Test.expected)
    BY <2>2, <2>3, EndsInv, LinesInv
  <2> QED
    BY <1>1, <2>4, <2>5, ToChildInv
<1>8. CASE GuestDies
  <2>1. 0 \in Int /\ NoCode \in Int
    BY DEF NoCode
  <2> QED
    BY <1>1, <1>2, <1>8, <2>1, EndsInv, ToChildInv DEF GuestDies
<1> QED
  BY <1>4, <1>5, <1>6, <1>7, <1>8 DEF Guest

LEMMA ReadLineInv == TrInv /\ ReadLine => TrInv'
PROOF
<1> SUFFICES ASSUME TrInv, ReadLine PROVE TrInv'
  OBVIOUS
<1> DEFINE line == Head(tr.child.pipe)
           matched == tr.child.matched \cup ({line} \cap Test.expected)
           read == [tr.child EXCEPT !.pipe = Tail(@), !.matched = matched]
<1>1. tr.pc = "test" /\ tr.child.reader = "reading" /\ tr.child.pipe # <<>>
  BY DEF ReadLine, Reading
<1>2. ChildInv(tr.child, Test.expected) /\ Test.expected \in SUBSET Sentinels
  BY <1>1, TestFacts
<1>3. ToChild(IF line = Unreadable \/ matched = Test.expected THEN StopReading(read) ELSE read)
  BY DEF ReadLine
<1>4. ChildInv(read, Test.expected) /\ read.matched = matched /\ line \in Said(read.printed)
  <2> HIDE DEF matched
  <2>1. matched = tr.child.matched \cup ({Head(tr.child.pipe)} \cap Test.expected)
    BY DEF matched
  <2>2. Test.expected \subseteq Sentinels
    BY <1>2
  <2> DEFINE c == tr.child
             expected == Test.expected
  <2>3. expected \subseteq Sentinels /\ ChildInv(c, expected) /\ c.reader = "reading" /\ c.pipe # <<>>
        /\ matched = c.matched \cup ({Head(c.pipe)} \cap expected)
    BY <1>1, <1>2, <2>1, <2>2
  <2> HIDE DEF c, expected
  <2>4. /\ ChildInv([c EXCEPT !.pipe = Tail(@), !.matched = matched], expected)
        /\ [c EXCEPT !.pipe = Tail(@), !.matched = matched].matched = matched
        /\ Head(c.pipe) \in Said([c EXCEPT !.pipe = Tail(@), !.matched = matched].printed)
    BY <2>3, ReadInv
  <2> QED
    BY <2>4 DEF c, expected
<1> HIDE DEF line, matched, read
<1>5. CASE line = Unreadable \/ matched = Test.expected
  <2>1. ChildInv(StopReading(read), Test.expected)
    BY <1>4, <1>5, StopInv
  <2> QED
    BY <1>1, <1>3, <1>5, <2>1, ToChildInv
<1>6. CASE ~(line = Unreadable \/ matched = Test.expected)
  BY <1>1, <1>3, <1>4, <1>6, ToChildInv
<1> QED
  BY <1>5, <1>6

LEMMA ReadEndInv == TrInv /\ ReadEnd => TrInv'
PROOF
<1> SUFFICES ASSUME TrInv, ReadEnd PROVE TrInv'
  OBVIOUS
<1>1. tr.pc = "test" /\ tr.child.reader = "reading" /\ tr.child.pipe = <<>>
      /\ tr.child.state = "ended" /\ ToChild(StopReading(tr.child))
  BY DEF ReadEnd, Reading
<1>2. ChildInv(tr.child, Test.expected)
  BY <1>1, TestFacts
<1>3. Said(<<>>) = {}
  BY DEF Said
<1>4. Test.expected \cap Said(tr.child.printed) \subseteq tr.child.matched
  BY <1>1, <1>2, <1>3 DEF ChildInv
<1> QED
  BY <1>1, <1>2, <1>4, StopInv, ToChildInv

LEMMA WatchdogStepInv == TrInv /\ Watchdog => TrInv'
PROOF
<1> SUFFICES ASSUME TrInv, Watchdog PROVE TrInv'
  OBVIOUS
<1>1. tr.pc = "test"
  BY DEF Watchdog, WatchdogTold, WatchdogTimesOut, WatchdogReaps, Waiting
<1>2. ChildInv(tr.child, Test.expected)
  BY <1>1, TestFacts
<1>3. CASE WatchdogTold
  BY <1>1, <1>2, <1>3, WatchdogInv, ToChildInv DEF WatchdogTold
<1>4. CASE WatchdogTimesOut
  BY <1>1, <1>2, <1>4, KillInv, ToChildInv DEF WatchdogTimesOut
<1>5. CASE WatchdogReaps
  BY <1>1, <1>2, <1>5, WatchdogInv, ToChildInv DEF WatchdogReaps
<1> QED
  BY <1>3, <1>4, <1>5 DEF Watchdog

(* The verdict of run_test, from what the reader and the watchdog left. *)
LEMMA JoinInv == TrInv /\ Join => TrInv'
PROOF
<1> SUFFICES ASSUME TrInv, Join PROVE TrInv'
  OBVIOUS
<1> DEFINE c == tr.child
           v == Verdict(c, Test.expected)
           guest == [killed |-> c.killed, code |-> c.code, printed |-> Said(c.printed)]
<1>1. tr.pc = "test" /\ c.reader = "joining" /\ Report(v, guest)
  BY DEF Join, Said
<1>2. ChildInv(c, Test.expected) /\ c \in Children /\ tr.i <= Len(tr.cases)
  BY <1>1, TestFacts
<1> HIDE DEF c
<1>3. c.code \in Int /\ c.killed \in BOOLEAN /\ c.printed \in Seq(Lines)
  BY <1>2 DEF Children
<1>4. Said(c.printed) \in SUBSET Lines
  BY <1>3 DEF Said
<1>5. guest \in Guests /\ guest.killed = c.killed /\ guest.code = c.code /\ guest.printed = Said(c.printed)
  BY <1>3, <1>4 DEF Guests
<1>6. /\ v \in {"Pass", "Fail", "Timeout", "Skip"}
      /\ v = "Pass" => ~c.timed_out /\ (\/ c.code = EXIT_SUCCESS
                                        \/ c.code # EXIT_FAILURE /\ c.matched = Test.expected)
      /\ v = "Fail" => c.code = EXIT_FAILURE \/ c.matched # Test.expected
  BY Zenon DEF Verdict
<1> HIDE DEF v, guest
<1>7. ResultSound([verdict |-> v, guest |-> guest], Test.expected)
  <2>1. ASSUME v = "Pass"
        PROVE  ~guest.killed /\ (\/ guest.code = EXIT_SUCCESS
                                 \/ Test.expected \subseteq guest.printed /\ guest.code # EXIT_FAILURE)
    BY <1>2, <1>5, <1>6, <2>1 DEF ChildInv
  <2>2. ASSUME v = "Fail"
        PROVE  \/ guest.code = EXIT_FAILURE
               \/ ~(Test.expected \subseteq guest.printed)
               \/ Unreadable \in guest.printed
    <3>1. CASE c.code = EXIT_FAILURE
      BY <3>1, <1>5
    <3>2. CASE c.matched # Test.expected
      BY <3>2, <1>1, <1>2, <1>5 DEF ChildInv
    <3> QED
      BY <3>1, <3>2, <1>6, <2>2
  <2> QED
    BY <2>1, <2>2 DEF ResultSound
<1> QED
  BY <1>1, <1>2, <1>5, <1>6, <1>7, ReportInv

LEMMA TrNextInv == TrInv /\ [TrNext]_tr => TrInv'
PROOF
<1>1. ASSUME TrInv, UNCHANGED tr PROVE TrInv'
  BY <1>1 DEF TrInv, Test
<1> QED
  BY <1>1, MainInv, SkipInv, StartInv, EndInv, ReadLineInv, ReadEndInv, JoinInv, GuestInv,
     WatchdogStepInv DEF TrNext, Harness

(***************************************************************************)
(* A verdict of the harness is justified by what the guest did, however    *)
(* the guest, the reader and the watchdog interleave (run_test,            *)
(* start_watchdog, run_suite).                                             *)
(***************************************************************************)
THEOREM VerdictsAreSound == TrSpec => []VerdictSound
PROOF
<1>1. TrInv => VerdictSound
  <2> SUFFICES ASSUME TrInv PROVE VerdictSound
    OBVIOUS
  <2>1. tr.results \in Seq(Results)
    BY DEF TrInv, Harnesses
  <2>2. \A i \in DOMAIN tr.results : tr.results[i].verdict \in {"Pass", "Fail", "Timeout", "Skip"}
    <3>1. \A i \in DOMAIN tr.results : tr.results[i] \in Results
      BY <2>1
    <3> QED
      BY <3>1, Zenon DEF Results
  <2> QED
    BY <2>2 DEF TrInv, VerdictSound, ResultSound, Failed
<1> QED
  BY <1>1, TrInitInv, TrNextInv, PTL DEF TrSpec

-----------------------------------------------------------------------------
(***************************************************************************)
(* Starting the other processors, for every set of tables, every machine   *)
(* and every delay of the interrupts.                                      *)
(***************************************************************************)
SmpSpec == SmpInit /\ [][SmpNext]_smp

MadtEntries == [type : Nat, length : Nat, id : Nat]

Interrupts == {"INIT", "SIPI"}

ProcessorStates ==
  [mode : {"off", "boot", "reset", "real", "protected", "parked", "lost"}, cr3 : Int,
   got : Seq(Interrupts)]

Icrs == [busy : BOOLEAN, target : Nat \cup {Bsp}, command : Interrupts \cup {"none"}]

SmpStates ==
  [pc : {"tables", "madt", "copy", "cpu", "init", "sipi", "done"}, tables : Firmware,
   t : Nat, e : Nat, cpus : Seq(Nat), i : Nat, icr : Icrs, low : {"free", "trampoline"},
   pml4 : {0, Pml4}, infos : Seq([processor_id : Nat, lapic_id : Nat]),
   aps : [Processors -> ProcessorStates]]

FirstMadt(tables, t) ==
  t \in DOMAIN tables /\ tables[t].sig = "APIC" /\ \A u \in 1..(t - 1) : tables[u].sig # "APIC"

(* The local APICs among the first entries. *)
Before(entries, e) == {n \in 1..(e - 1) : entries[n].type = 0}

(* Where parse_madt is in the tables, and what it has listed so far. *)
Parsing ==
  /\ smp.pc = "tables" =>
       /\ smp.t \in 1..(Len(smp.tables) + 1) /\ smp.e = 1 /\ smp.cpus = <<>>
       /\ \A u \in 1..(smp.t - 1) : smp.tables[u].sig # "APIC"
  /\ smp.pc = "madt" =>
       /\ FirstMadt(smp.tables, smp.t)
       /\ smp.e \in 1..(Len(Entries(smp)) + 1)
       /\ \A m \in 1..(smp.e - 1) : Entries(smp)[m].length # 0
       /\ InOrder(smp.cpus, Entries(smp), Before(Entries(smp), smp.e))
  /\ smp.pc \notin {"tables", "madt"} => Lists(smp.cpus, smp.tables)

(* Until the trampoline is in place nothing is sent. *)
Quiet ==
  smp.pc \in {"tables", "madt", "copy"} =>
    /\ smp.i = 1 /\ smp.infos = <<>> /\ ~smp.icr.busy
    /\ \A p \in Processors : smp.aps[p].got = <<>> /\ smp.aps[p].mode \in {"off", "boot"}

(* Which processor start_aps is at. *)
Listing ==
  /\ smp.i = Len(smp.infos) + 1
  /\ \A n \in DOMAIN smp.infos : smp.infos[n] = [processor_id |-> n - 1, lapic_id |-> smp.cpus[n]]
  /\ smp.pc \notin {"tables", "madt", "copy"} =>
       smp.low = "trampoline" /\ smp.i <= Len(smp.cpus) + 1
  /\ smp.pc \in {"init", "sipi"} => smp.i <= Len(smp.cpus) /\ smp.cpus[smp.i] # Bsp
  /\ smp.pc = "done" => smp.i = Len(smp.cpus) + 1

(* The one interrupt that may be on its way: the INIT of the processor     *)
(* start_aps is at, or the start-up interrupt of an earlier one.           *)
OnItsWay ==
  smp.icr.busy =>
    /\ smp.icr.target # Bsp
    /\ smp.icr.command = IF smp.pc = "sipi" THEN "INIT" ELSE "SIPI"
    /\ smp.pc = "sipi" => smp.icr.target = smp.cpus[smp.i]

(* How often a processor is among the first ones listed. *)
Count(cpus, k, p) == Cardinality({n \in 1..k : cpus[n] = p})

Pending(p) == IF smp.icr.busy /\ smp.icr.target = p THEN 1 ELSE 0

HalfWoken(p) == IF smp.pc = "sipi" /\ smp.cpus[smp.i] = p THEN 1 ELSE 0

(* What was delivered and what is on its way is what was sent. *)
Accounted ==
  \A p \in Processors \ {Bsp} :
    Len(smp.aps[p].got) + Pending(p) = 2 * Count(smp.cpus, smp.i - 1, p) + HalfWoken(p)

Alternates(got) == \A n \in DOMAIN got : got[n] = IF n % 2 = 1 THEN "INIT" ELSE "SIPI"

Delivered == smp.aps[Bsp].got = <<>> /\ \A p \in Processors : Alternates(smp.aps[p].got)

SmpInv == smp \in SmpStates /\ Parsing /\ Quiet /\ Listing /\ OnItsWay /\ Accounted /\ Delivered

-----------------------------------------------------------------------------
LEMMA EntriesTyped ==
  ASSUME NEW tables \in Firmware
  PROVE  /\ Len(tables) \in Nat /\ DOMAIN tables = 1..Len(tables)
         /\ \A t \in DOMAIN tables : tables[t].entries \in Seq(MadtEntries)
PROOF
<1> DEFINE R == [sig : STRING, entries : Seq(MadtEntries)]
<1>1. tables \in Seq(R)
  BY SmpAssumption DEF MadtEntries
<1>2. \A r \in R : r.entries \in Seq(MadtEntries)
  OBVIOUS
<1> HIDE DEF R
<1>3. \A t \in DOMAIN tables : tables[t] \in R
  BY <1>1
<1> QED
  BY <1>1, <1>2, <1>3

LEMMA NoneInOrder == ASSUME NEW entries PROVE InOrder(<<>>, entries, {})
PROOF
<1>1. DOMAIN <<>> = {}
  OBVIOUS
<1>2. [n \in {} |-> 0] \in [{} -> {}]
  OBVIOUS
<1> QED
  BY <1>1, <1>2 DEF InOrder

(* An entry after the others is listed after the others. *)
LEMMA OneMoreInOrder ==
  ASSUME NEW cpus \in Seq(Nat), NEW entries, NEW positions \in SUBSET Nat, NEW q \in Nat,
         InOrder(cpus, entries, positions), \A p \in positions : p < q, entries[q].id \in Nat
  PROVE  InOrder(Append(cpus, entries[q].id), entries, positions \cup {q})
PROOF
<1>1. PICK at \in [DOMAIN cpus -> positions] :
        /\ \A m, n \in DOMAIN cpus : m < n => at[m] < at[n]
        /\ \A p \in positions : \E n \in DOMAIN cpus : at[n] = p
        /\ \A n \in DOMAIN cpus : cpus[n] = entries[at[n]].id
  BY DEF InOrder
<1> DEFINE more == Append(cpus, entries[q].id)
           last == Len(cpus) + 1
           also == [n \in DOMAIN more |-> IF n = last THEN q ELSE at[n]]
<1>2. /\ DOMAIN cpus = 1..Len(cpus) /\ DOMAIN more = 1..last /\ Len(cpus) \in Nat
      /\ more[last] = entries[q].id /\ \A n \in 1..Len(cpus) : more[n] = cpus[n]
  OBVIOUS
<1>3. \A n : n \in 1..last <=> n \in 1..Len(cpus) \/ n = last
  BY <1>2
<1>4. ~(last \in 1..Len(cpus)) /\ last \in 1..last
  BY <1>2
<1>5. also[last] = q /\ \A n \in 1..Len(cpus) : also[n] = at[n]
  BY <1>2, <1>3, <1>4
<1>6. also \in [DOMAIN more -> positions \cup {q}]
  BY <1>2, <1>3
<1> HIDE DEF more, also
<1>7. ASSUME NEW m \in DOMAIN more, NEW n \in DOMAIN more, m < n PROVE also[m] < also[n]
  <2>1. m \in 1..Len(cpus)
    BY <1>2, <1>7
  <2>2. CASE n = last
    BY <1>1, <1>2, <1>5, <2>1, <2>2
  <2>3. CASE n \in 1..Len(cpus)
    BY <1>1, <1>2, <1>5, <1>7, <2>1, <2>3
  <2> QED
    BY <1>2, <1>3, <2>2, <2>3
<1>8. \A p \in positions \cup {q} : \E n \in DOMAIN more : also[n] = p
  BY <1>1, <1>2, <1>3, <1>4, <1>5
<1>9. \A n \in DOMAIN more : more[n] = entries[also[n]].id
  BY <1>1, <1>2, <1>3, <1>5
<1>10. InOrder(more, entries, positions \cup {q})
  BY <1>6, <1>7, <1>8, <1>9, Zenon DEF InOrder
<1> QED
  BY <1>10 DEF more

LEMMA CountNone == ASSUME NEW cpus, NEW p PROVE Count(cpus, 0, p) = 0
PROOF
<1>1. {n \in 1..0 : cpus[n] = p} = {}
  OBVIOUS
<1> QED
  BY <1>1, FS_EmptySet DEF Count

LEMMA CountNext ==
  ASSUME NEW cpus, NEW k \in Nat, NEW p
  PROVE  /\ Count(cpus, k, p) \in Nat
         /\ Count(cpus, k + 1, p) = Count(cpus, k, p) + (IF cpus[k + 1] = p THEN 1 ELSE 0)
PROOF
<1> DEFINE S == {n \in 1..k : cpus[n] = p}
           T == {n \in 1..(k + 1) : cpus[n] = p}
<1>1. IsFiniteSet(S)
  <2>1. IsFiniteSet(1..k)
    BY FS_Interval
  <2>2. S \in SUBSET (1..k)
    OBVIOUS
  <2> QED
    BY <2>1, <2>2, FS_Subset
<1>2. k + 1 \notin S
  OBVIOUS
<1>3. \A n : n \in 1..(k + 1) <=> n \in 1..k \/ n = k + 1
  OBVIOUS
<1>4. T = IF cpus[k + 1] = p THEN S \cup {k + 1} ELSE S
  BY <1>3
<1>5. Cardinality(S) \in Nat /\ Cardinality(S \cup {k + 1}) = Cardinality(S) + 1
  BY <1>1, <1>2, FS_AddElement, FS_CardinalityType
<1> QED
  BY <1>4, <1>5 DEF Count

LEMMA CountAt ==
  ASSUME NEW cpus, NEW i \in Nat, i >= 1, NEW p
  PROVE  /\ Count(cpus, i - 1, p) \in Nat
         /\ Count(cpus, i, p) = Count(cpus, i - 1, p) + (IF cpus[i] = p THEN 1 ELSE 0)
PROOF
<1> DEFINE k == i - 1
<1>1. k \in Nat /\ k + 1 = i
  OBVIOUS
<1> HIDE DEF k
<1>2. Count(cpus, k, p) \in Nat
      /\ Count(cpus, k + 1, p) = Count(cpus, k, p) + (IF cpus[k + 1] = p THEN 1 ELSE 0)
  BY <1>1, CountNext
<1> QED
  BY <1>1, <1>2 DEF k

LEMMA AlternatesNext ==
  ASSUME NEW got \in Seq(Interrupts), Alternates(got),
         NEW command \in Interrupts, command = IF (Len(got) + 1) % 2 = 1 THEN "INIT" ELSE "SIPI"
  PROVE  Append(got, command) \in Seq(Interrupts) /\ Alternates(Append(got, command))
         /\ Len(Append(got, command)) = Len(got) + 1
PROOF
<1>1. Append(got, command) \in Seq(Interrupts) /\ Len(got) \in Nat
      /\ Len(Append(got, command)) = Len(got) + 1
      /\ DOMAIN Append(got, command) = 1..(Len(got) + 1) /\ DOMAIN got = 1..Len(got)
      /\ Append(got, command)[Len(got) + 1] = command
      /\ \A n \in 1..Len(got) : Append(got, command)[n] = got[n]
  OBVIOUS
<1>2. \A n : n \in 1..(Len(got) + 1) <=> n \in 1..Len(got) \/ n = Len(got) + 1
  BY <1>1
<1> QED
  BY <1>1, <1>2 DEF Alternates

-----------------------------------------------------------------------------
LEMMA SmpInitInv == SmpInit => SmpInv
PROOF
<1> SUFFICES ASSUME SmpInit PROVE SmpInv
  OBVIOUS
<1> DEFINE aps == [p \in Processors |-> IF p = Bsp THEN [Dormant EXCEPT !.mode = "boot"] ELSE Dormant]
<1>1. PICK tables \in Firmware :
        smp = [pc |-> "tables", tables |-> tables, t |-> 1, e |-> 1, cpus |-> <<>>, i |-> 1,
               icr |-> Icr, low |-> "free", pml4 |-> 0, infos |-> <<>>, aps |-> aps]
  BY DEF SmpInit
<1>2. \A p \in Processors : aps[p] \in ProcessorStates /\ aps[p].got = <<>> /\ aps[p].mode \in {"off", "boot"}
  <2> DEFINE boot == [Dormant EXCEPT !.mode = "boot"]
  <2>0. <<>> \in Seq(Interrupts) /\ -1 \in Int
    OBVIOUS
  <2>1. Dormant \in ProcessorStates /\ Dormant.got = <<>> /\ Dormant.mode = "off"
    BY <2>0 DEF Dormant, ProcessorStates
  <2>2. boot \in ProcessorStates /\ boot.got = <<>> /\ boot.mode = "boot"
    BY <2>0 DEF Dormant, ProcessorStates
  <2> HIDE DEF boot
  <2>3. \A p \in Processors : aps[p] = IF p = Bsp THEN boot ELSE Dormant
    BY DEF boot
  <2> HIDE DEF aps
  <2> QED
    BY <2>1, <2>2, <2>3
<1>3. aps \in [Processors -> ProcessorStates]
  BY <1>2
<1>4. Icr \in Icrs /\ ~Icr.busy
  BY DEF Icr, Icrs
<1> HIDE DEF aps
<1>5. <<>> \in Seq(Nat) /\ <<>> \in Seq([processor_id : Nat, lapic_id : Nat]) /\ 1 \in Nat
  OBVIOUS
<1>6. smp \in SmpStates
  BY <1>1, <1>3, <1>4, <1>5, Zenon DEF SmpStates
<1>7. smp.pc = "tables" /\ smp.tables = tables /\ smp.t = 1 /\ smp.e = 1
  BY <1>1
<1>8. smp.cpus = <<>> /\ smp.i = 1 /\ smp.icr = Icr /\ smp.infos = <<>> /\ smp.aps = aps
  BY <1>1
<1>9. Len(<<>>) = 0 /\ DOMAIN <<>> = {} /\ 1 - 1 = 0 /\ 2 * 0 + 0 = 0
  OBVIOUS
<1>10. Parsing
  BY <1>7, <1>8, EntriesTyped DEF Parsing
<1>11. Quiet /\ Listing /\ OnItsWay
  BY <1>2, <1>4, <1>7, <1>8, <1>9 DEF Quiet, Listing, OnItsWay
<1>12. Accounted
  BY <1>2, <1>4, <1>7, <1>8, <1>9, CountNone DEF Accounted, Pending, HalfWoken
<1>13. Delivered
  BY <1>2, <1>8, <1>9, SmpAssumption DEF Delivered, Alternates
<1> QED
  BY <1>6, <1>10, <1>11, <1>12, <1>13 DEF SmpInv

(* The state parse_madt leaves. *)
ParsedTo(pc, t, e, cpus) == [smp EXCEPT !.pc = pc, !.t = t, !.e = e, !.cpus = cpus]

(* A step of parse_madt leaves the interrupts and the processors alone. *)
LEMMA ParseStepInv ==
  ASSUME SmpInv, smp.pc \in {"tables", "madt"}, Parsing',
         NEW pc \in {"tables", "madt", "copy"}, NEW t \in Nat, NEW e \in Nat, NEW cpus \in Seq(Nat),
         smp' = ParsedTo(pc, t, e, cpus)
  PROVE  SmpInv'
PROOF
<1>1. smp \in SmpStates
  BY DEF SmpInv
<1>2. smp' \in SmpStates
  BY <1>1, Zenon DEF SmpStates, ParsedTo
<1>3. smp'.pc = pc /\ smp'.cpus = cpus /\ smp'.i = smp.i
  BY <1>1 DEF SmpStates, ParsedTo
<1>4. smp'.infos = smp.infos /\ smp'.aps = smp.aps /\ smp'.icr = smp.icr
  BY <1>1 DEF SmpStates, ParsedTo
<1>5. smp.i = 1 /\ smp.infos = <<>> /\ ~smp.icr.busy
      /\ \A p \in Processors : smp.aps[p].got = <<>> /\ smp.aps[p].mode \in {"off", "boot"}
  BY DEF SmpInv, Quiet
<1>6. Len(<<>>) = 0 /\ DOMAIN <<>> = {} /\ 1 - 1 = 0 /\ 2 * 0 + 0 = 0
  OBVIOUS
<1>7. Quiet' /\ Listing' /\ OnItsWay'
  BY <1>3, <1>4, <1>5, <1>6 DEF Quiet, Listing, OnItsWay
<1>8. Accounted'
  <2>1. ASSUME NEW p \in Processors \ {Bsp}
        PROVE  Len(smp'.aps[p].got) = 0 /\ Pending(p)' = 0 /\ HalfWoken(p)' = 0
               /\ Count(smp'.cpus, smp'.i - 1, p) = 0
    BY <1>3, <1>4, <1>5, <1>6, CountNone DEF Pending, HalfWoken
  <2> QED
    BY <2>1 DEF Accounted
<1>9. Delivered'
  BY <1>4 DEF SmpInv, Delivered
<1> QED
  BY <1>2, <1>7, <1>8, <1>9 DEF SmpInv

LEMMA FindMadtInv == SmpInv /\ FindMadt => SmpInv'
PROOF
<1> SUFFICES ASSUME SmpInv, FindMadt PROVE SmpInv'
  OBVIOUS
<1>1. smp \in SmpStates /\ smp.pc = "tables" /\ smp.tables \in Firmware
  BY DEF SmpInv, FindMadt, SmpStates
<1>2. smp.t \in 1..(Len(smp.tables) + 1) /\ smp.e = 1 /\ smp.cpus = <<>>
      /\ \A u \in 1..(smp.t - 1) : smp.tables[u].sig # "APIC"
  BY <1>1 DEF SmpInv, Parsing
<1>3. Len(smp.tables) \in Nat /\ DOMAIN smp.tables = 1..Len(smp.tables)
      /\ \A t \in DOMAIN smp.tables : smp.tables[t].entries \in Seq(MadtEntries)
  BY <1>1, EntriesTyped
<1>4. smp.t \in Nat /\ smp.t + 1 \in Nat /\ 1 \in Nat /\ <<>> \in Seq(Nat)
  BY <1>2, <1>3
<1>5. ASSUME NEW pc, NEW t, smp' = ParsedTo(pc, t, 1, <<>>)
      PROVE  smp'.pc = pc /\ smp'.t = t /\ smp'.e = 1 /\ smp'.cpus = <<>> /\ smp'.tables = smp.tables
  BY <1>1, <1>5 DEF SmpStates, ParsedTo
<1>6. CASE smp.t > Len(smp.tables)
  <2>1. smp' = ParsedTo("copy", smp.t, 1, <<>>)
    BY <1>1, <1>6, <1>2, Zenon DEF FindMadt, SmpStates, ParsedTo
  <2>2. smp.t - 1 = Len(smp.tables)
    BY <1>2, <1>3, <1>6
  <2>3. Lists(smp.cpus, smp.tables)
    BY <1>2, <1>3, <2>2 DEF Lists
  <2>4. Parsing'
    BY <1>2, <1>5, <2>1, <2>3 DEF Parsing
  <2> QED
    BY <1>1, <1>4, <2>1, <2>4, ParseStepInv
<1>7. CASE smp.t <= Len(smp.tables) /\ smp.tables[smp.t].sig = "APIC"
  <2>1. smp' = ParsedTo("madt", smp.t, 1, <<>>)
    <3>1. ~(smp.t > Len(smp.tables))
      BY <1>2, <1>3, <1>7
    <3> QED
      BY <1>1, <1>7, <3>1, <1>2, Zenon DEF FindMadt, SmpStates, ParsedTo
  <2>2. smp'.pc = "madt" /\ smp'.t = smp.t /\ smp'.e = 1 /\ smp'.cpus = <<>> /\ smp'.tables = smp.tables
    BY <1>5, <2>1
  <2>3. FirstMadt(smp.tables, smp.t)
    BY <1>2, <1>3, <1>7 DEF FirstMadt
  <2>4. Entries(smp)' = Entries(smp) /\ Entries(smp) \in Seq(MadtEntries)
    BY <1>3, <2>2, <2>3 DEF Entries, FirstMadt
  <2>5. Before(Entries(smp), 1) = {} /\ 1..(1 - 1) = {} /\ 1 \in 1..(Len(Entries(smp)) + 1)
    BY <2>4 DEF Before
  <2>6. Parsing'
    BY <2>2, <2>3, <2>4, <2>5, NoneInOrder DEF Parsing
  <2> QED
    BY <1>1, <1>4, <2>1, <2>6, ParseStepInv
<1>8. CASE smp.t <= Len(smp.tables) /\ smp.tables[smp.t].sig # "APIC"
  <2>1. smp' = ParsedTo("tables", smp.t + 1, 1, <<>>)
    <3>1. ~(smp.t > Len(smp.tables))
      BY <1>2, <1>3, <1>8
    <3> QED
      BY <1>1, <1>8, <3>1, <1>2, Zenon DEF FindMadt, SmpStates, ParsedTo
  <2>2. smp'.pc = "tables" /\ smp'.t = smp.t + 1 /\ smp'.e = 1 /\ smp'.cpus = <<>> /\ smp'.tables = smp.tables
    BY <1>5, <2>1
  <2>3. \A u \in 1..((smp.t + 1) - 1) : smp.tables[u].sig # "APIC"
    <3>1. \A u : u \in 1..((smp.t + 1) - 1) => u \in 1..(smp.t - 1) \/ u = smp.t
      BY <1>2, <1>3
    <3> QED
      BY <1>2, <1>8, <3>1
  <2>4. smp.t + 1 \in 1..(Len(smp.tables) + 1)
    BY <1>2, <1>3, <1>8
  <2>5. Parsing'
    BY <2>2, <2>3, <2>4 DEF Parsing
  <2> QED
    BY <1>1, <1>4, <2>1, <2>5, ParseStepInv
<1> QED
  BY <1>2, <1>3, <1>6, <1>7, <1>8

LEMMA ReadEntryInv == SmpInv /\ ReadEntry => SmpInv'
PROOF
<1> SUFFICES ASSUME SmpInv, ReadEntry PROVE SmpInv'
  OBVIOUS
<1> DEFINE entries == Entries(smp)
           e == smp.e
           entry == entries[e]
<1>1. smp \in SmpStates /\ smp.pc = "madt" /\ smp.tables \in Firmware /\ smp.t \in Nat /\ e \in Nat
      /\ smp.cpus \in Seq(Nat)
  BY DEF SmpInv, ReadEntry, SmpStates
<1>2. /\ FirstMadt(smp.tables, smp.t)
      /\ e \in 1..(Len(entries) + 1)
      /\ \A m \in 1..(e - 1) : entries[m].length # 0
      /\ InOrder(smp.cpus, entries, Before(entries, e))
  BY <1>1 DEF SmpInv, Parsing
<1>3. entries \in Seq(MadtEntries) /\ Len(entries) \in Nat /\ DOMAIN entries = 1..Len(entries)
  BY <1>1, <1>2, EntriesTyped DEF FirstMadt, Entries
<1>4. ASSUME NEW pc, NEW n, NEW cpus, smp' = ParsedTo(pc, smp.t, n, cpus)
      PROVE  smp'.pc = pc /\ smp'.t = smp.t /\ smp'.e = n /\ smp'.cpus = cpus /\ smp'.tables = smp.tables
             /\ Entries(smp)' = entries
  <2>1. smp'.pc = pc /\ smp'.t = smp.t /\ smp'.e = n /\ smp'.cpus = cpus /\ smp'.tables = smp.tables
    BY <1>1, <1>4 DEF SmpStates, ParsedTo
  <2> QED
    BY <2>1 DEF Entries
<1>5. ASSUME NEW cpus, InOrder(cpus, entries, Apics(entries)) PROVE Lists(cpus, smp.tables)
  BY <1>2, <1>5 DEF Lists, FirstMadt, Entries
<1>6. CASE e > Len(entries)
  <2>1. smp' = ParsedTo("copy", smp.t, e, smp.cpus)
    BY <1>1, <1>6, Zenon DEF ReadEntry, SmpStates, ParsedTo
  <2> HIDE DEF entries, e
  <2>2. e - 1 = Len(entries)
    BY <1>1, <1>2, <1>3, <1>6
  <2>3. Apics(entries) = Before(entries, e)
    <3>1. \A n \in DOMAIN entries : \A m \in 1..(n - 1) : m \in 1..(e - 1)
      BY <1>3, <2>2
    <3> QED
      BY <1>2, <1>3, <2>2, <3>1 DEF Apics, Before
  <2>4. smp'.pc = "copy" /\ smp'.cpus = smp.cpus /\ smp'.tables = smp.tables
    BY <1>4, <2>1
  <2>5. Parsing'
    BY <1>2, <1>5, <2>3, <2>4 DEF Parsing
  <2>6. "copy" \in {"tables", "madt", "copy"} /\ smp.pc \in {"tables", "madt"}
    BY <1>1
  <2> QED
    BY <1>1, <2>1, <2>5, <2>6, ParseStepInv
<1>7. CASE e <= Len(entries)
  <2> DEFINE cpus == IF entry.type = 0 THEN Append(smp.cpus, entry.id) ELSE smp.cpus
             pc == IF entry.length = 0 THEN "copy" ELSE "madt"
  <2>1. smp' = ParsedTo(pc, smp.t, e + 1, cpus)
    <3>1. ~(e > Len(entries))
      BY <1>1, <1>3, <1>7
    <3>2. smp' = [smp EXCEPT !.cpus = cpus, !.e = e + 1, !.pc = pc]
      BY <1>1, <3>1, Zenon DEF ReadEntry
    <3>3. smp' = [smp EXCEPT !.pc = pc, !.t = smp.t, !.e = e + 1, !.cpus = cpus]
      BY <1>1, <3>2, Zenon DEF SmpStates
    <3> QED
      BY <3>3 DEF ParsedTo
  <2>2. e \in DOMAIN entries /\ entry \in MadtEntries
    BY <1>1, <1>2, <1>3, <1>7
  <2>3. entry.id \in Nat
    BY <2>2 DEF MadtEntries
  <2>4. cpus \in Seq(Nat)
    BY <1>1, <2>3
  <2>5. pc \in {"tables", "madt", "copy"} /\ (pc = "madt" <=> entry.length # 0) /\ (pc = "copy" <=> entry.length = 0)
    OBVIOUS
  <2>6. smp'.pc = pc /\ smp'.t = smp.t /\ smp'.e = e + 1 /\ smp'.cpus = cpus /\ smp'.tables = smp.tables
        /\ Entries(smp)' = entries
    <3> HIDE DEF pc, cpus
    <3> QED
      BY <1>4, <2>1
  <2> HIDE DEF entries, e, pc
  <2>7. (e + 1) - 1 = e /\ \A n : n \in 1..e <=> n \in 1..(e - 1) \/ n = e
    BY <1>1, <1>2, <1>3
  <2>8. InOrder(cpus, entries, Before(entries, e + 1))
    <3>1. CASE entry.type = 0
      <4>1. Before(entries, e + 1) = Before(entries, e) \cup {e}
        BY <2>7, <3>1 DEF Before
      <4>2. Before(entries, e) \in SUBSET Nat /\ \A q \in Before(entries, e) : q < e
        BY <1>1, <1>2, <1>3 DEF Before
      <4>3. smp.cpus \in Seq(Nat) /\ e \in Nat /\ entries[e].id \in Nat
        BY <1>1, <2>3
      <4>4. InOrder(Append(smp.cpus, entries[e].id), entries, Before(entries, e) \cup {e})
        <5> DEFINE positions == Before(entries, e)
        <5>1. InOrder(smp.cpus, entries, positions) /\ positions \in SUBSET Nat /\ \A q \in positions : q < e
          BY <1>2, <4>2
        <5> HIDE DEF positions
        <5>2. InOrder(Append(smp.cpus, entries[e].id), entries, positions \cup {e})
          BY <4>3, <5>1, OneMoreInOrder
        <5> QED
          BY <5>2 DEF positions
      <4>5. cpus = Append(smp.cpus, entries[e].id)
        BY <3>1
      <4> QED
        BY <4>1, <4>4, <4>5
    <3>2. CASE entry.type # 0
      <4>1. Before(entries, e + 1) = Before(entries, e)
        BY <2>7, <3>2 DEF Before
      <4> QED
        BY <1>2, <3>2, <4>1
    <3> QED
      BY <3>1, <3>2
  <2> HIDE DEF cpus
  <2>9. Parsing'
    <3>1. CASE entry.length # 0
      <4>1. pc = "madt" /\ e + 1 \in 1..(Len(entries) + 1)
        BY <1>1, <1>3, <1>7, <2>5, <3>1
      <4>2. \A m \in 1..((e + 1) - 1) : entries[m].length # 0
        BY <1>2, <2>7, <3>1
      <4> QED
        BY <1>2, <2>6, <2>8, <4>1, <4>2 DEF Parsing
    <3>2. CASE entry.length = 0
      <4>1. Apics(entries) = Before(entries, e + 1)
        <5>1. ASSUME NEW n \in Apics(entries) PROVE n \in Before(entries, e + 1)
          <6>1. n \in 1..Len(entries) /\ entries[n].type = 0 /\ ~(e \in 1..(n - 1))
            BY <1>3, <3>2 DEF Apics
          <6>2. n \in 1..e
            BY <1>1, <1>2, <1>3, <6>1
          <6> QED
            BY <2>7, <6>1, <6>2 DEF Before
        <5>2. ASSUME NEW n \in Before(entries, e + 1) PROVE n \in Apics(entries)
          <6>1. n \in 1..e /\ entries[n].type = 0
            BY <2>7 DEF Before
          <6>2. n \in 1..Len(entries) /\ \A m \in 1..(n - 1) : m \in 1..(e - 1)
            BY <1>1, <1>3, <1>7, <6>1
          <6> QED
            BY <1>2, <1>3, <6>1, <6>2 DEF Apics
        <5> QED
          BY <5>1, <5>2
      <4>2. pc = "copy"
        BY <2>5, <3>2
      <4> QED
        BY <1>5, <2>6, <2>8, <4>1, <4>2 DEF Parsing
    <3> QED
      BY <3>1, <3>2
  <2>10. smp.pc \in {"tables", "madt"} /\ e + 1 \in Nat
    BY <1>1
  <2> QED
    BY <1>1, <2>1, <2>4, <2>5, <2>9, <2>10, ParseStepInv
<1> QED
  BY <1>1, <1>3, <1>6, <1>7

LEMMA CopyInv == SmpInv /\ CopyTrampoline => SmpInv'
PROOF
<1> SUFFICES ASSUME SmpInv, CopyTrampoline PROVE SmpInv'
  OBVIOUS
<1>1. smp \in SmpStates /\ smp.pc = "copy"
      /\ smp' = [smp EXCEPT !.pc = "cpu", !.low = "trampoline", !.pml4 = Pml4]
  BY DEF SmpInv, CopyTrampoline
<1>2. smp' \in SmpStates
  BY <1>1, Zenon DEF SmpStates
<1>3. smp'.pc = "cpu" /\ smp'.cpus = smp.cpus /\ smp'.tables = smp.tables /\ smp'.i = smp.i
  BY <1>1 DEF SmpStates
<1>4. smp'.infos = smp.infos /\ smp'.aps = smp.aps /\ smp'.icr = smp.icr /\ smp'.low = "trampoline"
  BY <1>1 DEF SmpStates
<1>5. smp.i = 1 /\ ~smp.icr.busy /\ Len(smp.cpus) \in Nat
  BY <1>1 DEF SmpInv, Quiet, SmpStates
<1>6. Parsing' /\ Quiet' /\ OnItsWay' /\ Delivered'
  BY <1>1, <1>3, <1>4, <1>5 DEF SmpInv, Parsing, Quiet, OnItsWay, Delivered
<1>7. Listing'
  BY <1>1, <1>3, <1>4, <1>5 DEF SmpInv, Listing
<1>8. Accounted'
  BY <1>1, <1>3, <1>4 DEF SmpInv, Accounted, Pending, HalfWoken
<1> QED
  BY <1>2, <1>6, <1>7, <1>8 DEF SmpInv

(* How start_aps goes on: which processor it is at, and what is on its way. *)
LEMMA StartFacts ==
  ASSUME SmpInv, smp.pc \in {"cpu", "init", "sipi"}
  PROVE  /\ smp \in SmpStates /\ smp.i \in Nat /\ smp.i >= 1 /\ smp.cpus \in Seq(Nat)
         /\ smp.infos \in Seq([processor_id : Nat, lapic_id : Nat])
         /\ smp.i = Len(smp.infos) + 1 /\ smp.low = "trampoline"
         /\ smp.i \in Nat /\ Len(smp.cpus) \in Nat /\ smp.icr.busy \in BOOLEAN
         /\ smp.pc \in {"init", "sipi"} => smp.i <= Len(smp.cpus) /\ smp.cpus[smp.i] # Bsp
         /\ smp.i <= Len(smp.cpus) => smp.cpus[smp.i] \in Nat
         /\ \A p \in Processors \ {Bsp} :
              Len(smp.aps[p].got) + Pending(p) = 2 * Count(smp.cpus, smp.i - 1, p) + HalfWoken(p)
PROOF
<1>1. smp \in SmpStates /\ smp.i \in Nat /\ smp.cpus \in Seq(Nat)
      /\ smp.infos \in Seq([processor_id : Nat, lapic_id : Nat]) /\ smp.icr \in Icrs
  BY DEF SmpInv, SmpStates
<1>2. smp.i = Len(smp.infos) + 1 /\ smp.low = "trampoline" /\ smp.i <= Len(smp.cpus) + 1
      /\ (smp.pc \in {"init", "sipi"} => smp.i <= Len(smp.cpus) /\ smp.cpus[smp.i] # Bsp)
  BY DEF SmpInv, Listing
<1>3. Len(smp.infos) \in Nat /\ Len(smp.cpus) \in Nat
  <2> DEFINE R == [processor_id : Nat, lapic_id : Nat]
  <2>1. smp.infos \in Seq(R)
    BY <1>1
  <2> HIDE DEF R
  <2> QED
    BY <1>1, <2>1
<1>4. smp.i >= 1
  BY <1>2, <1>3
<1>5. smp.i <= Len(smp.cpus) => smp.cpus[smp.i] \in Nat
  BY <1>1, <1>3, <1>4
<1>6. smp.icr.busy \in BOOLEAN
  BY <1>1 DEF Icrs
<1> QED
  BY <1>1, <1>2, <1>3, <1>4, <1>5, <1>6 DEF SmpInv, Accounted

(* A processor listed under its position. *)
LEMMA InfoListed ==
  ASSUME SmpInv, smp.pc \in {"cpu", "sipi"}, smp.i <= Len(smp.cpus)
  PROVE  LET infos == Append(smp.infos, Info(smp))
         IN /\ infos \in Seq([processor_id : Nat, lapic_id : Nat])
            /\ smp.i + 1 = Len(infos) + 1
            /\ \A n \in DOMAIN infos : infos[n] = [processor_id |-> n - 1, lapic_id |-> smp.cpus[n]]
PROOF
<1> DEFINE R == [processor_id : Nat, lapic_id : Nat]
           infos == Append(smp.infos, Info(smp))
<1>1. smp.infos \in Seq(R) /\ smp.i \in Nat /\ smp.i >= 1 /\ smp.cpus[smp.i] \in Nat
      /\ smp.i = Len(smp.infos) + 1
  BY StartFacts
<1>2. smp.i - 1 \in Nat
  BY <1>1
<1>3. Info(smp) \in R /\ Info(smp) = [processor_id |-> smp.i - 1, lapic_id |-> smp.cpus[smp.i]]
  BY <1>1, <1>2 DEF Info
<1> HIDE DEF R
<1>4. infos \in Seq(R) /\ Len(infos) = Len(smp.infos) + 1 /\ Len(smp.infos) \in Nat
      /\ DOMAIN infos = 1..(Len(smp.infos) + 1) /\ DOMAIN smp.infos = 1..Len(smp.infos)
      /\ infos[Len(smp.infos) + 1] = Info(smp)
      /\ \A n \in 1..Len(smp.infos) : infos[n] = smp.infos[n]
  BY <1>1, <1>3
<1> HIDE DEF infos
<1>5. \A n \in DOMAIN smp.infos : smp.infos[n] = [processor_id |-> n - 1, lapic_id |-> smp.cpus[n]]
  BY DEF SmpInv, Listing
<1>6. ASSUME NEW n \in DOMAIN infos
      PROVE infos[n] = [processor_id |-> n - 1, lapic_id |-> smp.cpus[n]]
  <2>1. CASE n = smp.i
    BY <1>1, <1>3, <1>4, <2>1
  <2>2. CASE n # smp.i
    <3>1. n \in DOMAIN smp.infos
      BY <1>1, <1>4, <2>2
    <3> QED
      BY <1>4, <1>5, <3>1
  <2> QED
    BY <2>1, <2>2
<1> QED
  BY <1>1, <1>4, <1>6 DEF infos, R

LEMMA NextCpuInv == SmpInv /\ NextCpu => SmpInv'
PROOF
<1> SUFFICES ASSUME SmpInv, NextCpu PROVE SmpInv'
  OBVIOUS
<1>1. smp.pc = "cpu"
  BY DEF NextCpu
<1>2. smp \in SmpStates /\ smp.i \in Nat /\ smp.i >= 1 /\ Len(smp.cpus) \in Nat
      /\ smp.low = "trampoline" /\ smp.i <= Len(smp.cpus) + 1
  BY <1>1, StartFacts DEF SmpInv, Listing
<1>3. ASSUME NEW pc \in {"done", "init"}, smp' = [smp EXCEPT !.pc = pc],
             pc = "done" => smp.i > Len(smp.cpus),
             pc = "init" => smp.i <= Len(smp.cpus) /\ smp.cpus[smp.i] # Bsp
      PROVE  SmpInv'
  <2>1. smp' \in SmpStates
    BY <1>2, <1>3, Zenon DEF SmpStates
  <2>2. smp'.pc = pc /\ smp'.cpus = smp.cpus /\ smp'.tables = smp.tables /\ smp'.i = smp.i
    BY <1>2, <1>3 DEF SmpStates
  <2>3. smp'.infos = smp.infos /\ smp'.aps = smp.aps /\ smp'.icr = smp.icr /\ smp'.low = smp.low
    BY <1>2, <1>3 DEF SmpStates
  <2>4. Parsing' /\ Quiet' /\ OnItsWay' /\ Delivered'
    BY <1>1, <1>3, <2>2, <2>3 DEF SmpInv, Parsing, Quiet, OnItsWay, Delivered
  <2>5. Listing'
    BY <1>1, <1>2, <1>3, <2>2, <2>3 DEF SmpInv, Listing
  <2>6. Accounted'
    <3>1. \A p : Pending(p)' = Pending(p) /\ HalfWoken(p) = 0 /\ HalfWoken(p)' = 0
      BY <1>1, <1>3, <2>2, <2>3 DEF Pending, HalfWoken
    <3> QED
      BY <2>2, <2>3, <3>1 DEF SmpInv, Accounted
  <2> QED
    BY <2>1, <2>4, <2>5, <2>6 DEF SmpInv
<1>4. CASE smp.i > Len(smp.cpus)
  BY <1>3, <1>4 DEF NextCpu
<1>5. CASE smp.i <= Len(smp.cpus) /\ smp.cpus[smp.i] # Bsp
  <2>1. ~(smp.i > Len(smp.cpus))
    BY <1>2, <1>5
  <2>2. smp' = [smp EXCEPT !.pc = "init"]
    BY <1>5, <2>1 DEF NextCpu
  <2> QED
    BY <1>3, <1>5, <2>2
<1>6. CASE smp.i <= Len(smp.cpus) /\ smp.cpus[smp.i] = Bsp
  <2> DEFINE infos == Append(smp.infos, Info(smp))
  <2>1. infos \in Seq([processor_id : Nat, lapic_id : Nat]) /\ smp.i + 1 = Len(infos) + 1
        /\ \A n \in DOMAIN infos : infos[n] = [processor_id |-> n - 1, lapic_id |-> smp.cpus[n]]
    BY <1>1, <1>6, InfoListed
  <2>2. smp' = [smp EXCEPT !.infos = infos, !.i = smp.i + 1]
    <3>1. ~(smp.i > Len(smp.cpus))
      BY <1>2, <1>6
    <3> QED
      BY <1>6, <3>1 DEF NextCpu
  <2> HIDE DEF infos
  <2>3. smp.i + 1 \in Nat
    BY <1>2
  <2>4. smp' \in SmpStates
    BY <1>2, <2>1, <2>2, <2>3, Zenon DEF SmpStates
  <2>5. smp'.pc = "cpu" /\ smp'.cpus = smp.cpus /\ smp'.tables = smp.tables /\ smp'.i = smp.i + 1
    BY <1>1, <1>2, <2>2 DEF SmpStates
  <2>6. smp'.infos = infos /\ smp'.aps = smp.aps /\ smp'.icr = smp.icr /\ smp'.low = smp.low
    BY <1>2, <2>2 DEF SmpStates
  <2>7. Parsing' /\ Quiet' /\ OnItsWay' /\ Delivered'
    BY <1>1, <2>5, <2>6 DEF SmpInv, Parsing, Quiet, OnItsWay, Delivered
  <2>8. Listing'
    BY <1>2, <1>6, <2>1, <2>5, <2>6 DEF Listing
  <2>9. ASSUME NEW p \in Processors \ {Bsp}
        PROVE  Len(smp'.aps[p].got) + Pending(p)' = 2 * Count(smp'.cpus, smp'.i - 1, p) + HalfWoken(p)'
    <3>1. smp.i - 1 \in Nat /\ (smp.i - 1) + 1 = smp.i /\ (smp.i + 1) - 1 = smp.i
      BY <1>2
    <3>2. Count(smp.cpus, smp.i, p) = Count(smp.cpus, smp.i - 1, p) + (IF smp.cpus[smp.i] = p THEN 1 ELSE 0)
          /\ Count(smp.cpus, smp.i - 1, p) \in Nat
      BY <1>2, CountAt
    <3>3. Count(smp.cpus, smp.i, p) = Count(smp.cpus, smp.i - 1, p)
      BY <1>6, <3>2
    <3>4. Pending(p)' = Pending(p) /\ HalfWoken(p) = 0 /\ HalfWoken(p)' = 0
      BY <1>1, <2>5, <2>6 DEF Pending, HalfWoken
    <3>5. Len(smp.aps[p].got) + Pending(p) = 2 * Count(smp.cpus, smp.i - 1, p) + HalfWoken(p)
      BY DEF SmpInv, Accounted
    <3> QED
      BY <2>5, <2>6, <3>1, <3>3, <3>4, <3>5
  <2>10. Accounted'
    BY <2>9 DEF Accounted
  <2> QED
    BY <2>4, <2>7, <2>8, <2>10 DEF SmpInv
<1> QED
  BY <1>2, <1>4, <1>5, <1>6

(* send_ipi writes the registers when the last interrupt is delivered. *)
LEMMA SendFacts ==
  ASSUME SmpInv, smp.pc \in {"init", "sipi"}, NEW command \in Interrupts
  PROVE  LET s == SendIpi(smp, command)
         IN /\ s \in SmpStates
            /\ s.icr = [busy |-> TRUE, target |-> smp.cpus[smp.i], command |-> command]
            /\ s.cpus = smp.cpus /\ s.tables = smp.tables /\ s.i = smp.i
            /\ s.infos = smp.infos /\ s.aps = smp.aps /\ s.low = smp.low
PROOF
<1> DEFINE icr == [busy |-> TRUE, target |-> smp.cpus[smp.i], command |-> command]
           s == SendIpi(smp, command)
<1>1. smp \in SmpStates /\ smp.cpus[smp.i] \in Nat
  BY StartFacts
<1>2. icr \in Icrs
  BY <1>1 DEF Icrs
<1>3. s = [smp EXCEPT !.icr = icr]
  BY DEF SendIpi
<1> HIDE DEF icr, s
<1>4. s \in SmpStates
  BY <1>1, <1>2, <1>3, Zenon DEF SmpStates
<1>5. s.icr = icr /\ s.cpus = smp.cpus /\ s.tables = smp.tables /\ s.i = smp.i
  BY <1>1, <1>3 DEF SmpStates
<1>6. s.infos = smp.infos /\ s.aps = smp.aps /\ s.low = smp.low
  BY <1>1, <1>3 DEF SmpStates
<1> QED
  BY <1>4, <1>5, <1>6 DEF s, icr

LEMMA SendInitInv == SmpInv /\ SendInit => SmpInv'
PROOF
<1> SUFFICES ASSUME SmpInv, SendInit PROVE SmpInv'
  OBVIOUS
<1> DEFINE s == SendIpi(smp, "INIT")
<1>1. smp.pc = "init" /\ ~smp.icr.busy /\ smp' = [s EXCEPT !.pc = "sipi"]
  BY DEF SendInit, IcrReady
<1>2. /\ s \in SmpStates
      /\ s.icr = [busy |-> TRUE, target |-> smp.cpus[smp.i], command |-> "INIT"]
      /\ s.cpus = smp.cpus /\ s.tables = smp.tables /\ s.i = smp.i
      /\ s.infos = smp.infos /\ s.aps = smp.aps /\ s.low = smp.low
  BY <1>1, SendFacts DEF Interrupts
<1> HIDE DEF s
<1>3. smp' \in SmpStates
  BY <1>1, <1>2, Zenon DEF SmpStates
<1>4. smp'.pc = "sipi" /\ smp'.cpus = smp.cpus /\ smp'.tables = smp.tables /\ smp'.i = smp.i
  BY <1>1, <1>2 DEF SmpStates
<1>5. smp'.infos = smp.infos /\ smp'.aps = smp.aps /\ smp'.low = smp.low
  BY <1>1, <1>2 DEF SmpStates
<1>6. smp'.icr.busy /\ smp'.icr.target = smp.cpus[smp.i] /\ smp'.icr.command = "INIT"
  BY <1>1, <1>2 DEF SmpStates
<1>7. smp.cpus[smp.i] # Bsp
  BY <1>1, StartFacts
<1>8. Parsing' /\ Quiet' /\ OnItsWay' /\ Delivered'
  BY <1>1, <1>4, <1>5, <1>6, <1>7 DEF SmpInv, Parsing, Quiet, OnItsWay, Delivered
<1>9. Listing'
  BY <1>1, <1>4, <1>5 DEF SmpInv, Listing
<1>10. Accounted'
  <2>1. ASSUME NEW p \in Processors \ {Bsp}
        PROVE  Len(smp'.aps[p].got) + Pending(p)' = 2 * Count(smp'.cpus, smp'.i - 1, p) + HalfWoken(p)'
    <3>1. Pending(p) = 0 /\ HalfWoken(p) = 0 /\ Pending(p)' = HalfWoken(p)' /\ Pending(p)' \in Nat
      BY <1>1, <1>4, <1>6 DEF Pending, HalfWoken
    <3>2. Len(smp.aps[p].got) + Pending(p) = 2 * Count(smp.cpus, smp.i - 1, p) + HalfWoken(p)
      BY DEF SmpInv, Accounted
    <3>3. Len(smp.aps[p].got) \in Nat
      BY <1>2, StartFacts, <1>1 DEF SmpStates, ProcessorStates
    <3>4. Count(smp.cpus, smp.i - 1, p) \in Nat
      BY <1>1, StartFacts, CountAt
    <3> QED
      BY <1>4, <1>5, <3>1, <3>2, <3>3, <3>4
  <2> QED
    BY <2>1 DEF Accounted
<1> QED
  BY <1>3, <1>8, <1>9, <1>10 DEF SmpInv

LEMMA SendSipiInv == SmpInv /\ SendSipi => SmpInv'
PROOF
<1> SUFFICES ASSUME SmpInv, SendSipi PROVE SmpInv'
  OBVIOUS
<1> DEFINE s == SendIpi(smp, "SIPI")
           infos == Append(smp.infos, Info(smp))
<1>1. smp.pc = "sipi" /\ ~smp.icr.busy
  BY DEF SendSipi, IcrReady
<1>2. /\ s \in SmpStates
      /\ s.icr = [busy |-> TRUE, target |-> smp.cpus[smp.i], command |-> "SIPI"]
      /\ s.cpus = smp.cpus /\ s.tables = smp.tables /\ s.i = smp.i
      /\ s.infos = smp.infos /\ s.aps = smp.aps /\ s.low = smp.low
  BY <1>1, SendFacts DEF Interrupts
<1>3. smp' = [s EXCEPT !.pc = "cpu", !.i = smp.i + 1, !.infos = infos]
  <2>1. smp' = [s EXCEPT !.pc = "cpu", !.i = s.i + 1, !.infos = Append(s.infos, Info(smp))]
    BY DEF SendSipi
  <2> HIDE DEF s
  <2> QED
    BY <1>2, <2>1
<1>4. smp.i \in Nat /\ smp.i >= 1 /\ smp.i <= Len(smp.cpus) /\ Len(smp.cpus) \in Nat
      /\ smp.cpus[smp.i] # Bsp /\ smp.low = "trampoline"
  BY <1>1, StartFacts
<1>5. infos \in Seq([processor_id : Nat, lapic_id : Nat]) /\ smp.i + 1 = Len(infos) + 1
      /\ \A n \in DOMAIN infos : infos[n] = [processor_id |-> n - 1, lapic_id |-> smp.cpus[n]]
  BY <1>1, <1>4, InfoListed
<1> HIDE DEF s, infos
<1>6. smp.i + 1 \in Nat
  BY <1>4
<1>7. smp' \in SmpStates
  BY <1>2, <1>3, <1>5, <1>6, Zenon DEF SmpStates
<1>8. smp'.pc = "cpu" /\ smp'.cpus = smp.cpus /\ smp'.tables = smp.tables /\ smp'.i = smp.i + 1
  BY <1>2, <1>3 DEF SmpStates
<1>9. smp'.infos = infos /\ smp'.aps = smp.aps /\ smp'.low = smp.low
  BY <1>2, <1>3 DEF SmpStates
<1>10. smp'.icr.busy /\ smp'.icr.target = smp.cpus[smp.i] /\ smp'.icr.command = "SIPI"
  BY <1>2, <1>3 DEF SmpStates
<1>11. Parsing' /\ Quiet' /\ OnItsWay' /\ Delivered'
  BY <1>1, <1>4, <1>8, <1>9, <1>10 DEF SmpInv, Parsing, Quiet, OnItsWay, Delivered
<1>12. Listing'
  BY <1>4, <1>5, <1>8, <1>9 DEF Listing
<1>13. Accounted'
  <2>1. ASSUME NEW p \in Processors \ {Bsp}
        PROVE  Len(smp'.aps[p].got) + Pending(p)' = 2 * Count(smp'.cpus, smp'.i - 1, p) + HalfWoken(p)'
    <3> DEFINE here == IF smp.cpus[smp.i] = p THEN 1 ELSE 0
    <3>1. Pending(p) = 0 /\ HalfWoken(p) = here /\ Pending(p)' = here /\ HalfWoken(p)' = 0 /\ here \in Nat
      BY <1>1, <1>8, <1>10 DEF Pending, HalfWoken
    <3>2. Len(smp.aps[p].got) + Pending(p) = 2 * Count(smp.cpus, smp.i - 1, p) + HalfWoken(p)
      BY DEF SmpInv, Accounted
    <3>3. Len(smp.aps[p].got) \in Nat
      BY <1>1, StartFacts DEF SmpStates, ProcessorStates
    <3>4. Count(smp.cpus, smp.i - 1, p) \in Nat
          /\ Count(smp.cpus, smp.i, p) = Count(smp.cpus, smp.i - 1, p) + here
      BY <1>4, CountAt
    <3>5. (smp.i + 1) - 1 = smp.i
      BY <1>4
    <3>6. Count(smp'.cpus, smp'.i - 1, p) = Count(smp.cpus, smp.i, p) /\ smp'.aps[p] = smp.aps[p]
      BY <1>8, <1>9, <3>5
    <3> DEFINE l == Len(smp.aps[p].got)
               c == Count(smp.cpus, smp.i - 1, p)
    <3> HIDE DEF here, l, c
    <3>7. l + 0 = 2 * c + here /\ l \in Nat /\ c \in Nat /\ here \in Nat
      BY <3>1, <3>2, <3>3, <3>4 DEF l, c
    <3>8. l + here = 2 * (c + here) + 0
      BY <3>7
    <3> QED
      BY <3>1, <3>4, <3>6, <3>8 DEF l, c
  <2> QED
    BY <2>1 DEF Accounted
<1> QED
  BY <1>7, <1>11, <1>12, <1>13 DEF SmpInv

(* An INIT finds an even number of interrupts taken, a start-up interrupt  *)
(* an odd one.                                                             *)
LEMMA DeliverInv == SmpInv /\ Deliver => SmpInv'
PROOF
<1> SUFFICES ASSUME SmpInv, Deliver PROVE SmpInv'
  OBVIOUS
<1> DEFINE t == smp.icr.target
           command == smp.icr.command
           icr == [smp.icr EXCEPT !.busy = FALSE]
           taken(ap) == [mode |-> IF command = "INIT" THEN "reset"
                                  ELSE IF ap.mode = "reset" THEN "real" ELSE ap.mode,
                         cr3 |-> ap.cr3, got |-> Append(ap.got, command)]
           aps == [p \in Processors |-> IF p = t THEN taken(smp.aps[p]) ELSE smp.aps[p]]
<1>1. smp.icr.busy /\ smp' = [smp EXCEPT !.icr = icr, !.aps = aps]
  BY DEF Deliver
<1>2. smp \in SmpStates /\ smp.icr \in Icrs /\ smp.aps \in [Processors -> ProcessorStates]
      /\ smp.i \in Nat
  BY DEF SmpInv, SmpStates
<1>3. t # Bsp /\ command = (IF smp.pc = "sipi" THEN "INIT" ELSE "SIPI")
      /\ (smp.pc = "sipi" => t = smp.cpus[smp.i])
  BY <1>1 DEF SmpInv, OnItsWay
<1>4. smp.pc \notin {"tables", "madt", "copy"} /\ smp.low = "trampoline" /\ smp.i >= 1
  <2>1. smp.pc \notin {"tables", "madt", "copy"}
    BY <1>1 DEF SmpInv, Quiet
  <2>2. smp.infos \in Seq([processor_id : Nat, lapic_id : Nat]) /\ smp.i = Len(smp.infos) + 1
    BY DEF SmpInv, Listing, SmpStates
  <2> QED
    BY <1>2, <2>1, <2>2 DEF SmpInv, Listing
<1>5. icr \in Icrs /\ ~icr.busy
  BY <1>2 DEF Icrs
<1>6. command \in Interrupts
  BY <1>3 DEF Interrupts
<1>7. ASSUME NEW p \in Processors
      PROVE  /\ aps[p] \in ProcessorStates /\ Alternates(aps[p].got)
             /\ p # t => aps[p] = smp.aps[p]
             /\ p = t => Len(aps[p].got) = Len(smp.aps[p].got) + 1
  <2>1. smp.aps[p] \in ProcessorStates /\ Alternates(smp.aps[p].got)
    BY <1>2 DEF SmpInv, Delivered
  <2>2. CASE p # t
    BY <2>1, <2>2
  <2>3. CASE p = t
    <3> DEFINE ap == smp.aps[p]
    <3>1. aps[p] = taken(ap)
      BY <2>3
    <3>2. ap.got \in Seq(Interrupts) /\ ap.cr3 \in Int /\ Len(ap.got) \in Nat
      BY <2>1 DEF ProcessorStates
    <3>3. Len(ap.got) + 1 = 2 * Count(smp.cpus, smp.i - 1, p) + HalfWoken(p)
      BY <1>1, <1>3, <2>3 DEF SmpInv, Accounted, Pending
    <3>4. HalfWoken(p) = IF smp.pc = "sipi" THEN 1 ELSE 0
      BY <1>3, <2>3 DEF HalfWoken
    <3>5. Count(smp.cpus, smp.i - 1, p) \in Nat
      BY <1>2, <1>4, CountAt
    <3>6. (Len(ap.got) + 1) % 2 = IF smp.pc = "sipi" THEN 1 ELSE 0
      <4> DEFINE c == Count(smp.cpus, smp.i - 1, p)
      <4> HIDE DEF c
      <4>1. c \in Nat /\ Len(ap.got) + 1 = 2 * c + HalfWoken(p)
        BY <3>3, <3>5 DEF c
      <4>2. (2 * c + 1) % 2 = 1 /\ (2 * c + 0) % 2 = 0
        BY <4>1
      <4> QED
        BY <3>4, <4>1, <4>2
    <3>7. command = IF (Len(ap.got) + 1) % 2 = 1 THEN "INIT" ELSE "SIPI"
      <4> DEFINE par == (Len(ap.got) + 1) % 2
      <4>1. par = (IF smp.pc = "sipi" THEN 1 ELSE 0) /\ command = (IF smp.pc = "sipi" THEN "INIT" ELSE "SIPI")
        BY <1>3, <3>6
      <4> HIDE DEF par, command
      <4>2. command = IF par = 1 THEN "INIT" ELSE "SIPI"
        BY <4>1
      <4> QED
        BY <4>2 DEF par
    <3> HIDE DEF ap, command
    <3>8. Append(ap.got, command) \in Seq(Interrupts) /\ Alternates(Append(ap.got, command))
          /\ Len(Append(ap.got, command)) = Len(ap.got) + 1
      BY <1>6, <2>1, <3>2, <3>7, AlternatesNext DEF ap
    <3>9. taken(ap) \in ProcessorStates /\ taken(ap).got = Append(ap.got, command)
      BY <2>1, <3>2, <3>8 DEF ProcessorStates, ap
    <3> QED
      BY <2>3, <3>1, <3>8, <3>9 DEF ap
  <2> QED
    BY <2>2, <2>3
<1>8. aps \in [Processors -> ProcessorStates]
  BY <1>7
<1> HIDE DEF aps, icr
<1>9. smp' \in SmpStates
  BY <1>1, <1>2, <1>5, <1>8, Zenon DEF SmpStates
<1>10. smp'.pc = smp.pc /\ smp'.cpus = smp.cpus /\ smp'.tables = smp.tables /\ smp'.i = smp.i
  BY <1>1, <1>2 DEF SmpStates
<1>11. smp'.infos = smp.infos /\ smp'.aps = aps /\ smp'.low = smp.low /\ smp'.icr = icr
  BY <1>1, <1>2 DEF SmpStates
<1>12. Parsing' /\ Quiet' /\ Listing' /\ OnItsWay'
  BY <1>4, <1>5, <1>10, <1>11 DEF SmpInv, Parsing, Quiet, Listing, OnItsWay
<1>13. Delivered'
  BY <1>3, <1>7, <1>11, SmpAssumption DEF SmpInv, Delivered
<1>14. Accounted'
  <2>1. ASSUME NEW p \in Processors \ {Bsp}
        PROVE  Len(smp'.aps[p].got) + Pending(p)' = 2 * Count(smp'.cpus, smp'.i - 1, p) + HalfWoken(p)'
    <3>1. Pending(p) = (IF p = t THEN 1 ELSE 0) /\ Pending(p)' = 0 /\ HalfWoken(p)' = HalfWoken(p)
      BY <1>1, <1>5, <1>10, <1>11 DEF Pending, HalfWoken
    <3>2. Len(smp.aps[p].got) + Pending(p) = 2 * Count(smp.cpus, smp.i - 1, p) + HalfWoken(p)
      BY DEF SmpInv, Accounted
    <3>3. Len(smp.aps[p].got) \in Nat
      BY <1>2 DEF ProcessorStates
    <3>4. Len(smp'.aps[p].got) + 0 = Len(smp.aps[p].got) + Pending(p)
      <4>1. p \in Processors
        OBVIOUS
      <4>2. CASE p = t
        <5>1. Len(aps[p].got) = Len(smp.aps[p].got) + 1 /\ Pending(p) = 1
          BY <1>7, <3>1, <4>1, <4>2
        <5> QED
          BY <1>11, <3>3, <5>1
      <4>3. CASE p # t
        <5>1. aps[p] = smp.aps[p] /\ Pending(p) = 0
          BY <1>7, <3>1, <4>1, <4>3
        <5> QED
          BY <1>11, <3>3, <5>1
      <4> QED
        BY <4>2, <4>3
    <3> QED
      BY <1>10, <3>1, <3>2, <3>4
  <2> QED
    BY <2>1 DEF Accounted
<1> QED
  BY <1>9, <1>12, <1>13, <1>14 DEF SmpInv

LEMMA TrampolineInv == SmpInv /\ TrampolineStep => SmpInv'
PROOF
<1> SUFFICES ASSUME SmpInv, TrampolineStep PROVE SmpInv'
  OBVIOUS
<1>1. PICK p \in Processors : 
        /\ smp.aps[p].mode \in {"real", "protected"}
        /\ \E mode \in IF smp.aps[p].mode = "real" THEN {"protected"} ELSE {"parked", "lost"} :
             smp' = [smp EXCEPT !.aps[p].mode = mode,
                                !.aps[p].cr3 = IF mode = "protected" THEN @ ELSE 0]
  BY DEF TrampolineStep
<1>2. smp \in SmpStates /\ smp.aps \in [Processors -> ProcessorStates]
  BY DEF SmpInv, SmpStates
<1>3. PICK mode \in {"protected", "parked", "lost"} :
        smp' = [smp EXCEPT !.aps[p].mode = mode,
                           !.aps[p].cr3 = IF mode = "protected" THEN @ ELSE 0]
  BY <1>1
<1> DEFINE ap == smp.aps[p]
           cr3 == IF mode = "protected" THEN ap.cr3 ELSE 0
           next == [ap EXCEPT !.mode = mode, !.cr3 = cr3]
           aps == [smp.aps EXCEPT ![p] = next]
<1>4. ap \in ProcessorStates
  BY <1>2
<1>5. smp' = [smp EXCEPT !.aps = aps]
  <2>1. DOMAIN smp = {"pc", "tables", "t", "e", "cpus", "i", "icr", "low", "pml4", "infos", "aps"}
    BY <1>2 DEF SmpStates
  <2>2. DOMAIN ap = {"mode", "cr3", "got"}
    BY <1>4 DEF ProcessorStates
  <2> QED
    BY <1>2, <1>3, <2>1, <2>2
<1>6. next \in ProcessorStates /\ next.got = ap.got
  <2>1. cr3 \in Int
    BY <1>4 DEF ProcessorStates
  <2> HIDE DEF ap, cr3
  <2>2. mode \in {"off", "boot", "reset", "real", "protected", "parked", "lost"}
    OBVIOUS
  <2>3. next \in ProcessorStates
    BY <1>4, <2>1, <2>2, Zenon DEF ProcessorStates
  <2>4. next.got = ap.got
    BY <1>4 DEF ProcessorStates
  <2> QED
    BY <2>3, <2>4
<1> HIDE DEF next
<1>7. aps \in [Processors -> ProcessorStates] /\ \A q \in Processors : aps[q].got = smp.aps[q].got
  BY <1>2, <1>6
<1> HIDE DEF aps
<1>8. smp' \in SmpStates
  BY <1>2, <1>5, <1>7, Zenon DEF SmpStates
<1>9. smp'.pc = smp.pc /\ smp'.cpus = smp.cpus /\ smp'.tables = smp.tables /\ smp'.i = smp.i
  BY <1>2, <1>5 DEF SmpStates
<1>10. smp'.infos = smp.infos /\ smp'.aps = aps /\ smp'.low = smp.low /\ smp'.icr = smp.icr
  BY <1>2, <1>5 DEF SmpStates
<1>11. smp.pc \notin {"tables", "madt", "copy"}
  BY <1>1 DEF SmpInv, Quiet
<1>12. Parsing' /\ Quiet' /\ Listing' /\ OnItsWay'
  BY <1>9, <1>10, <1>11 DEF SmpInv, Parsing, Quiet, Listing, OnItsWay
<1>13. Delivered'
  BY <1>7, <1>10, SmpAssumption DEF SmpInv, Delivered
<1>14. Accounted'
  <2>1. \A q : Pending(q)' = Pending(q) /\ HalfWoken(q)' = HalfWoken(q)
    BY <1>9, <1>10 DEF Pending, HalfWoken
  <2> QED
    BY <1>7, <1>9, <1>10, <2>1 DEF SmpInv, Accounted
<1> QED
  BY <1>8, <1>12, <1>13, <1>14 DEF SmpInv

LEMMA SmpNextInv == SmpInv /\ [SmpNext]_smp => SmpInv'
PROOF
<1>1. ASSUME SmpInv, UNCHANGED smp PROVE SmpInv'
  BY <1>1 DEF SmpInv, Parsing, Quiet, Listing, OnItsWay, Accounted, Pending, HalfWoken, Delivered, Entries
<1> QED
  BY <1>1, FindMadtInv, ReadEntryInv, CopyInv, NextCpuInv, SendInitInv, SendSipiInv, DeliverInv,
     TrampolineInv DEF SmpNext

(***************************************************************************)
(* Whatever the tables list, and however late the controller delivers,     *)
(* each processor is started once for each time it is listed and the boot  *)
(* processor is left alone (parse_madt, start_aps, send_ipi).              *)
(***************************************************************************)
THEOREM ProcessorsAreStarted == SmpSpec => []SmpStartsEach
PROOF
<1>1. SmpInv => SmpStartsEach
  <2> SUFFICES ASSUME SmpInv PROVE SmpStartsEach
    OBVIOUS
  <2>1. smp \in SmpStates /\ smp.i \in Nat /\ smp.cpus \in Seq(Nat) /\ Len(smp.cpus) \in Nat
        /\ DOMAIN smp.cpus = 1..Len(smp.cpus)
    BY DEF SmpInv, SmpStates
  <2>2. smp.pc \notin {"tables", "madt"} => Lists(smp.cpus, smp.tables)
    BY DEF SmpInv, Parsing
  <2>3. \A n \in DOMAIN smp.infos :
          smp.infos[n] = [processor_id |-> n - 1, lapic_id |-> smp.cpus[n]]
    BY DEF SmpInv, Listing
  <2>4. smp.aps[Bsp].got = <<>> /\ \A p \in Processors : Alternates(smp.aps[p].got)
    BY DEF SmpInv, Delivered
  <2>5. \A p \in Processors : smp.aps[p].mode \notin {"off", "boot"} => smp.low = "trampoline"
    BY DEF SmpInv, Quiet, Listing
  <2>6. ASSUME smp.pc = "done", ~smp.icr.busy
        PROVE  /\ Len(smp.infos) = Len(smp.cpus)
               /\ \A p \in Processors \ {Bsp} : Len(smp.aps[p].got) = 2 * Times(smp.cpus, p)
    <3>1. smp.i = Len(smp.cpus) + 1 /\ smp.i = Len(smp.infos) + 1
      BY <2>6 DEF SmpInv, Listing
    <3>2. Len(smp.infos) \in Nat
      <4> DEFINE R == [processor_id : Nat, lapic_id : Nat]
      <4>1. smp.infos \in Seq(R)
        BY <2>1 DEF SmpStates
      <4> HIDE DEF R
      <4> QED
        BY <4>1
    <3>3. ASSUME NEW p \in Processors \ {Bsp} PROVE Len(smp.aps[p].got) = 2 * Times(smp.cpus, p)
      <4>1. Len(smp.aps[p].got) + 0 = 2 * Count(smp.cpus, smp.i - 1, p) + 0
        BY <2>6 DEF SmpInv, Accounted, Pending, HalfWoken
      <4>2. smp.i - 1 = Len(smp.cpus)
        BY <2>1, <3>1
      <4>3. Count(smp.cpus, smp.i - 1, p) = Times(smp.cpus, p)
        BY <2>1, <4>2 DEF Count, Times
      <4>4. Count(smp.cpus, smp.i - 1, p) \in Nat
        <5>1. smp.i >= 1
          BY <2>1, <3>1
        <5> QED
          BY <2>1, <5>1, CountAt
      <4>5. Len(smp.aps[p].got) \in Nat
        BY <2>1 DEF SmpStates, ProcessorStates
      <4> QED
        BY <4>1, <4>3, <4>4, <4>5
    <3> QED
      BY <2>1, <3>1, <3>2, <3>3
  <2> QED
    BY <2>2, <2>3, <2>4, <2>5, <2>6 DEF SmpStartsEach, Alternates
<1> QED
  BY <1>1, SmpInitInv, SmpNextInv, PTL DEF SmpSpec
=============================================================================
