------------------------------ MODULE TestRunner ------------------------------
(***************************************************************************)
(* The integration test harness (zamak-test) and the test kernels it runs  *)
(* under QEMU: the harness thread that reads the guest's serial output,    *)
(* the watchdog thread that owns the child process, and the guest.         *)
(*                                                                         *)
(* A serial line is the sentinel it contains, or Unreadable (bytes that    *)
(* are not UTF-8, on which reader.lines() fails).  The passing of time is  *)
(* the watchdog's freedom to time out at any moment.                       *)
(***************************************************************************)
EXTENDS Integers, Sequences

CONSTANTS
  ArgLists,     \* the command lines tried
  SecondsOf,    \* the numbers among their words, as a function to Nat
  Missing,      \* sets of test names whose image file does not exist
  Firmwares,    \* subsets of {"qemu", "ovmf"}: what is installed on the host
  Devices,      \* {TRUE, FALSE}: the machine has the debug-exit device
  Unreadable

VARIABLE tr

TestCase(name, mode, kernel, expected) ==
  [name |-> name, mode |-> mode, kernel |-> kernel, expected |-> expected]

Suites ==
  [s \in {"boot-smoke", "asm-verification", "linux-bzimage"} |->
    CASE s = "boot-smoke" ->
           <<TestCase("bios-boot-smoke", "Bios", "test", {"ZAMAK", "LIMINE_PROTOCOL_OK"}),
             TestCase("uefi-boot-smoke", "Uefi", "test", {"ZAMAK", "LIMINE_PROTOCOL_OK"})>>
      [] s = "asm-verification" ->
           <<TestCase("asm-wrapper-state-check", "Uefi", "verify", {"ASM_VERIFY_OK"})>>
      [] OTHER ->
           <<TestCase("uefi-linux-boot", "Uefi", "linux", {"ZAMAK", "Linux version"})>>]

(***************************************************************************)
(* The kernels' own programs: what they print, and the code they write to  *)
(* the debug-exit device, 0x31 (which QEMU turns into exit status 0x63) or *)
(* 0x32 (0x65).  The boot loader prints its banner before them.            *)
(***************************************************************************)
TestKernel == [lines |-> <<"KERNEL_ENTRY", "ZAMAK", "LIMINE_PROTOCOL_OK">>, writes |-> 49]

AsmVerify == [lines |-> <<"ZAMAK", "ASM_VERIFY_OK">>, writes |-> 49]

AsmVerifyFails == [lines |-> <<"ZAMAK", "ASM_VERIFY_FAIL">>, writes |-> 50]

LinuxStub == [lines |-> <<"ZAMAK", "Linux version">>, writes |-> 49]

Programs(kernel) ==
  CASE kernel = "test" -> {TestKernel}
    [] kernel = "verify" -> {AsmVerify, AsmVerifyFails}
    [] OTHER -> {LinuxStub}

DebugExit(value) == 2 * value + 1

EXIT_SUCCESS == 99   \* 0x63
EXIT_FAILURE == 101  \* 0x65
NoCode == -1         \* ended by a signal: status.code() is None

(***************************************************************************)
(* parse_args: the modes are Help, a single test or a suite.               *)
(***************************************************************************)
Usage == [mode |-> "error", arg |-> "none"]

ParseArgs(argv) ==
  LET none == [mode |-> "none", arg |-> "none"]
      modes == {none} \cup {[mode |-> argv[i], arg |-> argv[i + 1]] : i \in 1..(Len(argv) - 1)}
      From[i \in 1..(Len(argv) + 1), found \in modes] ==
        IF i > Len(argv) THEN IF found = none THEN Usage ELSE found
        ELSE CASE argv[i] \in {"--help", "-h"} -> [mode |-> "help", arg |-> "none"]
               [] argv[i] = "--timeout" ->
                    IF i < Len(argv) /\ argv[i + 1] \in DOMAIN SecondsOf
                       /\ SecondsOf[argv[i + 1]] # 0
                    THEN From[i + 2, found] ELSE Usage
               [] argv[i] \in {"--bios", "--uefi", "--suite"} ->
                    IF i < Len(argv) /\ found = none
                    THEN From[i + 2, [mode |-> argv[i], arg |-> argv[i + 1]]]
                    ELSE Usage
               [] OTHER -> Usage
  IN From[1, none]

RunSingle(mode) ==
  <<TestCase("boot-smoke", IF mode = "--bios" THEN "Bios" ELSE "Uefi", "test", {"ZAMAK"})>>

----------------------------------------------------------------------------
TrIdle == tr = [pc |-> "idle"]

NoChild == [state |-> "none"]

NoGuest == [killed |-> FALSE, code |-> NoCode, printed |-> {}]

TrInit ==
  \E argv \in ArgLists, missing \in Missing, host \in Firmwares, device \in Devices :
    tr = [pc |-> "main", argv |-> argv, missing |-> missing, host |-> host,
          device |-> device, single |-> FALSE, cases |-> <<>>, i |-> 1, fails |-> 0,
          exit |-> 0, results |-> <<>>, child |-> NoChild]

Exit(code) == tr' = [tr EXCEPT !.pc = "exited", !.exit = code]

Main ==
  /\ tr.pc = "main"
  /\ LET args == ParseArgs(tr.argv)
     IN CASE args.mode = "error" -> Exit(2)
          [] args.mode = "help" -> Exit(0)
          [] args.mode = "--suite" /\ args.arg \notin DOMAIN Suites -> Exit(2)
          [] args.mode = "--suite" /\ args.arg \in DOMAIN Suites ->
               tr' = [tr EXCEPT !.pc = "next", !.cases = Suites[args.arg]]
          [] OTHER -> tr' = [tr EXCEPT !.pc = "next", !.single = TRUE,
                                       !.cases = RunSingle(args.mode)]

Test == tr.cases[tr.i]

(* What is kept of a test: its verdict and, for the property, what the     *)
(* guest did.                                                              *)
Report(verdict, guest) ==
  /\ tr' = [tr EXCEPT !.pc = "next", !.i = @ + 1, !.child = NoChild,
                      !.fails = @ + (IF verdict \in {"Fail", "Timeout"} THEN 1 ELSE 0),
                      !.results = Append(@, [verdict |-> verdict, guest |-> guest])]

(* A test of a suite whose image is missing is skipped; run_single does    *)
(* not look.                                                               *)
SkipTest ==
  /\ tr.pc = "next"
  /\ tr.i <= Len(tr.cases)
  /\ ~tr.single
  /\ Test.name \in tr.missing
  /\ Report("Skip", NoGuest)

NeedsOvmf == Test.mode = "Uefi" /\ "ovmf" \notin tr.host

StartTest ==
  /\ tr.pc = "next"
  /\ tr.i <= Len(tr.cases)
  /\ tr.single \/ Test.name \notin tr.missing
  /\ IF NeedsOvmf THEN Exit(101)   \* build_qemu_command panics
     ELSE IF "qemu" \notin tr.host THEN Report("Fail", NoGuest)
     ELSE \E program \in Programs(Test.kernel) :
            tr' = [tr EXCEPT !.pc = "test",
                     !.child = [state |-> "running", code |-> NoCode, killed |-> FALSE,
                                program |-> program, lines |-> <<"ZAMAK">> \o program.lines,
                                printed |-> <<>>, pipe |-> <<>>, matched |-> {},
                                reader |-> "reading", done |-> FALSE,
                                watchdog |-> "waiting", timed_out |-> FALSE]]

SuiteEnds ==
  /\ tr.pc = "next"
  /\ tr.i > Len(tr.cases)
  /\ Exit(IF tr.fails > 0 THEN 1 ELSE 0)

----------------------------------------------------------------------------
(***************************************************************************)
(* The guest.  Nothing makes it go on: it may hang at any point.           *)
(***************************************************************************)
Running == tr.pc = "test" /\ tr.child.state = "running"

(* A step of the guest, the reader or the watchdog changes the child. *)
ToChild(child) == tr' = [tr EXCEPT !.child = child]

Emitted(child, line) ==
  [child EXCEPT !.printed = Append(@, line), !.pipe = Append(@, line)]

GuestPrints ==
  /\ Running
  /\ tr.child.lines # <<>>
  /\ ToChild([Emitted(tr.child, Head(tr.child.lines)) EXCEPT !.lines = Tail(@)])

GuestGarbles ==
  /\ Running
  /\ tr.child.printed = <<>>
  /\ ToChild(Emitted(tr.child, Unreadable))

Ends(child, code) == [child EXCEPT !.state = "ended", !.code = code]

(* Without the device the write does nothing and the kernel spins.        *)
GuestExits ==
  /\ Running
  /\ tr.child.lines = <<>>
  /\ tr.device
  /\ ToChild(Ends(tr.child, DebugExit(tr.child.program.writes)))

(* The stub has nothing that panics. *)
GuestPanics ==
  /\ Running
  /\ tr.child.lines # <<>>
  /\ Test.kernel # "linux"
  /\ LET child == Emitted(tr.child, "PANIC")
     IN ToChild(IF tr.device THEN Ends(child, DebugExit(50)) ELSE [child EXCEPT !.lines = <<>>])

(* A reset ends QEMU with status 0 (-no-reboot), a crash with a signal.   *)
GuestDies ==
  /\ Running
  /\ \E code \in {0, NoCode} : ToChild(Ends(tr.child, code))

----------------------------------------------------------------------------
(***************************************************************************)
(* The harness thread: one line, or the end of the pipe, at a time; then   *)
(* "done" for the watchdog.                                                *)
(***************************************************************************)
Reading == tr.pc = "test" /\ tr.child.reader = "reading"

StopReading(child) == [child EXCEPT !.reader = "joining", !.done = TRUE]

ReadLine ==
  /\ Reading
  /\ tr.child.pipe # <<>>
  /\ LET line == Head(tr.child.pipe)
         matched == tr.child.matched \cup ({line} \cap Test.expected)
         read == [tr.child EXCEPT !.pipe = Tail(@), !.matched = matched]
     IN ToChild(IF line = Unreadable \/ matched = Test.expected THEN StopReading(read) ELSE read)

ReadEnd ==
  /\ Reading
  /\ tr.child.pipe = <<>>
  /\ tr.child.state = "ended"
  /\ ToChild(StopReading(tr.child))

(* start_watchdog: recv_timeout, kill on a timeout, then wait.            *)
Waiting == tr.pc = "test" /\ tr.child.watchdog = "waiting"

WatchdogTold ==
  /\ Waiting
  /\ tr.child.done
  /\ ToChild([tr.child EXCEPT !.watchdog = "reaping"])

Kill(child) ==
  IF child.state = "running" THEN [child EXCEPT !.state = "ended", !.killed = TRUE] ELSE child

WatchdogTimesOutOnly ==
  /\ Waiting
  /\ ~tr.child.done
  /\ ToChild([tr.child EXCEPT !.watchdog = "reaping", !.timed_out = TRUE])

WatchdogTimesOut ==
  /\ Waiting
  /\ ~tr.child.done
  /\ ToChild([Kill(tr.child) EXCEPT !.watchdog = "reaping", !.timed_out = TRUE])

WatchdogReaps ==
  /\ tr.pc = "test"
  /\ tr.child.watchdog = "reaping"
  /\ tr.child.state = "ended"
  /\ ToChild([tr.child EXCEPT !.watchdog = "finished"])

(* join, then run_test's verdict.                                         *)
VerdictIgnoringCode(child, expected) ==
  IF child.timed_out THEN "Timeout"
  ELSE IF child.matched = expected THEN "Pass" ELSE "Fail"

Verdict(child, expected) ==
  CASE child.timed_out -> "Timeout"
    [] ~child.timed_out /\ child.code = EXIT_SUCCESS -> "Pass"
    [] ~child.timed_out /\ child.code = EXIT_FAILURE -> "Fail"
    [] OTHER -> IF child.matched = expected THEN "Pass" ELSE "Fail"

Join ==
  /\ tr.pc = "test"
  /\ tr.child.reader = "joining"
  /\ tr.child.watchdog = "finished"
  /\ Report(Verdict(tr.child, Test.expected),
            [killed |-> tr.child.killed, code |-> tr.child.code,
             printed |-> {tr.child.printed[k] : k \in DOMAIN tr.child.printed}])

Guest == GuestPrints \/ GuestGarbles \/ GuestExits \/ GuestPanics \/ GuestDies

Harness == Main \/ SkipTest \/ StartTest \/ SuiteEnds \/ ReadLine \/ ReadEnd \/ Join

Watchdog == WatchdogTold \/ WatchdogTimesOut \/ WatchdogReaps

TrNext == Guest \/ Harness \/ Watchdog

(***************************************************************************)
(* Threads that can run do run, and the deadline passes; nothing is        *)
(* assumed of the guest.                                                   *)
(***************************************************************************)
TrFairness == WF_tr(Harness) /\ WF_tr(Watchdog)

----------------------------------------------------------------------------
(***************************************************************************)
(* A verdict speaks for the guest, whatever the order in which the guest,  *)
(* the reader and the watchdog ran.  A test passes only when the guest     *)
(* ended by itself and either wrote the success code or printed every      *)
(* sentinel without reporting failure; it fails only when the guest        *)
(* reported failure, could not be started, or ended with a sentinel        *)
(* missing or an unreadable line among its output; and the process exits   *)
(* with 0 only when no test failed or timed out, and with 1 only when one  *)
(* did (run_test, run_suite).                                              *)
(***************************************************************************)
VerdictSound ==
  tr.pc \in {"next", "exited"} =>
    /\ \A i \in DOMAIN tr.results :
         LET r == tr.results[i]
             expected == tr.cases[i].expected
         IN /\ r.verdict = "Pass" =>
                 /\ ~r.guest.killed
                 /\ \/ r.guest.code = EXIT_SUCCESS
                    \/ expected \subseteq r.guest.printed /\ r.guest.code # EXIT_FAILURE
            /\ r.verdict = "Fail" =>
                 \/ r.guest.code = EXIT_FAILURE
                 \/ ~(expected \subseteq r.guest.printed)
                 \/ Unreadable \in r.guest.printed
    /\ tr.pc = "exited" /\ tr.exit = 0 =>
         \A i \in DOMAIN tr.results : tr.results[i].verdict \in {"Pass", "Skip"}
    /\ tr.pc = "exited" /\ tr.exit = 1 =>
         \E i \in DOMAIN tr.results : tr.results[i].verdict \in {"Fail", "Timeout"}

(***************************************************************************)
(* A test always ends: however silent or stuck the guest, the deadline     *)
(* kills it and run_test returns.  The one exception is a guest still      *)
(* running after the harness has stopped listening before the deadline     *)
(* (every sentinel seen, or an unreadable line): the watchdog then waits   *)
(* for it without a deadline (start_watchdog).                             *)
(***************************************************************************)
Abandoned ==
  /\ tr.pc = "test"
  /\ tr.child.state = "running"
  /\ tr.child.watchdog = "reaping"
  /\ ~tr.child.timed_out

TestEnds == tr.pc = "test" ~> (tr.pc # "test" \/ Abandoned)
=============================================================================
