--------------------------------- MODULE Cli ---------------------------------
(***************************************************************************)
(* The zamak command line: global flags, environment, output policy, the   *)
(* sub-commands as far as flags and confirmation decide what they do, the  *)
(* interactive browser and the exit status (zamak-cli).                    *)
(*                                                                         *)
(* An argument is the tuple of its parts at the "=": <<"--json">>, or      *)
(* <<"--format", "json">> for --format=json.  What install and             *)
(* enroll-config do to the disk is in Install and Enroll; here a command   *)
(* that changes something sets `written`.                                  *)
(***************************************************************************)
EXTENDS Integers, Sequences

CONSTANTS
  CommandLines,   \* the argument lists tried (single-dash arguments are known flags)
  Words,          \* the words in them that do not begin with a dash
  Variables,      \* the environments tried: [AI_AGENT, AGENT, CI, NO_COLOR, FORCE_COLOR,
                  \*   CLICOLOR, TERM : value or Unset, stdout, stdin : a terminal]
  Unset,
  TuiBuilt        \* the "tui" feature is compiled in

VARIABLE cli

ASSUME CliAssumption ==
  /\ CommandLines \subseteq Seq(Seq(STRING))
  /\ \A args \in CommandLines : \A i \in DOMAIN args : Len(args[i]) \in {1, 2}
  /\ Unset \notin {"auto", "always", "never", "human", "json", "jsonl", "ndjson", "yaml", "yml", "csv",
                  "explore", "E"}
  /\ \A vars \in Variables : vars.stdout \in BOOLEAN /\ vars.stdin \in BOOLEAN

Truthy(v) == v \notin {Unset, "", "0", "false"}

Filled(v) == v \notin {Unset, ""}

EnvSnapshot(vars) ==
  [stdout_is_tty |-> vars.stdout, stdin_is_tty |-> vars.stdin,
   agent_mode |-> Truthy(vars.AI_AGENT) \/ Truthy(vars.AGENT),
   ci_mode |-> Truthy(vars.CI),
   term_is_dumb |-> vars.TERM = "dumb",
   no_color |-> Filled(vars.NO_COLOR),
   force_color |-> Filled(vars.FORCE_COLOR),
   cli_color_off |-> vars.CLICOLOR = "0"]

----------------------------------------------------------------------------
FormatNames == {"human", "json", "jsonl", "ndjson", "yaml", "yml", "csv", "explore", "E"}

FormatOf(s) ==
  CASE s \in {"jsonl", "ndjson"} -> "jsonl"
    [] s \in {"yaml", "yml"} -> "yaml"
    [] s \in {"explore", "E"} -> "explore"
    [] OTHER -> s

ColorNames == {"auto", "always", "never"}

IsMachine(format) == format \notin {"human", "explore"}

GlobalFlags ==
  [format |-> "none", json |-> FALSE, dry_run |-> FALSE, quiet |-> FALSE, color |-> "auto",
   yes |-> FALSE, force |-> FALSE, help |-> FALSE, version |-> FALSE]

Flag(names, arg) == Len(arg) = 1 /\ arg[1] \in names

(* An argument as a value; one with an "=" in it is no name of a format or *)
(* a color.                                                                *)
AsValue(arg) == IF Len(arg) = 1 THEN arg[1] ELSE "="

(* The options with a value: --name=value, or --name and the next argument *)
(* (Unset when there is none).                                             *)
ValueAt(args, i) ==
  IF Len(args[i]) = 2 THEN args[i][2]
  ELSE IF i < Len(args) THEN AsValue(args[i + 1]) ELSE Unset

After(args, i) == IF Len(args[i]) = 2 THEN i + 1 ELSE i + 2

IsOption(arg) == arg[1] \notin Words

----------------------------------------------------------------------------
ResolveFormat(format, json, env) ==
  CASE format # "none" -> format
    [] format = "none" /\ (json \/ env.agent_mode \/ env.ci_mode) -> "json"
    [] OTHER -> IF env.stdout_is_tty THEN "human" ELSE "json"

ResolveColor(mode, format, env) ==
  /\ ~IsMachine(format)
  /\ mode # "never"
  /\ \/ mode = "always"
     \/ env.force_color
     \/ /\ ~env.no_color
        /\ ~env.cli_color_off
        /\ ~env.term_is_dumb
        /\ env.stdout_is_tty

ResolvePolicy(g, env) ==
  LET format == ResolveFormat(g.format, g.json, env)
  IN [format |-> format, color |-> ResolveColor(g.color, format, env)]

FallbackPolicy(env) == ResolvePolicy(GlobalFlags, env)

ShouldFallBack(env) == env.agent_mode \/ env.ci_mode \/ ~env.stdout_is_tty \/ ~TuiBuilt

(* ErrorCode::exit_code and CliError::from_io.                             *)
ExitCode(code) ==
  CASE code = "success" -> 0
    [] code \in {"general", "internal"} -> 1
    [] code \in {"usage", "invalid"} -> 2
    [] code = "not_found" -> 3
    [] code = "permission" -> 4
    [] code = "conflict" -> 5
    [] OTHER -> 6

IoCodes == {"not_found", "permission", "conflict", "general"}

Commands == {"install", "enroll-config", "sbom", "schema", "describe", "completions", "bench"}

Destructive == {"install", "enroll-config"}

(* The options with a value of each command, and the ones it needs.        *)
Options(sub) ==
  CASE sub = "install" -> {"--mbr", "--stage2", "--target", "--stage2-lba"}
    [] sub = "enroll-config" -> {"--config", "--efi"}
    [] sub = "sbom" -> {"--output", "-o", "--release-version", "--version"}
    [] OTHER -> {"--tsc-mhz"}

Required(sub) ==
  IF sub = "install" THEN {"--mbr", "--stage2", "--target"} ELSE {"--config", "--efi"}

(* The options given a value, "path" for a word of its own (any number for *)
(* sbom, one for bench), {"unknown"} when the parsing fails.               *)
Given(sub, args) ==
  LET From[i \in 1..(Len(args) + 1), given \in SUBSET (Options(sub) \cup {"path"})] ==
        IF i > Len(args) THEN given
        ELSE IF Flag(Options(sub), args[i])
             THEN IF i < Len(args) THEN From[i + 2, given \cup {args[i][1]}]
                  ELSE IF args[i][1] \in {"--stage2-lba", "--tsc-mhz"} THEN {"unknown"}
                  ELSE given \ {args[i][1]}
             ELSE IF ~IsOption(args[i]) /\ (sub = "sbom" \/ (sub = "bench" /\ "path" \notin given))
             THEN From[i + 1, given \cup {"path"}]
             ELSE {"unknown"}
  IN From[1, {}]

----------------------------------------------------------------------------
CliIdle == cli = [pc |-> "idle"]

CliInit ==
  \E args \in CommandLines, vars \in Variables :
    cli = [pc |-> "globals", args |-> args, env |-> EnvSnapshot(vars), flags |-> GlobalFlags,
           i |-> 1, saw_subcommand |-> FALSE,
           policy |-> FallbackPolicy(EnvSnapshot(vars)), sub |-> "none", rest |-> <<>>,
           typed |-> FALSE, written |-> FALSE, raw |-> FALSE, in_filter |-> FALSE,
           code |-> "none", exit |-> -1]

(* error::emit: the error goes to stderr and decides the exit status.      *)
Fail(state, code) == [state EXCEPT !.pc = "exited", !.code = code, !.exit = ExitCode(code)]

Succeed(state) == [state EXCEPT !.pc = "exited", !.exit = 0]

(* parse_globals, one argument: the global flags are taken out, the rest   *)
(* is kept; help and version are global only before the first word that is *)
(* not an option.                                                          *)
ParseGlobal ==
  LET a == cli.args[cli.i]
      v == ValueAt(cli.args, cli.i)
      sub == cli.saw_subcommand
      Take(flags) == cli' = [cli EXCEPT !.flags = flags, !.i = @ + 1]
      TakeValue(ok, flags) ==
        cli' = IF ok THEN [cli EXCEPT !.flags = flags, !.i = After(cli.args, @)] ELSE Fail(cli, "usage")
  IN /\ cli.pc = "globals"
     /\ cli.i <= Len(cli.args)
     /\ CASE Flag({"--json"}, a) -> Take([cli.flags EXCEPT !.json = TRUE])
          [] a[1] = "--format" ->
               TakeValue(v \in FormatNames, [cli.flags EXCEPT !.format = FormatOf(v)])
          [] Flag({"-E"}, a) -> Take([cli.flags EXCEPT !.format = "explore"])
          [] a[1] = "--fields" -> TakeValue(v # Unset, cli.flags)
          [] Flag({"--dry-run", "-n"}, a) -> Take([cli.flags EXCEPT !.dry_run = TRUE])
          [] Flag({"--verbose", "-v", "--print0", "-0"}, a) -> Take(cli.flags)
          [] Flag({"--quiet", "-q"}, a) -> Take([cli.flags EXCEPT !.quiet = TRUE])
          [] a[1] = "--color" -> TakeValue(v \in ColorNames, [cli.flags EXCEPT !.color = v])
          [] Flag({"--no-color"}, a) -> Take([cli.flags EXCEPT !.color = "never"])
          [] Flag({"--yes", "-y"}, a) -> Take([cli.flags EXCEPT !.yes = TRUE])
          [] Flag({"--force"}, a) -> Take([cli.flags EXCEPT !.force = TRUE])
          [] Flag({"--help", "-h", "help"}, a) /\ ~sub -> Take([cli.flags EXCEPT !.help = TRUE])
          [] Flag({"--version", "-V"}, a) /\ ~sub -> Take([cli.flags EXCEPT !.version = TRUE])
          [] Flag({"--"}, a) ->
               cli' = [cli EXCEPT !.rest = @ \o SubSeq(cli.args, cli.i, Len(cli.args)), !.pc = "run"]
          [] OTHER -> cli' = [cli EXCEPT !.rest = Append(@, a), !.i = @ + 1,
                                         !.saw_subcommand = @ \/ ~IsOption(a)]

GlobalsParsed ==
  /\ cli.pc = "globals"
  /\ cli.i > Len(cli.args)
  /\ cli' = [cli EXCEPT !.pc = "run"]

Run ==
  /\ cli.pc = "run"
  /\ LET named == cli.rest # <<>> /\ ~IsOption(cli.rest[1])
         known == [cli EXCEPT !.policy = ResolvePolicy(cli.flags, cli.env)]
     IN cli' = IF cli.flags.version \/ cli.flags.help THEN Succeed(known)
               ELSE IF named /\ Flag(Commands, cli.rest[1])
               THEN [known EXCEPT !.pc = "body", !.sub = cli.rest[1][1], !.rest = Tail(@)]
               ELSE Fail(known, "usage")

(* What each command accepts after its name.                               *)
ArgsOk(sub, rest) ==
  CASE sub \in Destructive -> Required(sub) \subseteq Given(sub, rest)
    [] sub = "sbom" -> "unknown" \notin Given(sub, rest)
    [] sub = "schema" -> Len(rest) <= 1 /\ \A i \in DOMAIN rest : ~IsOption(rest[i])
    [] sub = "describe" -> rest = <<>>
    [] sub = "bench" -> rest # <<>> /\ Flag({"parse-serial"}, rest[1]) /\ "unknown" \notin Given(sub, Tail(rest))
    [] OTHER -> Len(rest) = 1

(* How reading its inputs may end a command: files that cannot be read, a  *)
(* number, MBR, hash slot, command, log or shell that is not as it should  *)
(* be.                                                                     *)
BodyErrors(sub) ==
  CASE sub = "install" -> IoCodes \cup {"invalid", "usage"}
    [] sub = "enroll-config" -> IoCodes \cup {"invalid"}
    [] sub = "sbom" -> {"invalid"}
    [] sub = "schema" -> {"not_found"}
    [] sub = "describe" -> {}
    [] sub = "bench" -> {"usage", "not_found", "general"}
    [] OTHER -> {"invalid"} \cup IoCodes

BodyFails ==
  /\ cli.pc = "body"
  /\ IF ArgsOk(cli.sub, cli.rest)
     THEN \E code \in BodyErrors(cli.sub) : cli' = Fail(cli, code)
     ELSE cli' = Fail(cli, "usage")

DryRunUnlessForced(flags, sub) == flags.dry_run /\ ~flags.force /\ sub \in Destructive

DryRun(flags, sub) == flags.dry_run /\ sub \in Destructive

(* A dry run, or a target that already is as wanted, changes nothing;      *)
(* completions writes its script itself; sbom writes its --output, dry run *)
(* or not.                                                                 *)
BodyRuns ==
  /\ cli.pc = "body"
  /\ ArgsOk(cli.sub, cli.rest)
  /\ \/ /\ cli.sub \notin Destructive \cup {"sbom", "completions"}
        /\ cli' = [cli EXCEPT !.pc = "emit"]
     \/ /\ cli.sub = "completions"
        /\ cli' = Succeed(cli)
     \/ /\ cli.sub = "sbom"
        /\ IF Given("sbom", cli.rest) \cap {"--output", "-o"} # {}
           THEN \/ cli' = [cli EXCEPT !.pc = "emit", !.written = TRUE]
                \/ \E code \in IoCodes, changed \in BOOLEAN :
                     cli' = Fail([cli EXCEPT !.written = changed], code)
           ELSE cli' = [cli EXCEPT !.pc = "emit"]
     \/ /\ cli.sub \in Destructive
        /\ cli' = [cli EXCEPT !.pc = "emit"]
     \/ /\ cli.sub \in Destructive
        /\ ~DryRun(cli.flags, cli.sub)
        /\ cli' = [cli EXCEPT !.pc = "confirm"]

(* confirm_destructive.                                                    *)
Confirm ==
  /\ cli.pc = "confirm"
  /\ IF cli.flags.yes \/ cli.flags.force THEN cli' = [cli EXCEPT !.pc = "write"]
     ELSE IF ~cli.env.stdin_is_tty THEN cli' = Fail(cli, "usage")
     ELSE \/ cli' = [cli EXCEPT !.pc = "write", !.typed = TRUE]
          \/ \E code \in IoCodes \cup {"usage"} : cli' = Fail(cli, code)

(* A write that fails may have changed the target already.                 *)
Write ==
  /\ cli.pc = "write"
  /\ \/ cli' = [cli EXCEPT !.pc = "emit", !.written = TRUE]
     \/ \E code \in IoCodes, changed \in BOOLEAN :
          cli' = Fail([cli EXCEPT !.written = changed], code)

EmitTo(state) ==
  \/ cli' = Succeed(state)
  \/ \E code \in IoCodes : cli' = Fail(state, code)

(* run_data_cmd after the command's body.                                  *)
Emit ==
  /\ cli.pc = "emit"
  /\ IF cli.policy.format # "explore" THEN EmitTo(cli)
     ELSE IF ShouldFallBack(cli.env)
     THEN EmitTo([cli EXCEPT !.policy = [format |-> "json", color |-> FALSE]])
     ELSE cli' = [cli EXCEPT !.pc = "tui"]

(* explore: raw mode, then the alternate screen, then keys until quit; an  *)
(* error on the way returns at once, with raw mode still on.               *)
TuiEnter ==
  /\ cli.pc = "tui"
  /\ \/ \E code \in IoCodes, raw \in BOOLEAN : cli' = Fail([cli EXCEPT !.raw = raw], code)
     \/ cli' = [cli EXCEPT !.pc = "keys", !.raw = TRUE]

(* In the filter line a key is text until Enter or Esc; outside it q, Esc  *)
(* and a successful export quit.  Drawing, polling and exporting may fail. *)
TuiKey ==
  /\ cli.pc = "keys"
  /\ \/ cli' = [cli EXCEPT !.in_filter = ~@]
     \/ ~cli.in_filter /\ cli' = [cli EXCEPT !.pc = "restore"]
     \/ \E code \in IoCodes : cli' = Fail(cli, code)

TuiRestore ==
  /\ cli.pc = "restore"
  /\ \/ cli' = Succeed([cli EXCEPT !.raw = FALSE])
     \/ \E code \in IoCodes, raw \in BOOLEAN : cli' = Fail([cli EXCEPT !.raw = raw], code)

CliNext ==
  \/ ParseGlobal \/ GlobalsParsed
  \/ Run \/ BodyFails \/ BodyRuns \/ Confirm \/ Write \/ Emit
  \/ TuiEnter \/ TuiKey \/ TuiRestore

----------------------------------------------------------------------------
(* An option that takes the next argument as its value; and an argument    *)
(* that is such a value: an odd number of these options, with no other     *)
(* before them, lead up to it.                                             *)
TakesNext(arg) == Flag({"--format", "--fields", "--color"}, arg)

IsValue(args, i) ==
  \E j \in 1..(i - 1) :
    /\ (i - j) % 2 = 1
    /\ \A k \in j..(i - 1) : TakesNext(args[k])
    /\ j > 1 => ~TakesNext(args[j - 1])

(* The command line asks for one of these flags: as an argument of its     *)
(* own, not as the value of a global option, and before any "--".          *)
Asked(args, names) ==
  \E i \in DOMAIN args :
    /\ Flag(names, args[i]) /\ ~IsValue(args, i)
    /\ \A j \in 1..(i - 1) : args[j] = <<"--">> => IsValue(args, j)

(***************************************************************************)
(* What a script or a person can rely on, whatever the order of the        *)
(* arguments and the environment.  install and enroll-config change        *)
(* nothing when --dry-run is on the command line, and otherwise only when  *)
(* --yes or --force is, or the person at a terminal typed yes; a command   *)
(* refused for its arguments (status 2) has changed nothing.  After status *)
(* 0 the terminal is as it was found; a machine format is never coloured;  *)
(* and the browser takes the terminal only where there is one, never for   *)
(* an agent or CI (parse_globals, confirm_destructive, run_data_cmd,       *)
(* explore).                                                               *)
(***************************************************************************)
CliObeys ==
  cli.pc # "idle" =>
    /\ cli.written /\ cli.sub \in Destructive =>
         /\ ~Asked(cli.args, {"--dry-run", "-n"})
         /\ \/ Asked(cli.args, {"--yes", "-y", "--force"})
            \/ cli.typed /\ cli.env.stdin_is_tty
    /\ cli.exit = 2 => ~cli.written
    /\ cli.exit = 0 => ~cli.raw
    /\ cli.policy.color => cli.policy.format \in {"human", "explore"}
    /\ cli.raw => cli.env.stdout_is_tty /\ ~cli.env.agent_mode /\ ~cli.env.ci_mode
=============================================================================
