------------------------------- MODULE Config -------------------------------
(***************************************************************************)
(* The configuration: lines of the SMBIOS OEM strings put before those of  *)
(* the file (zamak-core/src/config_discovery.rs), parsed line by line into *)
(* global settings and a tree of entries (config.rs), and the rows of the  *)
(* menu that show the tree (flatten_entries of tui.rs).                    *)
(*                                                                         *)
(* A line is a record.  Text is a sequence of pieces, <<"lit", t>> or a    *)
(* macro reference <<"ref", name>>.                                        *)
(***************************************************************************)
EXTENDS Integers, Sequences, SequencesExt, FiniteSetsExt

CONSTANTS
  ConfigFiles,   \* sequences of lines
  SmbiosTables,  \* sequences of structures [type, len, strings]; len is "short" (below
                 \* the four bytes of a header), "fits" or "past" the end of the table
  BuiltIns,      \* the macros seeded from the BootEnvironment
  NumberTexts,   \* the texts that parse as a number
  Yes, No        \* the texts EDITOR_ENABLED takes for yes; the text "no"

VARIABLE cfg

(* extract_smbios_config: up to the end of the table or a bad structure. *)
LastStructure(table) ==
  Min({i \in DOMAIN table : table[i].type = 127 \/ table[i].len # "fits"} \cup {Len(table) + 1})

ExtractSmbios(table) ==
  LET oem   == SelectSeq(SubSeq(table, 1, LastStructure(table) - 1), LAMBDA s : s.type = 11)
      found == FlattenSeq([i \in DOMAIN oem |-> SelectSeq(oem[i].strings, LAMBDA s : s.config)])
  IN  [i \in DOMAIN found |-> found[i].line]

(* Its slice of the string area, which may start past the end of the table. *)
ExtractPanics(table) ==
  LET i == LastStructure(table)
  IN  i <= Len(table) /\ table[i].len = "past" /\ table[i].type # 127

(* merge_smbios_config *)
MergeSmbios(lines, file) == lines \o file

(* expand_macros: one pass; an unknown reference stays as it is written. *)
ExpandMacros(text, macros) ==
  FlattenSeq([i \in DOMAIN text |->
    IF text[i][1] = "ref" /\ text[i][2] \in DOMAIN macros THEN macros[text[i][2]] ELSE <<text[i]>>])

With(f, key, value) == [k \in DOMAIN f \cup {key} |-> IF k = key THEN value ELSE f[k]]

NewEntry(id, line, name) ==
  [id |-> id, name |-> name, depth |-> line.depth, expanded |-> line.plus, path |-> <<>>,
   cmdline |-> <<>>, modules |-> <<>>, texts |-> <<>>, options |-> <<>>, children |-> <<>>]

NoEntry == [id |-> 0]

(* MUTANT of PushEntryRecursive: nested one level too deep. *)
RECURSIVE PushEntryTooDeep(_, _, _)
PushEntryTooDeep(children, entry, depth) ==
  IF entry.depth < depth \/ children = <<>> THEN Append(children, entry)
  ELSE [children EXCEPT ![Len(children)].children = PushEntryTooDeep(@, entry, depth + 1)]

RECURSIVE PushEntryRecursive(_, _, _)
PushEntryRecursive(children, entry, depth) ==
  IF entry.depth <= depth \/ children = <<>> THEN Append(children, entry)
  ELSE [children EXCEPT ![Len(children)].children = PushEntryRecursive(@, entry, depth + 1)]

(* push_entry; without an entry yet there is nothing to flush. *)
PushEntry(entries, entry) ==
  IF entry = NoEntry THEN entries
  ELSE IF entry.depth <= 1 \/ entries = <<>> THEN Append(entries, entry)
  ELSE [entries EXCEPT ![Len(entries)].children = PushEntryRecursive(@, entry, 2)]

(* A key of an entry. *)
SetEntryKey(entry, key, value) ==
  CASE key \in {"KERNEL_PATH", "PATH"} -> [entry EXCEPT !.path = value]
    [] key \in {"CMDLINE", "KERNEL_CMDLINE"} -> [entry EXCEPT !.cmdline = value]
    [] key \in {"PROTOCOL", "COMMENT"} -> [entry EXCEPT !.texts = With(@, key, value)]
    [] key = "MODULE_PATH" -> [entry EXCEPT !.modules = Append(@, [path |-> value, string |-> <<>>])]
    [] key \in {"MODULE_STRING", "MODULE_CMDLINE"} ->
         IF entry.modules = <<>> THEN entry
         ELSE [entry EXCEPT !.modules[Len(entry.modules)].string = value]
    [] OTHER -> [entry EXCEPT !.options = With(@, key, value)]

NumberKeys == {"TIMEOUT", "DEFAULT_ENTRY", "SERIAL_BAUDRATE"}

(* A global key: a number that does not parse is passed over. *)
SetGlobalKey(c, key, value) ==
  LET Set(v) == [c EXCEPT !.settings = With(@, key, v)]
      d == CASE key \in NumberKeys -> IF value \in NumberTexts THEN Set(value) ELSE c
             [] key \in {"THEME", "THEME_VARIANT"} -> Set(value)
             [] key = "EDITOR_ENABLED" -> Set(value \in Yes)
             [] key \in {"QUIET", "SERIAL", "VERBOSE"} -> Set(value = <<<<"lit", "yes">>>>)
             [] key = "HASH_MISMATCH_PANIC" -> Set(value # No)
             [] OTHER -> c
  IN  [d EXCEPT !.globals = With(@, key, value)]

(* parse_with_env before its first line: the defaults of Config. *)
ConfigIdle == cfg = [pc |-> "idle"]

ConfigInit ==
  \E file \in ConfigFiles, table \in SmbiosTables :
    cfg = [pc |-> "smbios", table |-> table, lines |-> file, i |-> 1,
           macros |-> BuiltIns, entries |-> <<>>, current |-> NoEntry, heads |-> 0,
           settings |-> [EDITOR_ENABLED |-> TRUE, HASH_MISMATCH_PANIC |-> TRUE], globals |-> <<>>,
           rows |-> <<>>]

DiscoverSmbios ==
  /\ cfg.pc = "smbios"
  /\ cfg' = IF ExtractPanics(cfg.table) THEN [cfg EXCEPT !.pc = "panic"]
            ELSE [cfg EXCEPT !.pc = "line", !.lines = MergeSmbios(ExtractSmbios(cfg.table), @)]

(* One iteration of the loop over the lines. *)
ParseLine ==
  LET line == cfg.lines[cfg.i]
      c    == [cfg EXCEPT !.i = @ + 1]
  IN  /\ cfg.pc = "line" /\ cfg.i <= Len(cfg.lines)
      /\ \/ line.kind = "skip" /\ cfg' = c
         \/ /\ line.kind = "macro"
            /\ cfg' = [c EXCEPT !.macros = With(@, line.name, ExpandMacros(line.value, @))]
         \/ /\ line.kind = "head"
            /\ cfg' = [c EXCEPT !.entries = PushEntry(@, cfg.current), !.heads = @ + 1,
                                !.current = NewEntry(cfg.heads + 1, line,
                                                     ExpandMacros(line.value, cfg.macros))]
         \/ /\ line.kind = "option"
            /\ LET value == ExpandMacros(line.value, cfg.macros)
               IN  cfg' = IF cfg.current # NoEntry
                          THEN [c EXCEPT !.current = SetEntryKey(@, line.key, value)]
                          ELSE SetGlobalKey(c, line.key, value)

(* flatten_recursive; MenuState::expanded is empty, as new makes it. *)
RECURSIVE Flatten(_, _)
Flatten(entries, depth) ==
  IF entries = <<>> THEN <<>>
  ELSE LET e == Head(entries)
       IN  <<[id |-> e.id, depth |-> depth]>>
             \o (IF e.children # <<>> /\ e.expanded THEN Flatten(e.children, depth + 1) ELSE <<>>)
             \o Flatten(Tail(entries), depth)

(* The last entry is flushed, and the menu drawn. *)
ParseEnd ==
  /\ cfg.pc = "line" /\ cfg.i > Len(cfg.lines)
  /\ LET entries == PushEntry(cfg.entries, cfg.current)
     IN  cfg' = [cfg EXCEPT !.pc = "done", !.entries = entries, !.current = NoEntry,
                            !.rows = Flatten(entries, 0)]

ConfigNext == DiscoverSmbios \/ ParseLine \/ ParseEnd

(***************************************************************************)
(* What the lines mean, read from all of them at once.                     *)
(***************************************************************************)
RECURSIVE TextAt(_, _, _)
(* The text of line i: a reference is the latest definition above it. *)
TextAt(lines, i, text) ==
  LET Above(name) == {j \in 1 .. i - 1 : lines[j].kind = "macro" /\ lines[j].name = name}
      Piece(p) == IF p[1] = "lit" THEN <<p>>
                  ELSE IF Above(p[2]) # {} THEN TextAt(lines, Max(Above(p[2])), lines[Max(Above(p[2]))].value)
                  ELSE IF p[2] \in DOMAIN BuiltIns THEN BuiltIns[p[2]]
                  ELSE <<p>>
  IN  FlattenSeq([k \in DOMAIN text |-> Piece(text[k])])

Value(lines, i) == TextAt(lines, i, lines[i].value)

Heads(lines) == {i \in DOMAIN lines : lines[i].kind = "head"}
HeadOf(lines, i) == Max({h \in Heads(lines) : h <= i} \cup {0})

(* The line that gives an entry or, for head 0, the whole, a key. *)
Givers(lines, head, keys) ==
  {i \in DOMAIN lines : lines[i].kind = "option" /\ lines[i].key \in keys /\ HeadOf(lines, i) = head}

RECURSIVE Preorder(_)
Preorder(entries) ==
  IF entries = <<>> THEN <<>>
  ELSE <<Head(entries)>> \o Preorder(Head(entries).children) \o Preorder(Tail(entries))

(* No head is more than one level below the head before it. *)
Levelled(lines) ==
  \A h \in Heads(lines) :
    LET before == {g \in Heads(lines) : g < h}
    IN  lines[h].depth <= 1 + (IF before = {} THEN 0 ELSE lines[Max(before)].depth)

(* The parsed configuration is what the lines say: every entry is there,   *)
(* in the order of the file; an entry without skipped levels hangs under   *)
(* the most recent entry one level up; a key belongs to the entry it       *)
(* stands in or to the whole; a macro is the latest definition above its   *)
(* use; a module string goes with the module before it; and the menu shows *)
(* exactly the entries below expanded ones.  Only a table with a structure *)
(* that runs past its end stops the parser.                                *)
ConfigMeans ==
  /\ cfg.pc = "panic" => \E i \in DOMAIN cfg.table : cfg.table[i].len = "past"
  /\ cfg.pc = "done" =>
    LET lines == cfg.lines
        all   == Preorder(cfg.entries)
        heads == SetToSortSeq(Heads(lines), <)
        Parents(e) == {p \in Range(all) : e.id \in {p.children[i].id : i \in DOMAIN p.children}}
        LastText(givers) == IF givers = {} THEN <<>> ELSE Value(lines, Max(givers))
    IN  /\ [i \in DOMAIN all |-> all[i].id] = [i \in DOMAIN heads |-> i]
        /\ \A i \in DOMAIN all :
             LET e == all[i]
                 h == heads[i]
                 mods == SetToSortSeq(Givers(lines, h, {"MODULE_PATH"}), <)
                 up == {j \in 1 .. i - 1 : lines[heads[j]].depth = lines[h].depth - 1}
             IN  /\ e.name = Value(lines, h)
                 /\ e.path = LastText(Givers(lines, h, {"PATH", "KERNEL_PATH"}))
                 /\ e.cmdline = LastText(Givers(lines, h, {"CMDLINE", "KERNEL_CMDLINE"}))
                 /\ Len(e.modules) = Len(mods)
                 /\ \A m \in DOMAIN mods :
                      /\ e.modules[m].path = Value(lines, mods[m])
                      /\ e.modules[m].string =
                           LastText({g \in Givers(lines, h, {"MODULE_STRING"}) :
                                       g > mods[m] /\ (m < Len(mods) => g < mods[m + 1])})
                 /\ Levelled(lines) =>
                      {p.id : p \in Parents(e)} = IF e.depth <= 1 THEN {} ELSE {Max(up)}
        /\ \A key \in NumberKeys :
             LET good == {g \in Givers(lines, 0, {key}) : Value(lines, g) \in NumberTexts}
             IN  IF good = {} THEN key \notin DOMAIN cfg.settings
                 ELSE cfg.settings[key] = Value(lines, Max(good))
        /\ [i \in DOMAIN cfg.rows |-> cfg.rows[i].id] =
             LET Shown(e) == \A p \in Range(all) :
                               e.id \in {Preorder(p.children)[k].id : k \in DOMAIN Preorder(p.children)}
                                 => p.expanded
                 shown == SelectSeq(all, Shown)
             IN  [i \in DOMAIN shown |-> shown[i].id]
=============================================================================
