------------------------------ MODULE UefiMenu ------------------------------
(***************************************************************************)
(* The boot menu of zamak-uefi/src/main.rs over MenuState of               *)
(* zamak-core/src/tui.rs.  One step is one iteration of the loop: a key is *)
(* polled, the countdown goes on or is cut off, and the key is acted on.   *)
(***************************************************************************)
EXTENDS Integers, Sequences

CONSTANTS
  Configs,      \* the configurations tried: [entries, timeout, hash]
  Word,         \* 2^64: u64 and usize arithmetic wraps in a release build
  TicksPerSecond,  \* 10: the countdown is in ticks of 100 ms
  MaxKeys       \* bound on the keys the user presses

VARIABLES
  pc,           \* where main is
  config,       \* Config
  time_remaining,
  state,        \* MenuState: selected_idx, editing, edit_buffer and editor_locked
  selected_idx, \* the local variable that decides what is booted
  keys          \* keys pressed so far

(* An entry of a parsed configuration, with what its kernel asks for. *)
EntryType ==
  [protocol : STRING, kernel : STRING, modules : Seq(STRING), requests : Seq(STRING), cmdline : STRING]

ASSUME ConfigsAssumption ==
  /\ Word \in Nat \ {0} /\ MaxKeys \in Nat /\ TicksPerSecond \in Nat
  /\ \A c \in Configs : c.entries \in Seq(EntryType) /\ c.timeout \in Nat /\ c.hash \in BOOLEAN

menuVars == <<config, time_remaining, state, selected_idx, keys>>

(* What UefiInput::read_key returns; the other special keys become None. *)
PressedKey == {"Up", "Down", "Enter", "Esc", "k", "j", "i", "other"}

Entry(idx) == config.entries[idx + 1]

NumEntries == Len(config.entries)

MenuInit ==
  /\ config \in Configs
  /\ time_remaining = 0
  /\ state = [selected_idx |-> 0, editing |-> FALSE, edit_buffer |-> <<>>, editor_locked |-> FALSE]
  /\ selected_idx = 0
  /\ keys = 0

(* MenuState::new or new_locked, and the countdown in ticks. *)
OpenMenu ==
  /\ time_remaining' = (config.timeout * TicksPerSecond) % Word
  /\ state' = [selected_idx |-> 0, editing |-> FALSE, edit_buffer |-> <<>>,
               editor_locked |-> config.hash]
  /\ selected_idx' = 0
  /\ UNCHANGED <<config, keys>>

(* MUTANT of PollNone: the end is tested only where a tick is taken off,   *)
(* so that a menu stopped by a key, or without a countdown, waits.         *)
PollNoneWaits ==
  LET left == IF time_remaining > 0 THEN time_remaining - 1 ELSE 0
  IN  /\ pc = "menu"
      /\ time_remaining' = left
      /\ pc' = IF time_remaining > 0 /\ left = 0 THEN "select" ELSE "menu"
      /\ UNCHANGED <<config, state, selected_idx, keys>>

(* No key: a tick passes, and the loop ends with the countdown. *)
PollNone ==
  LET left == IF time_remaining > 0 THEN time_remaining - 1 ELSE 0
  IN  /\ pc = "menu"
      /\ time_remaining' = left
      /\ pc' = IF left = 0 THEN "select" ELSE "menu"
      /\ UNCHANGED <<config, state, selected_idx, keys>>

(* MUTANT of LastIndex: the number of entries. *)
LastIndexPast == NumEntries % Word

(* entries.len() - 1 wraps when there are no entries. *)
LastIndex == (NumEntries - 1) % Word

KeyUp == IF state.selected_idx > 0 THEN [state EXCEPT !.selected_idx = @ - 1] ELSE state

KeyDown ==
  IF state.selected_idx < LastIndex THEN [state EXCEPT !.selected_idx = @ + 1] ELSE state

(* Opening the editor indexes the entries; the lock is not looked at. *)
ToggleEditor ==
  [state EXCEPT !.editing = ~@,
                !.edit_buffer = IF state.editing THEN @ ELSE <<Entry(state.selected_idx).cmdline>>]

PollKey(key) ==
  /\ pc = "menu"
  /\ keys < MaxKeys
  /\ keys' = keys + 1
  /\ time_remaining' = 0
  /\ \/ /\ key \in {"Up", "k"}
        /\ state' = KeyUp
        /\ UNCHANGED <<pc, selected_idx>>
     \/ /\ key \in {"Down", "j"}
        /\ state' = KeyDown
        /\ UNCHANGED <<pc, selected_idx>>
     \/ /\ key = "i"
        /\ ~state.editing /\ state.selected_idx >= NumEntries
        /\ pc' = "panicked"
        /\ UNCHANGED <<state, selected_idx>>
     \/ /\ key = "i"
        /\ state.editing \/ state.selected_idx < NumEntries
        /\ state' = ToggleEditor
        /\ UNCHANGED <<pc, selected_idx>>
     \/ /\ key = "other"
        /\ state' = IF state.editing THEN [state EXCEPT !.edit_buffer = Append(@, key)] ELSE state
        /\ UNCHANGED <<pc, selected_idx>>
     \/ /\ key = "Esc" \/ (key = "Enter" /\ state.editing)
        /\ state' = [state EXCEPT !.editing = FALSE]
        /\ UNCHANGED <<pc, selected_idx>>
     \/ /\ key = "Enter" /\ ~state.editing
        /\ selected_idx' = state.selected_idx
        /\ pc' = "select"
        /\ UNCHANGED state
  /\ UNCHANGED config

MenuStep == PollNone \/ \E key \in PressedKey : PollKey(key)
=============================================================================
