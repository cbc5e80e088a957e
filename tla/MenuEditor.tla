----------------------------- MODULE MenuEditor -----------------------------
(***************************************************************************)
(* The editor of the boot menu: MenuState and handle_editor_key of         *)
(* zamak-core/src/tui.rs, with the event loop of zamak-uefi/src/main.rs    *)
(* opening and closing it.                                                 *)
(***************************************************************************)
EXTENDS Integers, Sequences

CONSTANTS
  Cmdlines,    \* the command lines of the entries the editor is opened on
  Chars,       \* the characters typed
  MaxBuffer,   \* the longest buffer typed
  Refused(_)   \* what the validator calls an error

VARIABLE ed

(* MenuState::new, new_locked and with_validator; `typed` marks a buffer   *)
(* that was changed since the editor was opened.                           *)
EditorIdle == ed = [pc |-> "idle"]

EditorInit ==
  \E locked, validator \in BOOLEAN :
    ed = [pc |-> "menu", editing |-> FALSE, buffer |-> <<>>, locked |-> locked,
          validator |-> validator, diagnostic |-> "none", boot |-> FALSE, typed |-> FALSE]

(* The loop: Edit toggles the editor, locked or not. *)
ToggleEditor ==
  /\ ed.pc = "menu" /\ ~ed.boot
  /\ \/ ed.editing /\ ed' = [ed EXCEPT !.editing = FALSE]
     \/ /\ ~ed.editing
        /\ \E c \in Cmdlines : ed' = [ed EXCEPT !.editing = TRUE, !.buffer = c, !.typed = FALSE]

(* MUTANT of Revalidate: only a buffer that grew is validated. *)
RevalidateGrown(e, buffer) ==
  [e EXCEPT !.buffer = buffer, !.typed = TRUE,
            !.diagnostic = IF e.validator /\ Len(buffer) > Len(e.buffer)
                           THEN (IF Refused(buffer) THEN "error" ELSE "ok") ELSE @]

Revalidate(e, buffer) ==
  [e EXCEPT !.buffer = buffer, !.typed = TRUE,
            !.diagnostic = IF e.validator THEN (IF Refused(buffer) THEN "error" ELSE "ok") ELSE @]

(* handle_editor_key *)
HandleEditorKey ==
  /\ ed.pc = "menu" /\ ed.editing /\ ~ed.locked /\ ~ed.boot
  /\ \/ ed' = [ed EXCEPT !.editing = FALSE, !.buffer = <<>>, !.diagnostic = "none"]  \* Esc
     \/ /\ ed.diagnostic # "error"                                                   \* F10
        /\ ed' = [ed EXCEPT !.boot = TRUE, !.editing = FALSE]
     \/ ed' = Revalidate(ed, SubSeq(ed.buffer, 1, Len(ed.buffer) - 1))               \* Backspace
     \/ /\ Len(ed.buffer) < MaxBuffer
        /\ \E c \in Chars : ed' = Revalidate(ed, Append(ed.buffer, c))

EditorNext == ToggleEditor \/ HandleEditorKey

(* The comment of handle_editor_key: F10 commits on a non-Error            *)
(* diagnostic.  Whatever was typed, deleted, closed and opened again       *)
(* before, a typed buffer that is committed is one the validator accepts,  *)
(* and a locked editor commits nothing.                                    *)
CommitsOnlyValidated ==
  ed.pc = "menu" /\ ed.boot =>
    ~ed.locked /\ (ed.validator /\ ed.typed => ~Refused(ed.buffer))
=============================================================================
