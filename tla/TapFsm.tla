-------------------------------- MODULE TapFsm --------------------------------
(***************************************************************************)
(* The TAP controller of IEEE 1149.1, twice: the table of                  *)
(* jtag_tap_track.c, by which the DLL follows the target, and the target   *)
(* itself, written from the standard's two identical columns.              *)
(***************************************************************************)
EXTENDS Naturals, SequencesExt

next_state == [
    RESET      |-> <<"IDLE",       "RESET">>,
    IDLE       |-> <<"IDLE",       "SELECT_DR">>,
    SELECT_DR  |-> <<"CAPTURE_DR", "SELECT_IR">>,
    CAPTURE_DR |-> <<"SHIFT_DR",   "EXIT1_DR">>,
    SHIFT_DR   |-> <<"SHIFT_DR",   "EXIT1_DR">>,
    EXIT1_DR   |-> <<"PAUSE_DR",   "UPDATE_DR">>,
    PAUSE_DR   |-> <<"PAUSE_DR",   "EXIT2_DR">>,
    EXIT2_DR   |-> <<"SHIFT_DR",   "UPDATE_DR">>,
    UPDATE_DR  |-> <<"IDLE",       "SELECT_DR">>,
    SELECT_IR  |-> <<"CAPTURE_IR", "RESET">>,
    CAPTURE_IR |-> <<"SHIFT_IR",   "EXIT1_IR">>,
    SHIFT_IR   |-> <<"SHIFT_IR",   "EXIT1_IR">>,
    EXIT1_IR   |-> <<"PAUSE_IR",   "UPDATE_IR">>,
    PAUSE_IR   |-> <<"PAUSE_IR",   "EXIT2_IR">>,
    EXIT2_IR   |-> <<"SHIFT_IR",   "UPDATE_IR">>,
    UPDATE_IR  |-> <<"IDLE",       "SELECT_DR">>]

TapState == DOMAIN next_state
Shifting == {"SHIFT_DR", "SHIFT_IR"}

Follow(s, tms) == next_state[s][tms + 1]

\* The state after the bits of a word, by a one-bit rule.
Walk(Rule(_, _), s, word) ==
    LET at[k \in 0..Len(word)] == IF k = 0 THEN s ELSE Rule(at[k - 1], word[k])
    IN  at[Len(word)]

\* tap_track_tms: s_state after the bits of pTMS.
tap_track_tms(s, word) == Walk(Follow, s, word)

-------------------------------------------------------------------------------
(* The target.  A column of the diagram is Select, Capture, Shift, Exit1,  *)
(* Pause, Exit2, Update; only what Select leads to on a one differs.       *)

Column == {<<"SELECT_DR", "CAPTURE_DR", "SHIFT_DR", "EXIT1_DR", "PAUSE_DR", "EXIT2_DR", "UPDATE_DR">>,
           <<"SELECT_IR", "CAPTURE_IR", "SHIFT_IR", "EXIT1_IR", "PAUSE_IR", "EXIT2_IR", "UPDATE_IR">>}

\* On a zero, the row reached from each row; Select on a one is left out.
Zero == <<2, 3, 3, 5, 5, 3>>
One  == <<0, 4, 4, 7, 6, 7>>

Diagram(s, tms) ==
    IF \E c \in Column, r \in 1..6 : s = c[r] /\ (tms = 0 \/ r > 1)
    THEN LET c == CHOOSE col \in Column : s \in ToSet(col)
             r == CHOOSE row \in 1..6 : s = c[row]
         IN  c[IF tms = 0 THEN Zero[r] ELSE One[r]]
    ELSE IF tms = 0 THEN "IDLE"
    ELSE CASE s = "SELECT_DR" -> "SELECT_IR"
           [] s \in {"SELECT_IR", "RESET"} -> "RESET"
           [] OTHER -> "SELECT_DR"

Edge == [s \in TapState |-> [tms \in {0, 1} |-> Diagram(s, tms)]]

Target(s, tms) == Edge[s][tms]
===============================================================================
