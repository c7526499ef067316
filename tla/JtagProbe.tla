------------------------------ MODULE JtagProbe ------------------------------
(***************************************************************************)
(* The JTAG commands of the firmware (pico_protocol.c, jtag_tap.c,         *)
(* jtag_bb.c), each as its effect on p = [tap, tms, trst]: the target's    *)
(* TAP, the level the TMS pin is left at, and the level of nTRST.  What    *)
(* TDI and TDO carry is the business of ScanChain.                         *)
(***************************************************************************)
EXTENDS TapFsm

CONSTANT MaxShift   \* 8176 in handle_shift_data and jtag_bb_write_read

ASSUME MaxShiftAssumption == MaxShift \in Nat \ {0}

Probe == [tap : TapState, tms : {0, 1}, trst : {0, 1}]

\* jtag_bb_init: TMS and nTRST are driven high, TCK is low.
jtag_bb_init(tap) == [tap |-> tap, tms |-> 1, trst |-> 1]

jtag_tap_set_tms(p, level) == [p EXCEPT !.tms = level]

\* A rising edge of TCK; while nTRST is low the TAP stays in Test-Logic-Reset.
Pulse(p) == [p EXCEPT !.tap = IF p.trst = 0 THEN "RESET" ELSE Target(p.tap, p.tms)]

\* pulse_tck and the loop of jtag_bb_write_read.  TMS does not move, and from the
\* fifth pulse at one level on neither does the TAP.
Pulses(p, n) ==
    LET at[k \in 0..5] == IF k = 0 THEN p ELSE Pulse(at[k - 1])
    IN  at[IF n > 5 THEN 5 ELSE n]

\* Fault: Test-Logic-Reset is taken to be four ones away from anywhere.
ResetInFour(p) ==
    Pulses(jtag_tap_set_tms(Pulses(jtag_tap_set_tms(p, 1), 4), 0), 1)

jtag_tap_reset(p) ==
    Pulses(jtag_tap_set_tms(Pulses(jtag_tap_set_tms(p, 1), 5), 0), 1)

\* The runs of equal bits of handle_write_tms are pulses at the same level.
Clock(p, b) == Pulse(jtag_tap_set_tms(p, b))
handle_write_tms(p, word) == Walk(Clock, p, word)

\* Nothing in a shift lowers TMS; exit raises it for the last bit, and it stays up.
jtag_bb_write_read_exit(p, n, exit) ==
    IF exit THEN Pulse(jtag_tap_set_tms(Pulses(p, n - 1), 1)) ELSE Pulses(p, n)

\* Answered by RESP_ERROR, with nothing done.
ShiftRefused(n) == n = 0 \/ n > MaxShift

\* The low level resets the TAP without a clock.
handle_set_trst(p, level) ==
    IF level = 0 THEN [p EXCEPT !.trst = 0, !.tap = "RESET"] ELSE [p EXCEPT !.trst = 1]

\* Six ones, then to Shift-DR, where the 32 clocks of the IDCODE leave it.
jtag_bb_read_idcode(p) ==
    Pulses(handle_write_tms(p, <<1, 1, 1, 1, 1, 1, 0, 1, 0, 0>>), 32)
===============================================================================
