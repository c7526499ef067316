------------------------------- MODULE MainLoop -------------------------------
(***************************************************************************)
(* The firmware's main loop against its watchdog: main.c, with what each   *)
(* command's handler in pico_protocol.c makes it wait for and where it     *)
(* feeds the watchdog meanwhile.                                           *)
(*                                                                         *)
(* Time is counted in ticks of 50 ms, a duration rounded up.  It passes    *)
(* where the code waits, and among the commands that wait for nothing      *)
(* (each takes microseconds, but nothing limits their number).  What the   *)
(* commands do to the target's TAP is in JtagProbe; how they are read from *)
(* the ring is in SpscRing and ProtocolParser; what a full endpoint does   *)
(* in BulkIn.  Here a command is taken when the main loop asks for one.    *)
(***************************************************************************)
EXTENDS Integers, Sequences

CONSTANTS Hz,         \* what SET_CLOCK may ask for
          Scans,      \* the lengths of SHIFT_DATA
          Runs,       \* the runs of equal bits of WRITE_TMS, a sequence each
          ResetMs,    \* what RESET_HARD may ask for
          UartPiece   \* ticks of 32 bytes at the slowest rate a terminal sets
                      \* that is not below 280 baud

TickUs == 50000
Ticks(us) == (us + TickUs - 1) \div TickUs

Window == Ticks(2000000)    \* watchdog_enable(2000, true)
SendWait == Ticks(50000)    \* the deadline of cdc_send and uart_cdc_send
Slice == Ticks(100000)      \* of RESET_HARD
MaxBits == 8176             \* of jtag_bb_write_read

FeedBits == 1024            \* (bit & 0x3FF) == 0x3FF

\* So many bits at the slowest clock handle_set_clock accepts.
Piece == Ticks(2 * 500 * FeedBits)

\* The longest reset pulse.
MaxPulse == Ticks(5000000)

\* Lengths of consecutive calls of jtag_bb_write_read.
Calls == Seq(1..MaxBits)

ASSUME LoopAssumption ==
    /\ Hz \subseteq Nat /\ Scans \subseteq 1..MaxBits /\ Runs \subseteq Calls
    /\ ResetMs \subseteq Nat
    /\ UartPiece \in 0..Slice + Piece

VARIABLES pc,
          gap,        \* ticks since the watchdog was fed or enabled
          left,       \* ticks to go in the present wait
          calls,      \* bits to go in jtag_bb_write_read, and in the calls of it to follow
          rest,       \* ticks of us_remaining after the present slice
          packets,    \* of the answer, or of what the UART is given, yet to be sent
          khz, nrst,  \* s_freq_khz; the reset pin
          unfed, lowFor, asked   \* history: ticks of gap in which nothing is fed; the reset pulse

work == <<left, calls, rest, packets>>
history == <<unfed, lowFor, asked>>
vars == <<pc, gap, work, khz, nrst, history>>

TypeOK == /\ pc \in {"enumerate", "top", "rx", "shift", "reset", "answer", "uart", "usb"}
          /\ gap \in 0..Window /\ unfed \in 0..Window
          /\ left \in Nat /\ calls \in Calls /\ rest \in Nat /\ packets \in Nat
          /\ khz \in Nat \ {0} /\ nrst \in {0, 1}
          /\ lowFor \in Nat /\ asked \in Nat

\* main, until the loop.  The watchdog is not enabled yet.
Init == /\ pc = "enumerate" /\ gap = 0
        /\ left = 0 /\ calls = << >> /\ rest = 0 /\ packets = 0
        /\ khz = 4000 /\ nrst = 1
        /\ unfed = 0 /\ lowFor = 0 /\ asked = 0

----------------------------------------------------------------------------

Alive == gap < Window

watchdog_update == gap' = 0 /\ unfed' = 0

\* The host configures the device, or 15 s have passed.
Enumerated == /\ pc = "enumerate" /\ pc' = "top"
              /\ watchdog_update
              /\ UNCHANGED <<work, khz, nrst, lowFor, asked>>

Top == /\ pc = "top" /\ Alive /\ pc' = "rx"
       /\ watchdog_update
       /\ UNCHANGED <<work, khz, nrst, lowFor, asked>>

----------------------------------------------------------------------------
(* A frame has been accepted, and dispatch calls its handler. *)

\* Packets of a response with n bytes of data.
Packets(n) == (5 + n + 63) \div 64

\* send_resp_simple, send_resp_data: cdc_send begins.
Answer(n) == /\ pc' = "answer" /\ packets' = Packets(n) /\ left' = SendWait
             /\ UNCHANGED <<gap, calls, rest, nrst, history>>

\* The commands that wait for nothing, with the bytes of their answer.
DataOf == [ping |-> 0, set_trst |-> 0, read_vref |-> 2, get_version |-> 16,
           get_status |-> 4, set_led |-> 0, get_hw_version |-> 4, get_clock |-> 4,
           select_if |-> 0, set_tms |-> 0, get_pin_state |-> 1, pio_diag |-> 24,
           sw_jtag_idcode |-> 4]

Quick(c) == Answer(DataOf[c]) /\ UNCHANGED khz

\* A command nobody knows, or with too short a payload, or a length out of range.
send_resp_error == Answer(0) /\ UNCHANGED khz

handle_set_clock(hz) == IF hz < 1000 THEN send_resp_error ELSE Answer(0) /\ khz' = hz \div 1000

\* Semi-period of TCK in microseconds.
half_period_us == IF 500 \div khz = 0 THEN 1 ELSE 500 \div khz

Smaller(a, b) == IF a < b THEN a ELSE b

\* Fault: the watchdog is not fed inside a call.
ClockWhole(n) == Ticks(2 * half_period_us * n)

\* Ticks of the clocks before the next feeding: the watchdog is fed after FeedBits
\* bits, and when the call has done its n.
Clock(n) == Ticks(2 * half_period_us * Smaller(n, FeedBits))

\* jtag_bb_write_read is called once for each length in s.
Shift(s, n) == /\ pc' = "shift" /\ calls' = s /\ packets' = Packets(n)
               /\ left' = Clock(Head(s))
               /\ UNCHANGED <<gap, rest, khz, nrst, history>>

handle_reset_tap == Shift(<<5, 1>>, 0)

handle_write_tms(runs) == IF runs = << >> THEN Answer(0) /\ UNCHANGED khz ELSE Shift(runs, 0)

\* With exit_shift the last bit is a call of its own.
handle_shift_data(n, exit_shift) ==
    Shift(IF ~exit_shift THEN <<n>> ELSE IF n = 1 THEN <<1>> ELSE <<n - 1, 1>>, (n + 7) \div 8)

\* Fault: the whole pulse is one wait.
ResetUnsliced(ms) ==
    LET t == Ticks(1000 * (IF ms = 0 THEN 10 ELSE Smaller(ms, 5000)))
    IN  /\ pc' = "reset" /\ nrst' = 0
        /\ watchdog_update
        /\ left' = t /\ rest' = 0
        /\ lowFor' = 0 /\ asked' = t
        /\ UNCHANGED <<calls, packets, khz>>

\* The pulse of nRST begins, with its first slice.
handle_reset_hard(ms) ==
    LET t == Ticks(1000 * (IF ms = 0 THEN 10 ELSE Smaller(ms, 5000)))
    IN  /\ pc' = "reset" /\ nrst' = 0
        /\ watchdog_update
        /\ left' = Smaller(t, Slice) /\ rest' = t - Smaller(t, Slice)
        /\ lowFor' = 0 /\ asked' = t
        /\ UNCHANGED <<calls, packets, khz>>

dispatch == /\ pc = "rx" /\ Alive
            /\ \/ \E c \in DOMAIN DataOf : Quick(c)
               \/ send_resp_error
               \/ \E hz \in Hz : handle_set_clock(hz)
               \/ handle_reset_tap
               \/ \E runs \in Runs : handle_write_tms(runs)
               \/ \E n \in Scans, exit_shift \in BOOLEAN : handle_shift_data(n, exit_shift)
               \/ \E ms \in ResetMs : handle_reset_hard(ms)

----------------------------------------------------------------------------
(* What the handlers wait for *)

\* FeedBits bits, or those that were left, have been clocked.
jtag_bb_write_read ==
    /\ pc = "shift" /\ left = 0 /\ Alive
    /\ watchdog_update
    /\ LET n == Head(calls) - Smaller(Head(calls), FeedBits)
           s == IF n = 0 THEN Tail(calls) ELSE <<n>> \o Tail(calls)
       IN  /\ calls' = s
           /\ IF s = << >> THEN pc' = "answer" /\ left' = SendWait
                           ELSE pc' = pc /\ left' = Clock(Head(s))
    /\ UNCHANGED <<rest, packets, khz, nrst, lowFor, asked>>

\* A slice of the reset pulse has passed.
SliceDone ==
    /\ pc = "reset" /\ left = 0 /\ Alive
    /\ IF rest > 0
       THEN /\ watchdog_update
            /\ left' = Smaller(rest, Slice) /\ rest' = rest - Smaller(rest, Slice)
            /\ UNCHANGED <<pc, packets, nrst, lowFor, asked>>
       ELSE /\ pc' = "answer" /\ packets' = Packets(0) /\ left' = SendWait
            /\ nrst' = 1
            /\ UNCHANGED <<rest, gap, history>>
    /\ UNCHANGED <<calls, khz>>

\* cdc_send: the endpoint is free, and the next packet is armed; or the device
\* is not configured, or the endpoint has been busy too long.
cdc_send ==
    /\ pc = "answer" /\ Alive
    /\ \E p \in {packets - 1, 0} :
         /\ packets' = p
         /\ IF p = 0 THEN pc' = "rx" /\ left' = 0 ELSE pc' = pc /\ left' = SendWait
    /\ UNCHANGED <<gap, calls, rest, khz, nrst, history>>

----------------------------------------------------------------------------
(* The serial bridge *)

\* The ring of commands is empty.  At most 64 bytes are there for the UART.
uart_bridge_task ==
    /\ pc = "rx" /\ Alive
    /\ \E pieces \in 0..2 :
         /\ packets' = pieces
         /\ pc' = "uart"
    /\ left' = 0
    /\ UNCHANGED <<gap, calls, rest, khz, nrst, history>>

\* The watchdog is fed before each 32 bytes; then their room in the FIFO is
\* waited for.
uart_driver_send ==
    /\ pc = "uart" /\ left = 0 /\ Alive
    /\ IF packets = 0
       THEN pc' = "usb" /\ left' = SendWait /\ UNCHANGED <<gap, unfed, packets>>
       ELSE /\ watchdog_update
            /\ packets' = packets - 1 /\ left' = UartPiece /\ pc' = pc
    /\ UNCHANGED <<calls, rest, khz, nrst, lowFor, asked>>

\* What the UART received is armed, or given up, or there was nothing.
uart_cdc_send == /\ pc = "usb" /\ Alive /\ pc' = "top"
                 /\ left' = 0
                 /\ UNCHANGED <<gap, calls, rest, packets, khz, nrst, history>>

----------------------------------------------------------------------------
(* Time *)

Tick == /\ pc # "enumerate" /\ Alive
        /\ pc # "rx" => left > 0
        /\ gap' = gap + 1
        /\ left' = IF pc = "rx" THEN left ELSE left - 1
        /\ unfed' = IF pc \in {"rx", "answer", "usb"} THEN unfed + 1 ELSE unfed
        /\ lowFor' = IF pc = "reset" THEN lowFor + 1 ELSE lowFor
        /\ UNCHANGED <<pc, calls, rest, packets, khz, nrst, asked>>

\* The watchdog has not been fed in time: the chip starts again.
Bite == /\ gap = Window
        /\ pc' = "enumerate" /\ gap' = 0
        /\ left' = 0 /\ calls' = << >> /\ rest' = 0 /\ packets' = 0
        /\ khz' = 4000 /\ nrst' = 1
        /\ unfed' = 0 /\ lowFor' = 0 /\ asked' = 0

Next == \/ Enumerated \/ Top \/ dispatch
        \/ jtag_bb_write_read \/ SliceDone \/ cdc_send
        \/ uart_bridge_task \/ uart_driver_send \/ uart_cdc_send
        \/ Tick \/ Bite

Spec == Init /\ [][Next]_vars

----------------------------------------------------------------------------
(* Properties *)

\* A shift of any length, a reset pulse of any length, a chunk for a slow UART
\* cannot starve the watchdog by themselves: it bites only after commands that
\* do not feed it, or answers that nobody read, have used up the rest of the window.
BitesOnlyUnfed == gap = Window => unfed >= Window - (Slice + Piece)

\* By how much gap exceeds what was not fed, in each phase.
GapInv == /\ unfed <= gap
          /\ pc = "enumerate" => gap = 0
          /\ pc \in {"rx", "answer"} => gap <= unfed + Slice
          /\ pc = "shift" => left <= Piece /\ gap + left <= unfed + Slice + Piece
          /\ pc = "reset" => gap + left <= Slice
          /\ pc = "uart" => gap + left <= unfed + Slice + Piece
          /\ pc \in {"usb", "top"} => gap <= unfed + Slice + Piece
          /\ pc \in {"enumerate", "top"} => left = 0

\* The reset pin is low during the pulse alone, and what has passed of the pulse
\* and what is to come of it are what was asked.
PulseInv == IF pc = "reset"
            THEN nrst = 0 /\ lowFor + left + rest = asked /\ asked \in 1..MaxPulse
            ELSE nrst = 1

\* There is something to clock and something to send.
WorkInv == /\ pc = "shift" => calls # << >>
           /\ pc \in {"shift", "answer"} => packets > 0

LoopInv == TypeOK /\ GapInv /\ PulseInv /\ WorkInv

\* nRST is let go after the time asked for: not before, for a watchdog that
\* bit, and not after.
PulseAsAsked == [][nrst = 0 /\ nrst' = 1 => lowFor = asked /\ asked \in 1..MaxPulse]_vars
=============================================================================
