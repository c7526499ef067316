---------------------------- MODULE ProtocolParser ----------------------------
(***************************************************************************)
(* protocol_feed of pico_protocol.c, the byte-by-byte parser of command    *)
(* frames, run by the main loop, and protocol_reset, which the bus-reset   *)
(* interrupt calls at any moment.  Neither masks the other and the         *)
(* parser's variables are plain statics, so protocol_feed is one action    *)
(* per statement, in program order, with the load and the store of `x OP=' *)
(* apart.  Where the code uses a variable it has just loaded or stored,    *)
(* the build may use its register or read the variable again: either       *)
(* value.                                                                  *)
(*                                                                         *)
(* Time is counted in ticks; a 64-bit stamp that a reset tears lies        *)
(* between the two the reset may leave, and is as late, or as early, as    *)
(* one of them.  race is history: "struck" when a reset came after         *)
(* protocol_feed had loaded a state in the middle of a frame, "stuck" when *)
(* the time stamp has been set since, so that the next byte does not put   *)
(* the parser right, "none" otherwise.                                     *)
(***************************************************************************)
EXTENDS Naturals, Sequences

CONSTANTS Radix,       \* values of a byte (256 in the device)
          Start,       \* PROTO_START
          MaxPayload,  \* MAX_PAYLOAD
          Crc,         \* crc8_byte as a table
          Timeout,     \* PARSER_TIMEOUT_US in ticks
          MaxNow       \* bound: ticks considered

Byte == 0..(Radix - 1)

ASSUME RadixAssumption == Radix \in Nat /\ Radix >= 2
ASSUME StartAssumption == Start \in Byte
ASSUME PayloadAssumption == MaxPayload \in Nat \ {0}
ASSUME CrcAssumption == Crc \in [Byte \X Byte -> Byte]
ASSUME TimeAssumption == Timeout \in Nat /\ MaxNow \in Nat

VARIABLES state, cmd, len, recv, crc, last,   \* s_state .. s_last_byte_us
          payload,                            \* s_payload
          now,                                \* time_us_64()
          pc,                                 \* next statement of protocol_feed
          branch,                             \* s_state as loaded, the case chosen
          byte, t,                            \* byte and now of protocol_feed
          r, c,                               \* registers
          verdict,                            \* what this byte made of the frame
          race

parser == <<state, cmd, len, recv, crc, last>>
locals == <<branch, byte, t, r, c>>
vars == <<parser, payload, now, pc, locals, verdict, race>>

States == {"start", "cmd", "len_lo", "len_hi", "payload", "crc"}
Lengths == 0..(Radix * Radix - 1)
Pc == {"idle", "check", "judge", "stamp", "switch", "body", "put", "crc_load", "crc_store",
       "test", "clear", "count", "full", "state", "error", "handler", "restart"}
Payload == [0..(MaxPayload - 1) -> Byte]
Verdict == [kind : {"none", "error"}]
             \cup [kind : {"frame"}, frame : [cmd : Byte, payload : Seq(Byte)]]

TypeOK == /\ state \in States /\ branch \in States
          /\ cmd \in Byte /\ byte \in Byte /\ crc \in Byte /\ c \in Byte
          /\ len \in Lengths
          /\ recv \in 0..MaxPayload
          /\ last \in 0..MaxNow /\ now \in 0..MaxNow /\ t \in 0..MaxNow
          /\ payload \in Payload
          /\ pc \in Pc
          /\ r \in Nat
          /\ verdict \in Verdict
          /\ race \in {"none", "struck", "stuck"}

Init == /\ state = "start" /\ cmd = 0 /\ len = 0 /\ recv = 0 /\ crc = 0 /\ last = 0
        /\ payload = [i \in 0..(MaxPayload - 1) |-> 0]
        /\ now = 0
        /\ pc = "idle" /\ branch = "start" /\ byte = 0 /\ t = 0 /\ r = 0 /\ c = 0
        /\ verdict = [kind |-> "none"]
        /\ race = "none"

Goto(l) == pc' = l
\* The registers and locals are dead when protocol_feed has returned.
Return == /\ pc' = "idle"
          /\ branch' = "start" /\ byte' = 0 /\ t' = 0 /\ r' = 0 /\ c' = 0

----------------------------------------------------------------------------
(* Environment: time and the bus reset *)

Tick == /\ now < MaxNow
        /\ now' = now + 1
        /\ UNCHANGED <<parser, payload, pc, locals, verdict, race>>

\* Between two bytes a reset does no harm, nor before the switch if ST_WAIT_START
\* has been loaded: that case relies on nothing.
Strikes == IF pc \in {"idle", "check", "judge", "stamp", "switch"} /\ branch = "start" THEN "none"
           ELSE IF pc \in {"judge", "stamp"} THEN "stuck"
           ELSE "struck"

\* Fault: the time stamp survives the reset.
ResetKeepsTime ==
    /\ state' = "start" /\ recv' = 0 /\ len' = 0 /\ crc' = 0
    /\ race' = Strikes
    /\ UNCHANGED <<cmd, last, payload, now, pc, locals, verdict>>

\* protocol_reset; s_cmd and the payload keep what they had.
Reset == /\ state' = "start" /\ recv' = 0 /\ len' = 0 /\ crc' = 0 /\ last' = 0
         /\ race' = Strikes
         /\ UNCHANGED <<cmd, payload, now, pc, locals, verdict>>

----------------------------------------------------------------------------
(* protocol_feed *)

Feed(b) == /\ pc = "idle"
           /\ byte' = b
           /\ Goto("check")
           /\ UNCHANGED <<parser, payload, now, branch, t, r, c, verdict, race>>

\* The load of s_state.
Check == /\ pc = "check"
         /\ t' = now
         /\ branch' = state
         /\ Goto("judge")
         /\ UNCHANGED <<parser, payload, now, byte, r, c, verdict, race>>

\* A frame left unfinished for too long is given up.
Stalled == branch # "start" /\ t - last > Timeout

Judge == /\ pc = "judge"
         /\ IF Stalled THEN state' = "start" /\ branch' = "start" ELSE UNCHANGED <<state, branch>>
         /\ race' = IF race = "none" \/ branch' = "start" THEN "none" ELSE "stuck"
         /\ Goto("stamp")
         /\ UNCHANGED <<cmd, len, recv, crc, last, payload, now, byte, t, r, c, verdict>>

Stamp == /\ pc = "stamp"
         /\ last' = t
         /\ Goto("switch")
         /\ UNCHANGED <<state, cmd, len, recv, crc, payload, now, locals, verdict, race>>

\* If a reset has come since the load, s_state read again is ST_WAIT_START, and the
\* reset has done no harm.
Switch == /\ pc = "switch"
          /\ branch' \in {branch, state}
          /\ race' = IF branch' = "start" THEN "none" ELSE race
          /\ Goto("body")
          /\ UNCHANGED <<parser, payload, now, byte, t, r, c, verdict>>

In(l, b) == pc = l /\ branch = b

\* Fault: the checksum goes on from the frame before.
WaitStartNoSeed == /\ In("body", "start")
                   /\ \/ /\ byte = Start
                         /\ crc' = Crc[<<crc, byte>>]
                         /\ Goto("state")
                         /\ UNCHANGED locals
                      \/ /\ byte # Start
                         /\ Return
                         /\ UNCHANGED crc
                   /\ UNCHANGED <<state, cmd, len, recv, last, payload, now, verdict, race>>

\* case ST_WAIT_START
WaitStart == /\ In("body", "start")
             /\ \/ /\ byte = Start
                   /\ crc' = Crc[<<0, byte>>]
                   /\ Goto("state")
                   /\ UNCHANGED locals
                \/ /\ byte # Start
                   /\ Return
                   /\ UNCHANGED crc
             /\ UNCHANGED <<state, cmd, len, recv, last, payload, now, verdict, race>>

\* case ST_WAIT_CMD, first statement
WaitCmd == /\ In("body", "cmd")
           /\ cmd' = byte
           /\ Goto("crc_load")
           /\ UNCHANGED <<state, len, recv, crc, last, payload, now, locals, verdict, race>>

\* case ST_WAIT_LEN_LO, first statement
WaitLenLo == /\ In("body", "len_lo")
             /\ len' = byte
             /\ Goto("crc_load")
             /\ UNCHANGED <<state, cmd, recv, crc, last, payload, now, locals, verdict, race>>

\* case ST_WAIT_LEN_HI: s_len |= byte << 8
LoadLen == /\ In("body", "len_hi")
           /\ r' = len
           /\ Goto("put")
           /\ UNCHANGED <<parser, payload, now, branch, byte, t, c, verdict, race>>

StoreLen == /\ In("put", "len_hi")
            /\ r' = (r % Radix) + Radix * byte
            /\ len' = r'
            /\ Goto("crc_load")
            /\ UNCHANGED <<state, cmd, recv, crc, last, payload, now, branch, byte, t, c,
                           verdict, race>>

\* case ST_RECV_PAYLOAD: s_payload[s_recv] = byte
LoadRecv == /\ In("body", "payload")
            /\ r' = recv
            /\ Goto("put")
            /\ UNCHANGED <<parser, payload, now, branch, byte, t, c, verdict, race>>

StorePayload == /\ In("put", "payload")
                /\ payload' = [payload EXCEPT ![r] = byte]
                /\ Goto("crc_load")
                /\ UNCHANGED <<parser, now, locals, verdict, race>>

\* s_crc_acc = crc8_byte(s_crc_acc, byte), in four of the cases
CrcLoad == /\ pc = "crc_load"
           /\ c' = crc
           /\ Goto("crc_store")
           /\ UNCHANGED <<parser, payload, now, branch, byte, t, r, verdict, race>>

CrcStore == /\ pc = "crc_store"
            /\ crc' = Crc[<<c, byte>>]
            /\ Goto(CASE branch = "len_hi" -> "test"
                      [] branch = "payload" -> "count"
                      [] OTHER -> "state")
            /\ UNCHANGED <<state, cmd, len, recv, last, payload, now, locals, verdict, race>>

\* Fault: one byte more than there is room for.
TestLenOff == /\ pc = "test"
              /\ \E l \in {r, len} : Goto(IF l > MaxPayload + 1 THEN "error" ELSE "clear")
              /\ UNCHANGED <<parser, payload, now, locals, verdict, race>>

\* if (s_len > MAX_PAYLOAD)
TestLen == /\ pc = "test"
           /\ \E l \in {r, len} : Goto(IF l > MaxPayload THEN "error" ELSE "clear")
           /\ UNCHANGED <<parser, payload, now, locals, verdict, race>>

SendError == /\ pc = "error"
             /\ verdict' = [kind |-> "error"]
             /\ Goto("restart")
             /\ UNCHANGED <<parser, payload, now, locals, race>>

\* Fault: the count goes on from the frame before.
ClearRecvForgotten == /\ pc = "clear"
                      /\ Goto("state")
                      /\ UNCHANGED <<parser, payload, now, locals, verdict, race>>

ClearRecv == /\ pc = "clear"
             /\ recv' = 0
             /\ Goto("state")
             /\ UNCHANGED <<state, cmd, len, crc, last, payload, now, locals, verdict, race>>

\* s_recv++
CountByte == /\ pc = "count"
             /\ \E n \in {r, recv} : recv' = n + 1
             /\ Goto("full")
             /\ UNCHANGED <<state, cmd, len, crc, last, payload, now, locals, verdict, race>>

\* if (s_recv >= s_len)
TestFull == /\ pc = "full"
            /\ \E n \in {r + 1, recv} :
                 \/ n >= len /\ Goto("state") /\ UNCHANGED locals
                 \/ n < len /\ Return
            /\ UNCHANGED <<parser, payload, now, verdict, race>>

Received == [cmd |-> cmd, payload |-> [i \in 1..len |-> payload[i - 1]]]

\* case ST_RECV_CRC: the byte decides whether dispatch() is called
RecvCrc == /\ In("body", "crc")
           /\ \/ /\ byte = crc
                 /\ verdict' = [kind |-> "frame", frame |-> Received]
                 /\ Goto("handler")
              \/ /\ byte # crc
                 /\ verdict' = verdict
                 /\ Goto("restart")
           /\ UNCHANGED <<parser, payload, now, locals, race>>

\* dispatch() returns
Handled == /\ pc = "handler"
           /\ Goto("restart")
           /\ UNCHANGED <<parser, payload, now, locals, verdict, race>>

\* The state each case goes on to; the test of s_len == 0 has the register or
\* the variable to look at.
Following ==
    CASE branch = "start"   -> {"cmd"}
      [] branch = "cmd"     -> {"len_lo"}
      [] branch = "len_lo"  -> {"len_hi"}
      [] branch = "len_hi"  -> {IF l = 0 THEN "crc" ELSE "payload" : l \in {r, len}}
      [] branch = "payload" -> {"crc"}

SetState == /\ pc = "state"
            /\ state' \in Following
            /\ Return
            /\ UNCHANGED <<cmd, len, recv, crc, last, payload, now, verdict, race>>

\* The frame is over: s_state = ST_WAIT_START.
Restart == /\ pc = "restart"
           /\ state' = "start"
           /\ verdict' = [kind |-> "none"]
           /\ Return
           /\ UNCHANGED <<cmd, len, recv, crc, last, payload, now, race>>

Step == \/ Check \/ Judge \/ Stamp \/ Switch \/ WaitStart \/ WaitCmd \/ WaitLenLo
        \/ LoadLen \/ StoreLen \/ LoadRecv \/ StorePayload \/ CrcLoad \/ CrcStore
        \/ TestLen \/ SendError \/ ClearRecv \/ CountByte \/ TestFull
        \/ RecvCrc \/ Handled \/ SetState \/ Restart

Next == Tick \/ Reset \/ (\E b \in Byte : Feed(b)) \/ Step

Spec == Init /\ [][Next]_vars

----------------------------------------------------------------------------
(* Properties *)

\* The byte being received goes to a cell of s_payload, whatever resets have
\* done to the counters.
PayloadInBounds == In("put", "payload") => r < MaxPayload

\* The comment at ST_RECV_PAYLOAD, s_recv < s_len <= MAX_PAYLOAD, when no
\* reset has left the parser out of step.
RoomForByte == In("body", "payload") /\ race = "none" => recv < len /\ len <= MaxPayload

Between == pc \in {"idle", "check", "judge", "stamp", "switch"}

\* The main loop holds a copy of s_state.
Loaded == pc \notin {"idle", "check"}

\* Which case each statement belongs to; state is the one loaded or what a reset
\* has made of it.
Places == /\ pc \in {"test", "clear", "error"} => branch = "len_hi"
          /\ pc \in {"count", "full"} => branch = "payload"
          /\ pc = "put" => branch \in {"len_hi", "payload"}
          /\ pc \in {"crc_load", "crc_store"} => branch \in {"cmd", "len_lo", "len_hi", "payload"}
          /\ pc = "state" => branch # "crc"
          /\ IF Loaded THEN state \in {branch, "start"} ELSE branch = "start"

\* What the counters are when the byte is one of the payload, or the checksum.
Fits(s) == /\ s = "payload" => /\ len <= MaxPayload /\ recv < MaxPayload
                               /\ race = "none" => recv < len
           /\ s = "crc" => len <= MaxPayload

Promise == (Between => Fits(state)) /\ (Between \/ pc = "body" => Fits(branch))

\* The length has been stored; a reset may have zeroed it.
LengthCase == branch = "len_hi" =>
    /\ pc \in {"crc_load", "crc_store", "test", "clear", "state"}
         => len \in {r, 0} /\ (race = "none" => len = r)
    /\ pc \in {"clear", "state"} => len <= MaxPayload
    /\ pc = "state" => recv = 0

\* The index is in r; a reset may have zeroed the counter.
PayloadCase == branch = "payload" =>
    /\ pc \in {"put", "crc_load", "crc_store", "count", "full", "state"} => len <= MaxPayload
    /\ pc \in {"put", "crc_load", "crc_store", "count"}
         => r < MaxPayload /\ recv <= r /\ (race = "none" => recv = r /\ r < len)
    /\ pc = "full" => r < MaxPayload /\ recv <= r + 1 /\ (race = "none" => recv = r + 1)

\* The inductive invariant behind PayloadInBounds and RoomForByte: it follows one
\* byte through the switch, from what state promises before it to what it leaves.
ParserInv == TypeOK /\ Places /\ Promise /\ LengthCase /\ PayloadCase
\* A reset in the middle of a byte can leave a state other than ST_WAIT_START
\* behind, but it also zeroes s_last_byte_us: once the device has run for
\* longer than the timeout, the next byte finds the parser stalled and puts
\* it right.  Not so if the reset comes between the load of s_state and the
\* stamp, which is then that of the byte struck: the parser is right again
\* when the frame it makes of what follows is over, or after a silence.
RaceHeals == [][Judge /\ race = "struck" /\ t > Timeout => state' = "start" /\ branch' = "start"]_vars

\* How many bytes of the frame in progress have been taken: those state stands for,
\* and the one in hand from the moment it is in the checksum.
Taken ==
    IF race # "none" \/ pc \in {"handler", "restart"} THEN 0
    ELSE IF pc \in {"test", "clear", "error", "count", "full", "state"}
    THEN CASE branch = "start"   -> 1
           [] branch = "cmd"     -> 2
           [] branch = "len_lo"  -> 3
           [] branch = "len_hi"  -> 4
           [] branch = "payload" -> 4 + recv + (IF pc = "count" THEN 1 ELSE 0)
    ELSE CASE state = "start"    -> 0
           [] state = "cmd"      -> 1
           [] state = "len_lo"   -> 2
           [] state = "len_hi"   -> 3
           [] OTHER              -> 4 + recv

\* Those bytes, as the parser's variables hold them.
ByteAt(i) == CASE i = 1 -> Start
               [] i = 2 -> cmd
               [] i = 3 -> len % Radix
               [] i = 4 -> len \div Radix
               [] OTHER -> payload[i - 5]

Pending == [i \in 1..Taken |-> ByteAt(i)]

Abs == INSTANCE FrameRecogniser WITH pend <- Pending, sum <- crc, verdict <- verdict

\* Until a reset strikes after the load of a state in the middle of a frame, and
\* again when that is healed, every statement of protocol_feed is a step of the recogniser or
\* changes nothing of it: a frame is executed exactly as received, an
\* oversized one is refused once, the rest is dropped.
Recognises == [][race # "none" \/ race' # "none" \/ Abs!Next \/ UNCHANGED <<Pending, verdict, crc>>]_vars
=============================================================================
