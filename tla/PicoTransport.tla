---------------------------- MODULE PicoTransport ----------------------------
(***************************************************************************)
(* pico_transact: a command frame to the firmware, a response frame back.  *)
(* The responses carry no number; the DLL takes the next frame in the      *)
(* port's receive buffer for the answer.  The firmware answers every frame *)
(* it accepts once (dispatch); a frame may be lost on the way to it, an    *)
(* answer may stop after any packet or before the first, and the commands  *)
(* in Slow outlast the DLL's timeout.                                      *)
(*                                                                         *)
(* A call is a number.  A byte of a response is [call, kind, at], at = 0   *)
(* for the start byte, and only that one is 0xA5; a CRC is right when the  *)
(* bytes before it are those it was computed over.                         *)
(***************************************************************************)
EXTENDS Naturals, Sequences

CONSTANTS MaxCalls, MaxOpens,   \* bounds: calls, openings of the port
          DataLen,              \* payload of a RESP_DATA
          FirstPacket           \* bytes of it in its first packet

ASSUME TransportAssumption == /\ {MaxCalls, MaxOpens, DataLen, FirstPacket} \subseteq Nat
                              /\ FirstPacket \in 5..(4 + DataLen)

VARIABLES is_open, opens,
          calls,       \* calls made so far
          pc,          \* pico_transact: the ReadFile it is in
          hdr,         \* the call whose header has been read, or 0
          kind,        \* the resp of that header
          whole,       \* the bytes read after it are that frame's, in order
          toDevice,    \* frames on their way to the firmware
          busy,        \* the frame being executed, or <<>>
          toHost,      \* bytes in the port's receive buffer
          ret,         \* the last call's result: [ok, from]
          last,        \* history: the last answer used
          clean,       \* history: opened on a quiet probe, and no call failed since
          cut          \* history: an answer was cut off since the port was opened

host == <<is_open, opens, calls, pc, hdr, kind, whole, ret>>
device == <<toDevice, busy>>
history == <<last, clean, cut>>
vars == <<host, device, toHost, history>>

Command == {"PING", "RESET_HARD", "SHIFT_DATA"}
Slow == {"RESET_HARD", "SHIFT_DATA"}
Kinds(cmd) == IF cmd = "SHIFT_DATA" THEN {"DATA", "ERROR"} ELSE {"OK"}
PayloadLen(k) == IF k = "DATA" THEN DataLen ELSE 0

Calls == 1..MaxCalls
Frame == [call : Calls, cmd : Command]
Byte == [call : Calls, kind : {"OK", "DATA", "ERROR"}, at : 0..(4 + DataLen)]

TypeOK == /\ {is_open, whole, clean, cut} \subseteq BOOLEAN
          /\ opens \in 0..MaxOpens /\ calls \in 0..MaxCalls
          /\ pc \in {"idle", "header", "payload", "crc"}
          /\ hdr \in 0..calls /\ (hdr # 0 <=> pc \in {"payload", "crc"})
          /\ kind \in {"OK", "DATA", "ERROR"}
          /\ toDevice \in Seq(Frame) /\ busy \in Seq(Frame) /\ Len(busy) <= 1
          /\ toHost \in Seq(Byte)
          /\ ret \in [ok : BOOLEAN, from : 0..MaxCalls]
          /\ last \in 0..MaxCalls

Init == /\ is_open = FALSE /\ opens = 0 /\ calls = 0
        /\ pc = "idle" /\ hdr = 0 /\ kind = "OK" /\ whole = TRUE
        /\ toDevice = <<>> /\ busy = <<>> /\ toHost = <<>>
        /\ ret = [ok |-> FALSE, from |-> 0]
        /\ last = 0 /\ clean = FALSE /\ cut = FALSE

-------------------------------------------------------------------------------
(* The port.                                                               *)

\* PurgeComm empties the receive buffer, but a packet the endpoint still holds
\* from before may come after it.
pico_port_open ==
    /\ ~is_open /\ opens < MaxOpens
    /\ is_open' = TRUE /\ opens' = opens + 1
    /\ toHost' \in {<<>>, toHost}
    /\ clean' = (toDevice = <<>> /\ busy = <<>> /\ toHost = <<>>)
    /\ cut' = (toHost' # <<>>)
    /\ UNCHANGED <<calls, pc, hdr, kind, whole, ret, device, last>>

\* JLINKARM_Close; what the firmware has received it goes on executing.
pico_port_close ==
    /\ is_open /\ pc = "idle"
    /\ is_open' = FALSE
    /\ toHost' = <<>>
    /\ UNCHANGED <<opens, calls, pc, hdr, kind, whole, ret, device, history>>

-------------------------------------------------------------------------------
(* pico_transact.                                                          *)

\* Fault: the frame being read is not forgotten.
FailsMidFrame == /\ pc' = "idle"
                 /\ ret' = [ok |-> FALSE, from |-> 0]
                 /\ clean' = FALSE
                 /\ UNCHANGED <<hdr, is_open, opens, calls, kind, whole, device, last, cut>>

\* Returns false.
Fails == /\ pc' = "idle" /\ hdr' = 0
         /\ ret' = [ok |-> FALSE, from |-> 0]
         /\ clean' = FALSE
         /\ UNCHANGED <<is_open, opens, calls, kind, whole, device, last, cut>>

\* pico_send writes it all; a short write counts as the failure of the call.
Transact(cmd) ==
    /\ is_open /\ pc = "idle" /\ calls < MaxCalls
    /\ calls' = calls + 1
    /\ pc' = "header"
    /\ toDevice' = Append(toDevice, [call |-> calls + 1, cmd |-> cmd])
    /\ UNCHANGED <<is_open, opens, hdr, kind, whole, ret, busy, toHost, history>>

SendFails ==
    /\ is_open /\ pc = "idle" /\ calls < MaxCalls
    /\ ret' = [ok |-> FALSE, from |-> 0] /\ clean' = FALSE
    /\ calls' = calls + 1
    /\ UNCHANGED <<is_open, opens, pc, hdr, kind, whole, device, toHost, last, cut>>

\* The bytes read must begin with the start byte.
ReadHeader ==
    /\ pc = "header" /\ Len(toHost) >= 4
    /\ toHost' = SubSeq(toHost, 5, Len(toHost))
    /\ IF toHost[1].at # 0 THEN Fails
       ELSE /\ hdr' = toHost[1].call /\ kind' = toHost[1].kind
            /\ whole' = TRUE
            /\ pc' = IF PayloadLen(kind') > 0 THEN "payload" ELSE "crc"
            /\ UNCHANGED <<is_open, opens, calls, ret, device, history>>

ReadPayload ==
    /\ pc = "payload" /\ Len(toHost) >= PayloadLen(kind)
    /\ whole' = \A i \in 1..PayloadLen(kind) : toHost[i].call = hdr /\ toHost[i].at = 3 + i
    /\ toHost' = SubSeq(toHost, PayloadLen(kind) + 1, Len(toHost))
    /\ pc' = "crc"
    /\ UNCHANGED <<is_open, opens, calls, hdr, kind, ret, device, history>>

Matches(byte) == whole /\ byte.call = hdr /\ byte.at = 4 + PayloadLen(kind)

\* The frame is accepted whatever command it answers; RESP_ERROR makes the call fail.
ReadCrc ==
    /\ pc = "crc" /\ Len(toHost) >= 1
    /\ toHost' = Tail(toHost)
    /\ IF Matches(toHost[1])
       THEN /\ pc' = "idle" /\ hdr' = 0
            /\ ret' = [ok |-> kind # "ERROR", from |-> hdr]
            /\ last' = hdr
            /\ UNCHANGED <<is_open, opens, calls, kind, whole, device, clean, cut>>
       ELSE Fails

\* What a ReadFile still waits for when it gives up.
Wanted == CASE pc = "header" -> 4 [] pc = "payload" -> PayloadLen(kind) [] pc = "crc" -> 1

\* Fault: a ReadFile without ReadTotalTimeoutConstant.
WaitForever == FALSE

\* Nothing more is coming, or not before the command in hand is done.
Overdue == IF busy = <<>> THEN toDevice = <<>> ELSE busy[1].cmd \in Slow

\* A ReadFile that times out has taken what there was.
ReadTimeout ==
    /\ pc # "idle" /\ Len(toHost) < Wanted /\ Overdue
    /\ toHost' = <<>>
    /\ Fails

-------------------------------------------------------------------------------
(* The firmware.                                                           *)

\* The frame is dropped: bytes lost in the ring, or swallowed by a broken frame.
Lose ==
    /\ toDevice # <<>>
    /\ toDevice' = Tail(toDevice)
    /\ UNCHANGED <<host, busy, toHost, history>>

Accept ==
    /\ toDevice # <<>> /\ busy = <<>>
    /\ busy' = <<Head(toDevice)>> /\ toDevice' = Tail(toDevice)
    /\ UNCHANGED <<host, toHost, history>>

\* Fault: an error is sent without its CRC.
ErrorWithoutCrc(f, k) == [i \in 1..(IF k = "ERROR" THEN 4 ELSE 5 + PayloadLen(k)) |->
                             [call |-> f.call, kind |-> k, at |-> i - 1]]

\* The bytes of a response frame: header, payload, CRC.
Response(f, k) == [i \in 1..(5 + PayloadLen(k)) |-> [call |-> f.call, kind |-> k, at |-> i - 1]]

\* Fault: the handler sends its data and then an OK as well.
AnswerTwice(f) == {Response(f, k) \o Response(f, "OK") : k \in Kinds(f.cmd)}

\* dispatch: a handler runs, and answers once.
dispatch(f) == {Response(f, k) : k \in Kinds(f.cmd)}

\* cdc_send may give up before any packet.
Sent(response) == {0, Len(response)}
                  \union (IF Len(response) > FirstPacket THEN {FirstPacket} ELSE {})

Answer ==
    /\ busy # <<>> /\ is_open
    /\ busy' = <<>>
    /\ \E response \in dispatch(busy[1]) : \E n \in Sent(response) :
          /\ toHost' = toHost \o SubSeq(response, 1, n)
          /\ cut' = (cut \/ n \notin {0, Len(response)})
    /\ UNCHANGED <<host, toDevice, last, clean>>

\* Nobody reads: the first packet stays in the endpoint, if it is free.
AnswerToNobody ==
    /\ busy # <<>> /\ ~is_open
    /\ busy' = <<>>
    /\ \/ toHost' = toHost
       \/ /\ toHost = <<>>
          /\ \E response \in dispatch(busy[1]) :
                toHost' = SubSeq(response, 1, IF Len(response) > FirstPacket THEN FirstPacket
                                              ELSE Len(response))
    /\ UNCHANGED <<host, toDevice, history>>

Next == \/ pico_port_open \/ pico_port_close
        \/ \E cmd \in Command : Transact(cmd)
        \/ SendFails \/ ReadHeader \/ ReadPayload \/ ReadCrc \/ ReadTimeout
        \/ Lose \/ Accept \/ Answer \/ AnswerToNobody

Spec == Init /\ [][Next]_vars

\* The DLL's thread runs, and the main loop of the firmware takes every frame.
FairSpec == Spec /\ WF_vars(ReadHeader \/ ReadPayload \/ ReadCrc \/ ReadTimeout)
                 /\ WF_vars(Accept \/ Answer \/ AnswerToNobody)

-------------------------------------------------------------------------------
(* Properties.                                                             *)

\* As long as no call has failed since the port was opened on a quiet probe,
\* RESP_ERROR apart, a call returns the answer to its own command.
OwnAnswerWhileClean == [][last' # last /\ clean' => last' = calls]_vars

\* An answer is used for one call only, and no answer before an older one, however
\* calls fail and the port is closed and opened.
OnceInOrder == [][pc = "crc" /\ pc' = "idle" /\ ret'.from # 0 => ret'.from > last]_vars

\* Without cut-off answers every failure leaves the receive buffer at the start of
\* a frame.
AlignedUnlessCut == ~cut /\ pc \in {"idle", "header"} /\ toHost # <<>> => toHost[1].at = 0

\* Every call returns, even if nothing is answered.
CallReturns == pc # "idle" ~> pc = "idle"

\* "Transaccion completa: pico_send() + pico_recv() en una sola llamada"
\* (pico_transport.h:85) and "no-op: las transferencias ya son sincronas"
\* (jlink_api.c:544): a call that returns true returns the answer to its command.
\* After a call that gave up on a slow command, each takes the answer before its own.
OwnAnswer == pc = "idle" /\ ret.ok => ret.from = calls
===============================================================================
