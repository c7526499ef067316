------------------------------ MODULE UsbControl ------------------------------
(***************************************************************************)
(* Control transfers on EP0 of usb_device.c: enumeration, the descriptors, *)
(* the line coding of the serial port.  The device is the record d, which  *)
(* the handlers map to another; the host runs one transfer at a time, may  *)
(* give one up and start another, and may reset the bus.                   *)
(*                                                                         *)
(* isr_usbctrl reads the pending interrupts once and serves SETUP first,   *)
(* then BUFF_STATUS, read again when it gets there, then BUS_RESET: two    *)
(* steps, between which the host goes on.  What SET_CONFIGURATION,         *)
(* CLEAR_FEATURE, SET_CONTROL_LINE_STATE and a bus reset do to the other   *)
(* endpoints is in BulkIn and UartBridge; here they are acknowledged.      *)
(***************************************************************************)
EXTENDS Integers

CONSTANTS Requests,    \* the SETUP packets the host may send
          ItemLen,     \* the length of each thing the device can be asked for
          MaxPacket,   \* of EP0
          BufSize,     \* sizeof(ep0_pending_buf)
          Bauds        \* baud rates asked for, 0 among them

Item(kind, val) == [kind |-> kind, val |-> val]
Request(r, kind, length, index, arg) ==
    [req |-> r, kind |-> kind, wLength |-> length, wIndex |-> index, arg |-> arg]

Idle == 255            \* s_set_line_coding_pending with nothing pending
Junk == -1             \* a baud rate read from a buffer the host did not write
Fixed == 115200        \* the line coding of the protocol port

Kinds == DOMAIN ItemLen
Items == [kind : Kinds \union {"none"}, val : Bauds \union {Junk, Fixed, 0}]
None == Item("none", 0)
Names == {"SET_ADDRESS", "SET_CONFIGURATION", "CLEAR_FEATURE", "SET_LINE_CODING",
          "GET_DESCRIPTOR", "GET_LINE_CODING"}
ItemNames == Kinds \union {"unsupported", "none", "short"}

ASSUME ControlAssumption ==
    /\ MaxPacket \in Nat \ {0} /\ BufSize \in Nat
    /\ Bauds \subseteq Nat /\ 0 \in Bauds /\ Fixed \in Bauds
    /\ ItemLen \in [Kinds -> Nat] /\ "lc" \in Kinds
    /\ {"unsupported", "none", "short"} \cap Kinds = {}
    /\ Requests \subseteq [req : Names, kind : ItemNames, wLength : Nat,
                     wIndex : {0, 2}, arg : Nat]
    /\ \A r \in Requests : r.req = "SET_ADDRESS" => r.arg \in 1..127
    /\ \A r \in Requests : r.req = "SET_LINE_CODING" => r.arg \in Bauds
    /\ \A r \in Requests : r.req = "GET_DESCRIPTOR" => r.kind \in Kinds \union {"unsupported"}
    /\ \A r \in Requests : r.kind = "unsupported" => r.req = "GET_DESCRIPTOR"

\* ep0_pending_buf holds each thing whole: nothing is cut off in usb_ep0_in_begin.
ASSUME RoomAssumption == \A k \in Kinds : ItemLen[k] <= BufSize

VARIABLES d,           \* the device
          setup, latch, reset,   \* SETUP_REC, BUFF_STATUS of EP0, BUS_RESET
          pc, rest,    \* the interrupt: where it is, and what it still has to serve
          stage, req, hostPid, hostAddr,   \* the host's transfer
          first, n, sound, result,         \* what it has received
          clean, tidy, overtaken   \* history

interrupt == <<setup, latch, reset, pc, rest>>
host == <<stage, req, hostPid, hostAddr, first, n, sound, result>>
history == <<clean, tidy, overtaken>>
vars == <<d, interrupt, host, history>>

Least(a, b) == IF a < b THEN a ELSE b

\* EP0 IN carries a piece of an item.  The arg of a request is its address or
\* baud rate; the wLength of SET_LINE_CODING is 7 or more, and its kind is
\* "short" when the host sends less.
Packets == { p \in [item : Items, off : 0..BufSize, len : 0..MaxPacket] :
               p.off + p.len <= BufSize }
Zlp == [item |-> None, off |-> 0, len |-> 0]

Device == [pending_addr : 0..127, dev_addr : 0..127,
           total : 0..BufSize, sent : 0..BufSize, item : Items,
           lc : {0, 2, Idle}, baud : Bauds \union {Junk},
           inNext : {0, 1}, inAvail : BOOLEAN, inPid : {0, 1}, inPkt : Packets, stall : BOOLEAN,
           outNext : {0, 1}, outAvail : BOOLEAN, outPid : {0, 1}, outLen : {0, 4, 7},
           buf : Bauds \union {Junk}]

TypeOK == /\ d \in Device
          /\ setup \in BOOLEAN /\ latch \subseteq {"in", "out"} /\ reset \in BOOLEAN
          /\ pc \in {"idle", "rest"} /\ rest \subseteq {"buff", "reset"}
          /\ stage \in {"idle", "dataIn", "statusOut", "dataOut", "statusIn"}
          /\ req \in Requests /\ hostPid \in {0, 1} /\ hostAddr \in 0..127
          /\ first \in Items /\ n \in Nat /\ sound \in BOOLEAN
          /\ result \in {"none", "ok", "stall"}
          /\ clean \in BOOLEAN /\ tidy \in BOOLEAN /\ overtaken \in BOOLEAN

Init == /\ d = [pending_addr |-> 0, dev_addr |-> 0,
                total |-> 0, sent |-> 0, item |-> None, lc |-> Idle, baud |-> Fixed,
                inNext |-> 0, inAvail |-> FALSE, inPid |-> 0, inPkt |-> Zlp, stall |-> FALSE,
                outNext |-> 0, outAvail |-> FALSE, outPid |-> 0, outLen |-> 0, buf |-> Junk]
        /\ setup = FALSE /\ latch = {} /\ reset = FALSE /\ pc = "idle" /\ rest = {}
        /\ stage = "idle" /\ req \in Requests /\ hostPid = 0 /\ hostAddr = 0
        /\ first = None /\ n = 0 /\ sound = TRUE /\ result = "none"
        /\ clean = FALSE /\ tidy = FALSE /\ overtaken = FALSE

----------------------------------------------------------------------------
(* EP0: arming *)

\* Fault: a toggle that counts.
StartInCounts(e, pkt) ==
    [e EXCEPT !.inAvail = TRUE, !.inPid = e.inNext, !.inNext = 1 + e.inNext,
              !.inPkt = pkt, !.stall = FALSE,
              !.buf = IF pkt.len > 0 THEN Junk ELSE e.buf]

\* usb_start_transfer on EP0 IN.  Both directions of EP0 have one buffer.
StartIn(e, pkt) ==
    [e EXCEPT !.inAvail = TRUE, !.inPid = e.inNext, !.inNext = 1 - e.inNext,
              !.inPkt = pkt, !.stall = FALSE,
              !.buf = IF pkt.len > 0 THEN Junk ELSE e.buf]

\* next_pid = 1 and usb_start_transfer on EP0 OUT.
StartOut(e, len) ==
    [e EXCEPT !.outNext = 0, !.outPid = 1, !.outAvail = TRUE, !.outLen = len]

\* The piece of ep0_pending_buf from off on, one packet at most.
Piece(e, off) == [item |-> e.item, off |-> off, len |-> Least(MaxPacket, e.total - off)]

usb_ep0_in_begin(e, item, wLength) ==
    LET total == Least(Least(ItemLen[item.kind], wLength), BufSize)
        b == [e EXCEPT !.item = item, !.total = total, !.inNext = 1]
    IN  [StartIn(b, Piece(b, 0)) EXCEPT !.sent = Least(MaxPacket, total)]

\* ep0_pending_total = ep0_pending_sent = 0: ep0_pending_buf is not read again.
Emptied(e) == [e EXCEPT !.total = 0, !.sent = 0, !.item = None]

usb_acknowledge_out_request(e) == StartIn([Emptied(e) EXCEPT !.inNext = 1], Zlp)

usb_stall_ep0_in(e) ==
    [Emptied(e) EXCEPT !.inAvail = FALSE, !.inPid = 0, !.inPkt = Zlp, !.stall = TRUE]

----------------------------------------------------------------------------
(* usb_handle_setup_packet *)

\* Fault: the address is taken at once.
usb_set_device_address_now(e, r) == usb_acknowledge_out_request([e EXCEPT !.dev_addr = r.arg])

usb_set_device_address(e, r) == usb_acknowledge_out_request([e EXCEPT !.pending_addr = r.arg])

\* For EP0: all toggles go to DATA0.
usb_set_device_configuration(e) ==
    [usb_acknowledge_out_request(e) EXCEPT !.inNext = 0, !.outNext = 0]

\* Fault: the coding of either port is for the UART.
SetLineCodingAny(e, r) == StartOut([e EXCEPT !.lc = 2], 7)

SetLineCoding(e, r) == StartOut([e EXCEPT !.lc = r.wIndex], 7)

GetLineCoding(e, r) ==
    usb_ep0_in_begin(e, Item("lc", IF r.wIndex = 2 THEN e.baud ELSE Fixed), r.wLength)

GetDescriptor(e, r) == IF r.kind = "unsupported"
                       THEN usb_stall_ep0_in(e)
                       ELSE usb_ep0_in_begin(e, Item(r.kind, 0), r.wLength)

\* CLEAR_FEATURE stands for every request that is only acknowledged.
usb_handle_setup_packet(e0, r) ==
    LET e == [e0 EXCEPT !.inNext = 1]
    IN  CASE r.req = "SET_ADDRESS" -> usb_set_device_address(e, r)
          [] r.req = "SET_CONFIGURATION" -> usb_set_device_configuration(e)
          [] r.req = "SET_LINE_CODING" -> SetLineCoding(e, r)
          [] r.req = "GET_DESCRIPTOR" -> GetDescriptor(e, r)
          [] r.req = "GET_LINE_CODING" -> GetLineCoding(e, r)
          [] OTHER -> usb_acknowledge_out_request(e)

----------------------------------------------------------------------------
(* Completions and bus reset *)

ep0_in_handler(e) ==
    IF e.pending_addr # 0
    THEN [Emptied(e) EXCEPT !.dev_addr = e.pending_addr, !.pending_addr = 0]
    ELSE IF e.sent < e.total
    THEN [StartIn(e, Piece(e, e.sent)) EXCEPT !.sent = e.sent + Piece(e, e.sent).len]
    ELSE StartOut(Emptied(e), 0)

\* Fault: a coding cut short is not closed.
ep0_out_handler_strict(e) ==
    IF e.lc = Idle \/ e.outLen < 7 THEN e
    ELSE StartIn([e EXCEPT !.baud = IF e.lc = 2 /\ e.buf # 0 THEN e.buf ELSE e.baud,
                           !.lc = Idle, !.inNext = 1], Zlp)

ep0_out_handler(e) ==
    IF e.lc = Idle THEN e
    ELSE StartIn([e EXCEPT !.baud = IF e.outLen >= 7 /\ e.lc = 2 /\ e.buf # 0
                                    THEN e.buf ELSE e.baud,
                           !.lc = Idle, !.inNext = 1], Zlp)

\* EP0 IN is bit 0, EP0 OUT bit 1.  What was received is not read twice.
usb_handle_buff_status(e, bits) ==
    LET a == IF "in" \in bits THEN ep0_in_handler(e) ELSE e
    IN  IF "out" \in bits THEN [ep0_out_handler(a) EXCEPT !.outLen = 0, !.buf = Junk] ELSE a

\* EP0's buffer_control registers are left as they are.
usb_bus_reset(e) ==
    [Emptied(e) EXCEPT !.pending_addr = 0, !.dev_addr = 0, !.lc = Idle,
                       !.inNext = 0, !.outNext = 0]

----------------------------------------------------------------------------
(* isr_usbctrl *)

\* What the interrupt is raised for, as far as EP0 goes.
Pending == setup \/ latch # {} \/ reset

\* Fault: a completion of the transfer before is left for the second half.
EnterKeepsLatch ==
    /\ pc = "idle" /\ pc' = "rest"
    /\ \E other \in BOOLEAN :
         /\ Pending \/ other
         /\ rest' = (IF latch # {} \/ other THEN {"buff"} ELSE {})
                    \union (IF reset THEN {"reset"} ELSE {})
    /\ d' = (IF setup THEN usb_handle_setup_packet(d, req) ELSE d)
    /\ setup' = FALSE
    /\ UNCHANGED <<latch, reset, host, history>>

\* The status is read, and SETUP served: the latched completions of EP0 are
\* of the transfer before and are dropped.  Another endpoint may be what the
\* interrupt is for.
Enter ==
    /\ pc = "idle" /\ pc' = "rest"
    /\ \E other \in BOOLEAN :
         /\ Pending \/ other
         /\ rest' = (IF latch # {} \/ other THEN {"buff"} ELSE {})
                    \union (IF reset THEN {"reset"} ELSE {})
    /\ IF setup
       THEN latch' = {} /\ d' = usb_handle_setup_packet(d, req)
       ELSE UNCHANGED <<latch, d>>
    /\ setup' = FALSE
    /\ UNCHANGED <<reset, host, history>>

\* BUFF_STATUS as it is now, if the status said so; then the bus reset.
Serve ==
    /\ pc = "rest"
    /\ LET e == IF "buff" \in rest THEN usb_handle_buff_status(d, latch) ELSE d
       IN  d' = (IF "reset" \in rest THEN usb_bus_reset(e) ELSE e)
    /\ latch' = (IF "buff" \in rest THEN {} ELSE latch)
    /\ reset' = (reset /\ "reset" \notin rest)
    /\ overtaken' = (overtaken /\ "reset" \notin rest)
    /\ pc' = "idle" /\ rest' = {}
    /\ UNCHANGED <<setup, host, clean, tidy>>

----------------------------------------------------------------------------
(* The host *)

IsIn(r) == r.req \in {"GET_DESCRIPTOR", "GET_LINE_CODING"}
FirstStage(r) == IF IsIn(r) THEN "dataIn"
                 ELSE IF r.req = "SET_LINE_CODING" THEN "dataOut" ELSE "statusIn"

\* The device hears the host: same address, and no reset it has not served.
Heard == hostAddr = d.dev_addr /\ ~reset

\* A packet of the transfer before is still armed when its SETUP arrives, or
\* has a completion that the interrupt, between its halves, is about to serve.
Remains == d'.inAvail \/ (pc = "rest" /\ latch' # {})

\* A SETUP packet is always accepted.  The controller takes back EP0 OUT and
\* latches it, and may or may not take back EP0 IN.  What is in the buffer is
\* Junk to this transfer.
HostSetup(r) ==
    /\ stage = "idle" /\ Heard
    /\ latch' = latch \union (IF d.outAvail THEN {"out"} ELSE {})
    /\ \E keep \in BOOLEAN :
         d' = [d EXCEPT !.outAvail = FALSE, !.stall = FALSE, !.buf = Junk,
                        !.outLen = IF "out" \in latch' THEN d.outLen ELSE 0,
                        !.inAvail = d.inAvail /\ keep,
                        !.inPid = IF keep THEN d.inPid ELSE 0,
                        !.inPkt = IF keep THEN d.inPkt ELSE Zlp]
    /\ setup' = TRUE
    /\ stage' = FirstStage(r) /\ req' = r /\ hostPid' = 1
    /\ first' = None /\ n' = 0 /\ sound' = TRUE /\ result' = "none"
    /\ clean' = /\ d.pending_addr = 0 \/ r.req = "SET_ADDRESS"
                /\ d.lc = Idle \/ r.req = "SET_LINE_CODING"
                /\ ~Remains
    /\ tidy' = (tidy /\ clean')
    /\ overtaken' = (overtaken \/ Remains)
    /\ UNCHANGED <<reset, pc, rest, hostAddr>>

\* An IN token: the packet is taken if its toggle is the expected one, and is
\* else acknowledged as a repetition.  A short packet, or all that was asked
\* for, ends the data stage.  Nothing reads the registers of a packet taken.
HostIn ==
    /\ stage \in {"dataIn", "statusIn"} /\ Heard /\ d.inAvail
    /\ d' = [d EXCEPT !.inAvail = FALSE, !.inPid = 0, !.inPkt = Zlp]
    /\ latch' = latch \union {"in"}
    /\ IF d.inPid = hostPid
       THEN /\ hostPid' = 1 - hostPid
            /\ first' = (IF n = 0 THEN d.inPkt.item ELSE first)
            /\ n' = n + d.inPkt.len
            /\ sound' = (sound /\ d.inPkt.off = n /\ d.inPkt.item = first')
            /\ stage' = IF stage = "statusIn" THEN "idle"
                         ELSE IF n' >= req.wLength \/ d.inPkt.len < MaxPacket
                              THEN "statusOut" ELSE "dataIn"
            /\ result' = (IF stage = "statusIn" THEN "ok" ELSE "none")
            /\ hostAddr' = IF stage = "statusIn" /\ req.req = "SET_ADDRESS"
                           THEN req.arg ELSE hostAddr
       ELSE UNCHANGED host
    /\ UNCHANGED <<setup, reset, pc, rest, req, history>>

HostStalled ==
    /\ stage \in {"dataIn", "statusIn"} /\ Heard /\ d.stall
    /\ stage' = "idle" /\ result' = "stall"
    /\ UNCHANGED <<d, interrupt, req, hostPid, hostAddr, first, n, sound, history>>

\* An OUT token, always DATA1: the seven bytes of a line coding, fewer of them,
\* or the status stage.
HostOut ==
    /\ stage \in {"dataOut", "statusOut"} /\ Heard /\ d.outAvail
    /\ IF d.outPid = 1
       THEN /\ d' = [d EXCEPT !.outAvail = FALSE,
                              !.outLen = IF stage = "statusOut" THEN 0
                                         ELSE IF req.kind = "short" THEN 4 ELSE 7,
                              !.buf = IF stage = "statusOut" THEN d.buf ELSE req.arg]
            /\ latch' = latch \union {"out"}
       ELSE UNCHANGED <<d, latch>>
    /\ stage' = (IF stage = "dataOut" THEN "statusIn" ELSE "idle")
    /\ result' = (IF stage = "dataOut" THEN "none" ELSE "ok")
    /\ UNCHANGED <<setup, reset, pc, rest, req, hostPid, hostAddr, first, n, sound,
                   history>>

\* The host gives the transfer up, after a time next to which the interrupt
\* takes none.
Abort == /\ stage # "idle" /\ pc = "idle"
         /\ stage' = "idle"
         /\ hostPid' = 0 /\ first' = None /\ n' = 0 /\ sound' = TRUE
         /\ UNCHANGED <<d, interrupt, req, hostAddr, result, history>>

\* SETUP_REC and the latched completions stay.
BusReset == /\ reset' = TRUE
            /\ stage' = "idle" /\ result' = "none" /\ hostAddr' = 0
            /\ hostPid' = 0 /\ first' = None /\ n' = 0 /\ sound' = TRUE
            /\ tidy' = TRUE
            /\ UNCHANGED <<d, setup, latch, pc, rest, req, clean, overtaken>>

Interrupt == Enter \/ Serve
Tokens == HostIn \/ HostStalled \/ HostOut

Next == Interrupt \/ Tokens \/ (\E r \in Requests : HostSetup(r)) \/ Abort \/ BusReset

Spec == Init /\ [][Next]_vars

\* The interrupt runs when there is something to serve, and ends.  Only Enter
\* and Serve move pc: fairness of the move is fairness of the two.
Entered == pc = "idle" /\ Pending /\ pc' = "rest"
Served == pc = "rest" /\ pc' = "idle"

FairSpec == Spec /\ WF_pc(Entered) /\ WF_pc(Served) /\ WF_vars(Tokens)

----------------------------------------------------------------------------
(* Why the baud rate is the one asked for *)

\* Only a line coding has a data stage from the host.
DataOut == stage = "dataOut" => req.req = "SET_LINE_CODING"

\* What was asked of the serial port, and is in the buffer.
Ordered == /\ req.req = "SET_LINE_CODING" /\ req.wIndex = 2 /\ req.kind # "short"
           /\ d.buf = req.arg

\* A bus reset is served in the interrupt that saw it, and meanwhile the host
\* is not heard.
ResetServed == "reset" \in rest => reset /\ pc = "rest" /\ ~setup

\* A SETUP packet not yet served finds nothing left of the transfer before.
NothingLeft == setup => ~d.inAvail /\ ~d.outAvail /\ (pc = "rest" => latch = {})

\* Once it is served, a line coding waits for the request that set it up.
Waiting == ~setup /\ d.lc # Idle =>
             /\ stage = "dataOut" => d.lc = req.wIndex
             /\ req.req = "SET_LINE_CODING" => ~d.inAvail /\ "in" \notin latch
             /\ "out" \in latch /\ d.lc = 2 /\ d.outLen = 7 => Ordered

Undisturbed == ~overtaken => NothingLeft /\ Waiting
\* While no remains of a transfer have met the next one, the line coding that
\* ep0_out_handler may take is the one the host has written for it.
BaudInv == TypeOK /\ DataOut /\ ResetServed /\ Undisturbed

----------------------------------------------------------------------------
(* Properties *)

Asked(r) == CASE r.req = "GET_LINE_CODING" -> Item("lc", IF r.wIndex = 2 THEN d.baud ELSE Fixed)
              [] r.req = "GET_DESCRIPTOR" -> Item(r.kind, 0)
              [] OTHER -> None

\* A transfer that starts with nothing left over from another ends as it
\* should: refused if the device has no such thing, and else, if it reads, with
\* all the bytes asked for, of that thing and in order; if it writes a line
\* coding of the serial port, with the baud rate set.
RightResult ==
    clean =>
      /\ result = "stall" => req.kind = "unsupported"
      /\ result = "ok" =>
           /\ req.kind # "unsupported"
           /\ sound /\ first = Asked(req)
           /\ n = (IF IsIn(req) THEN Least(req.wLength, ItemLen[Asked(req).kind]) ELSE 0)
           /\ req.req = "SET_LINE_CODING" /\ req.kind # "short" /\ req.wIndex = 2 /\ req.arg # 0
                => d.baud = req.arg

\* While no transfer since the bus reset has met the remains of another,
\* device and host agree on the address once nothing is waiting.
AddressHeard ==
    tidy /\ stage = "idle" /\ ~setup /\ latch = {} /\ ~reset /\ pc = "idle"
      => d.dev_addr = hostAddr

\* The baud rate of the serial port changes only to the one the transfer in
\* progress asks for, whatever was given up before it; except for a line
\* coding given up while the interrupt was between its two halves.
BaudAsOrdered ==
    [][d'.baud # d.baud => \/ overtaken
                          \/ /\ req.req = "SET_LINE_CODING" /\ req.wIndex = 2
                             /\ req.kind # "short" /\ d'.baud = req.arg]_vars

\* A transfer that starts with nothing left over comes to its end.
TransferEnds == (clean /\ stage # "idle") ~> (stage = "idle")
=============================================================================
