------------------------------ MODULE UartBridge ------------------------------
(***************************************************************************)
(* The serial bridge, from the host's packets on EP4 OUT to the UART and   *)
(* back: uart_bridge.c, uart_driver.c, and what usb_device.c does to an    *)
(* OUT endpoint.  EP3 OUT is armed by the same code, but for the closing   *)
(* of the port, and its bytes go through a ring of the same text.          *)
(*                                                                         *)
(* The rings have the text of cdc_rx.c, and SpscRing shows that it is the  *)
(* queue of ByteQueue unless a bus reset strikes in the middle of a byte:  *)
(* here they are that queue.  Of the two only s_tx_buf is reset, so that   *)
(* taking a byte from it is Look, Copy, Advance; after a reset in between  *)
(* the queue is what the cells from a wrong tail to the head hold.         *)
(*                                                                         *)
(* A behaviour is about one direction, `side': the two share the main loop *)
(* and nothing else.  Towards the UART ("tx") the queue is s_tx_buf of     *)
(* uart_bridge.c, from it ("rx") s_rx_buf of uart_driver.c.  Bytes are     *)
(* numbered in the order in which the host, or the UART, sent them.        *)
(***************************************************************************)
EXTENDS Integers, Sequences

CONSTANTS Capacity,    \* TX_BUF_SIZE - 1, UART_RX_BUF_SIZE - 1
          MaxPacket,   \* of EP4 OUT
          Chunk,       \* sizeof(local), sizeof(s_rx_buf)
          MaxBytes,    \* bound: bytes sent
          MaxEpoch     \* bound: USB sessions

ASSUME BridgeAssumption == /\ Capacity \in Nat \ {0} /\ MaxPacket \in Nat \ {0}
                           /\ Chunk \in Nat \ {0} /\ MaxBytes \in Nat /\ MaxEpoch \in Nat \ {0}

VARIABLES side,
          queue,
          kept,        \* bytes copied out whose cells uart_driver_recv has not given back
          at,          \* where the main loop is in uart_bridge_task
          struck,      \* a bus reset has come since it loaded s_tx_tail
          local,       \* the bytes copied out of the queue
          ep, done,    \* EP4 OUT: buffer_control with next_pid; its BUFF_STATUS bit
          packet,      \* in its buffer
          setup,       \* the SETUP packet not yet served
          configured, hostPid, again,   \* the host: its toggle, the packet to be repeated
          epoch,       \* the USB session
          sent,        \* the bytes the host, or the UART, is done with
          wire, gone, calm   \* history: what came out, what was dropped or flushed

loop == <<at, struck, local, kept>>
usb == <<ep, done, packet, setup, configured, hostPid, again, epoch>>
history == <<wire, gone, calm>>
vars == <<side, queue, loop, usb, sent, history>>

Bytes == 0..MaxBytes     \* 0 is a byte nobody sent, or not told apart any more

Endpoint == [avail : BOOLEAN, pid : {0, 1}, next : {0, 1}, len : 0..MaxPacket]

TypeOK == /\ side \in {"tx", "rx"}
          /\ queue \in Seq(Bytes) /\ Len(queue) + kept <= Capacity
          /\ at \in {"tx", "look", "advance", "send", "recv", "usb"} /\ struck \in BOOLEAN
          /\ local \in Seq(Bytes) /\ Len(local) <= Chunk /\ kept \in 0..Chunk
          /\ ep \in Endpoint /\ done \in BOOLEAN
          /\ packet \in Seq(Bytes) /\ Len(packet) <= MaxPacket
          /\ setup \in {"none", "config", "clear", "close"}
          /\ configured \in BOOLEAN /\ hostPid \in {0, 1} /\ again \in 0..MaxPacket
          /\ epoch \in 1..MaxEpoch /\ sent \in Bytes
          /\ wire \in Seq(Bytes) /\ gone \subseteq Bytes /\ calm \in BOOLEAN

Init == /\ side \in {"tx", "rx"}
        /\ queue = << >> /\ kept = 0 /\ at = "tx" /\ struck = FALSE /\ local = << >>
        /\ ep = [avail |-> FALSE, pid |-> 0, next |-> 0, len |-> 0] /\ done = FALSE
        /\ packet = << >>
        /\ setup = "none" /\ configured = FALSE /\ hostPid = 0 /\ again = 0 /\ epoch = 1
        /\ sent = 0 /\ wire = << >> /\ gone = {} /\ calm = TRUE

----------------------------------------------------------------------------
(* The queue *)

\* How many of n bytes it takes.
Room(n) == IF n <= Capacity - kept - Len(queue) THEN n ELSE Capacity - kept - Len(queue)

\* A packet arrives: the newest bytes are dropped if it does not fit.
Put(p) == /\ queue' = queue \o SubSeq(p, 1, Room(Len(p)))
          /\ gone' = IF calm THEN gone \union { p[i] : i \in Room(Len(p)) + 1..Len(p) } ELSE {}

----------------------------------------------------------------------------
(* The USB interrupt *)

\* Fault: the toggle is not advanced.
StartSameToggle(e) == [e EXCEPT !.avail = TRUE, !.pid = e.next, !.len = MaxPacket]

\* usb_start_transfer on an OUT endpoint: LEN becomes the room offered.
usb_start_transfer(e) ==
    [e EXCEPT !.avail = TRUE, !.pid = e.next, !.next = 1 - e.next, !.len = MaxPacket]

\* What the handler is given: LEN is read from buffer_control as it is now, and
\* what follows the packet in the buffer is not of the host's.
Received == [i \in 1..ep.len |-> IF i <= Len(packet) THEN packet[i] ELSE 0]

\* The toggle of the host's next packet that is not a repetition.
NextPid == IF again = 0 THEN hostPid ELSE 1 - hostPid

\* Fault: a packet that fills the queue does not ask for more.
HandlerWaits ==
    /\ done /\ done' = FALSE
    /\ Put(Received)
    /\ ep' = IF Len(queue') < Capacity THEN usb_start_transfer(ep) ELSE ep
    /\ packet' = << >>
    /\ UNCHANGED <<side, loop, setup, configured, hostPid, again, epoch, sent, wire, calm>>

\* A completion.
uart_data_out_handler ==
    /\ done /\ done' = FALSE
    /\ Put(Received)
    /\ ep' = usb_start_transfer(ep)
    /\ packet' = << >>
    /\ UNCHANGED <<side, loop, setup, configured, hostPid, again, epoch, sent, wire, calm>>

\* SET_CONFIGURATION, CLEAR_FEATURE of the endpoint and the closing of the
\* port set next_pid and arm, whatever the endpoint is doing.  The first two
\* set the host's toggle as well, and it sends nothing meanwhile.
ServeSetup ==
    /\ setup # "none" /\ setup' = "none"
    /\ ep' = usb_start_transfer([ep EXCEPT !.next = 0])
    /\ IF setup = "close"
       THEN UNCHANGED <<configured, hostPid, again, sent>>
       ELSE configured' = TRUE /\ hostPid' = 0 /\ again' = 0 /\ sent' = sent + again
    /\ calm' = (calm /\ ~done /\ (setup = "close" => NextPid = 0))
    /\ IF calm' THEN UNCHANGED <<wire, gone>> ELSE wire' = << >> /\ gone' = {}
    /\ UNCHANGED <<side, queue, loop, done, packet, epoch>>

\* A bus reset, after the completion the same interrupt serves: next_pid and
\* the queue are cleared, buffer_control is not.
usb_bus_reset ==
    /\ side = "tx" /\ setup = "none" /\ ~done /\ epoch < MaxEpoch
    /\ epoch' = epoch + 1
    /\ queue' = << >>
    /\ struck' = (at \in {"look", "advance"})
    /\ calm' = (calm /\ ~struck')
    /\ wire' = IF calm' THEN wire ELSE << >>
    /\ gone' = IF calm' THEN gone \union { queue[i] : i \in DOMAIN queue } ELSE {}
    /\ ep' = [ep EXCEPT !.next = 0]
    /\ configured' = FALSE /\ again' = 0 /\ sent' = sent + again
    /\ UNCHANGED <<side, at, local, kept, done, packet, setup, hostPid>>

----------------------------------------------------------------------------
(* The host *)

\* The n bytes after the first `sent', n = again if they are sent again.
HostPacket(n) ==
    /\ side = "tx" /\ configured /\ setup \in {"none", "close"} /\ ep.avail
    /\ sent + n <= MaxBytes /\ again \in {0, n}
    /\ \E heard \in BOOLEAN :     \* the acknowledgement
         IF heard
         THEN hostPid' = 1 - hostPid /\ sent' = sent + n /\ again' = 0
         ELSE hostPid' = hostPid /\ sent' = sent /\ again' = n
    /\ IF ep.pid = hostPid
       THEN /\ packet' = [i \in 1..n |-> IF calm THEN sent + i ELSE 0]
            /\ ep' = [ep EXCEPT !.avail = FALSE, !.len = n]
            /\ done' = TRUE
       ELSE UNCHANGED <<packet, ep, done>>
    /\ UNCHANGED <<side, queue, loop, setup, configured, epoch, history>>

HostSetup(s) ==
    /\ side = "tx" /\ setup = "none" /\ (s = "config" \/ configured)
    /\ setup' = s
    /\ UNCHANGED <<side, queue, loop, ep, done, packet, configured, hostPid, again, epoch,
                   sent, history>>

Host == \/ \E n \in 1..MaxPacket : HostPacket(n)
        \/ \E s \in {"config", "clear", "close"} : HostSetup(s)

----------------------------------------------------------------------------
(* The UART's interrupt *)

\* The n bytes in the FIFO.
uart0_rx_isr(n) ==
    /\ side = "rx" /\ sent + n <= MaxBytes
    /\ Put([i \in 1..n |-> sent + i])
    /\ sent' = sent + n
    /\ UNCHANGED <<side, loop, usb, wire, calm>>

----------------------------------------------------------------------------
(* The main loop in uart_bridge_task.  The first test there is the loop's    *)
(* own once more: uart_driver_send of no bytes does nothing.                 *)

\* count < sizeof(local), then the first load of s_tx_tail.
Look == /\ at = "tx" /\ side = "tx" /\ Len(local) < Chunk
        /\ at' = "look"
        /\ UNCHANGED <<side, queue, struck, local, kept, usb, sent, history>>

\* s_tx_tail != s_tx_head, with a reset between the two loads perhaps.
Copy == /\ at = "look" /\ (queue # << >> \/ struck)
        /\ local' = Append(local, IF queue # << >> THEN Head(queue) ELSE 0)
        /\ at' = "advance"
        /\ UNCHANGED <<side, queue, struck, kept, usb, sent, history>>

\* Fault: the byte is taken, s_tx_tail is not stored.
AdvanceForgotten ==
    /\ at = "advance" /\ at' = "tx" /\ struck' = FALSE
    /\ queue' = queue
    /\ UNCHANGED <<side, local, kept, usb, sent, history>>

\* The store of s_tx_tail: one past the old one if a reset has zeroed it.
Advance == /\ at = "advance" /\ at' = "tx" /\ struck' = FALSE
           /\ IF struck THEN \E n \in 0..Capacity : queue' = [i \in 1..n |-> 0]
                        ELSE queue' = Tail(queue)
           /\ UNCHANGED <<side, local, kept, usb, sent, history>>

LoopOver == \/ at = "tx" /\ ~(side = "tx" /\ Len(local) < Chunk)
            \/ at = "look" /\ (queue = << >> \/ struck)

\* Fault: only a whole chunk is sent.
CopiedWhole ==
    /\ LoopOver /\ struck' = FALSE
    /\ at' = IF Len(local) \in 1..Chunk - 1 THEN "tx" ELSE "send"
    /\ UNCHANGED <<side, queue, local, kept, usb, sent, history>>

Copied == /\ LoopOver /\ struck' = FALSE
          /\ at' = "send"
          /\ UNCHANGED <<side, queue, local, kept, usb, sent, history>>

\* uart_putc_raw waits for room in the FIFO, which the UART makes.
uart_driver_send ==
    /\ at = "send"
    /\ IF local # << >>
       THEN /\ wire' = (IF calm THEN Append(wire, Head(local)) ELSE wire)
            /\ local' = Tail(local) /\ at' = at
       ELSE at' = "recv" /\ UNCHANGED <<local, wire>>
    /\ UNCHANGED <<side, queue, struck, kept, usb, sent, gone, calm>>

\* More of the bytes of s_rx_buf.
More == Len(local) < Chunk /\ queue # << >>

\* s_rx_tail is not volatile: the build may store it in each turn of the loop
\* or after it, and until then the interrupt sees the cells taken.
uart_driver_recv ==
    /\ at = "recv"
    /\ IF side = "rx" /\ More
       THEN /\ local' = Append(local, Head(queue)) /\ queue' = Tail(queue)
            /\ kept' \in {0, kept + 1} /\ at' = at
       ELSE /\ kept' = 0 /\ at' = (IF local = << >> THEN "tx" ELSE "usb")
            /\ UNCHANGED <<queue, local>>
    /\ UNCHANGED <<side, struck, usb, sent, history>>

\* uart_cdc_send has the chunk; what becomes of it is in BulkIn.
ToHost == /\ at = "usb" /\ at' = "tx"
          /\ wire' = wire \o local /\ local' = << >>
          /\ UNCHANGED <<side, queue, struck, kept, usb, sent, gone, calm>>

uart_bridge_task == Look \/ Copy \/ Advance \/ Copied \/ uart_driver_send \/ uart_driver_recv \/ ToHost

Next == \/ uart_data_out_handler \/ ServeSetup \/ usb_bus_reset
        \/ Host \/ (\E n \in 1..MaxPacket : uart0_rx_isr(n))
        \/ uart_bridge_task

Spec == Init /\ [][Next]_vars

\* The interrupt is served, and the main loop never stops: uart_putc_raw waits
\* for a UART that nothing can hold up, and uart_cdc_send for 50 ms at most.
FairSpec == Spec /\ WF_vars(uart_bridge_task) /\ WF_vars(uart_data_out_handler) /\ WF_vars(ServeSetup)

----------------------------------------------------------------------------
(* Properties *)

\* The byte copied last is in its cell until s_tx_tail has been stored.
Waiting == IF at = "advance" THEN Tail(queue) ELSE queue

\* What was taken from the host or the UART, oldest first.
Taken == wire \o local \o Waiting \o (IF done THEN Received ELSE << >>)

\* As long as no request has met a packet under way and no bus reset has struck
\* while the main loop was taking a byte, what was acknowledged comes out once and
\* in order, except for what was dropped at a full ring or flushed by a bus reset.
Accounted ==
    calm => /\ \A i, j \in DOMAIN Taken : i < j => Taken[i] < Taken[j]
            /\ { Taken[i] : i \in DOMAIN Taken } = 1..(sent + again) \ gone

\* A configured endpoint is armed, or a completion is there that arms it,
\* whatever the requests do to it: the host is never refused for good.
OutArmed == configured /\ setup = "none" => ep.avail \/ done

\* While calm, the endpoint is armed with the toggle of the host's next packet, or
\* will be: nothing the host sends is taken for a repetition.
InStep == calm /\ configured /\ setup \in {"none", "close"} =>
            /\ ep.avail => ep.pid = NextPid /\ ep.next = 1 - NextPid
            /\ done => ep.next = NextPid

OutInv == TypeOK /\ OutArmed /\ InStep

\* The header of uart_bridge.c says that the ring ends the silent drop of packets
\* when the UART is slow.
SlowUartDropsNothing == side = "tx" /\ epoch = 1 => gone = {}

\* A byte taken in does not stay in the firmware.
Held == { local[i] : i \in DOMAIN local } \union { queue[i] : i \in DOMAIN queue }
Drained == \A b \in 1..MaxBytes : (calm /\ b \in Held) ~> (~calm \/ b \notin Held)
=============================================================================
