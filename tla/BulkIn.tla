-------------------------------- MODULE BulkIn --------------------------------
(***************************************************************************)
(* The device-to-host pipe of usb_device.c: cdc_send on EP3 IN and         *)
(* uart_cdc_send on EP4 IN, which have the same text.  The main loop cuts  *)
(* a message into chunks and spins on the busy flag before it arms each;   *)
(* the interrupt clears the flag when the host has taken the packet; bus   *)
(* resets and control requests reach into the same state at any moment.    *)
(*                                                                         *)
(* The interrupt handler is atomic, the main loop is one action per access *)
(* to the shared state.  A packet is a number, counted in `sent'.          *)
(***************************************************************************)
EXTENDS Naturals, Sequences

CONSTANTS MaxChunks,   \* packets of a message
          MaxPackets,  \* bound: packets sent
          MaxResets    \* bound: bus resets

ASSUME BoundsAssumption == /\ MaxChunks \in Nat \ {0}
                           /\ MaxPackets \in Nat
                           /\ MaxResets \in Nat

VARIABLES uart,        \* which of the two: EP4 IN (TRUE) or EP3 IN
          configured, busy,          \* s_cdc_tx_busy or s_uart_cdc_tx_busy
          next_pid,    \* of the endpoint: the toggle of the next packet
          avail, pid,  \* AVAIL and PID of buffer_control
          dpram,       \* the packet in the endpoint's buffer
          latch,       \* the endpoint's bit of BUFF_STATUS
          place, chunks,  \* cdc_send: next access, chunks still to send
          toggle,      \* next_pid as cdc_send has read it
          hostPid,     \* the toggle the host expects
          enumerated,  \* the host has configured the device
          got,         \* packets the host has accepted since the last bus reset
          armed,       \* packets armed since the endpoint was last set up
          sent,        \* packets numbered so far
          base,        \* value of sent at the last bus reset
          resets,
          struck,      \* a bus reset came while the main loop was arming
          calm         \* nothing has cut into a transfer since the set-up

device == <<configured, busy, next_pid, avail, pid, dpram, latch>>
main == <<place, chunks, toggle>>
host == <<hostPid, enumerated, got>>
pipeHistory == <<armed, sent, base, resets, struck, calm>>
pipeVars == <<uart, device, main, host, pipeHistory>>

Pc == {"idle", "spin", "expire", "guard", "claim", "copy", "pid_load", "pid_flip",
       "disarm", "arm"}
Arming == {"claim", "copy", "pid_load", "pid_flip", "disarm", "arm"}
Numbers == 0..MaxPackets

PipeTypeOK == /\ {uart, configured, busy, avail, latch, enumerated, struck, calm} \subseteq BOOLEAN
              /\ {next_pid, pid, toggle, hostPid} \subseteq {0, 1}
              /\ {dpram, sent, base} \subseteq Numbers
              /\ place \in Pc
              /\ chunks \in 0..MaxChunks
              /\ resets \in 0..MaxResets
              /\ got \in Seq(Numbers) /\ armed \in Seq(Numbers)

PipeInit == /\ uart \in BOOLEAN
            /\ configured = FALSE /\ busy = FALSE /\ avail = FALSE /\ latch = FALSE
            /\ enumerated = FALSE
            /\ next_pid = 0 /\ pid = 0 /\ toggle = 0 /\ hostPid = 0
            /\ dpram = 0 /\ sent = 0 /\ base = 0 /\ resets = 0
            /\ place = "idle" /\ chunks = 0
            /\ got = << >> /\ armed = << >>
            /\ struck = FALSE /\ calm = FALSE

Flip(b) == 1 - b

----------------------------------------------------------------------------
(* The main loop: cdc_send, uart_cdc_send *)

Return == place' = "idle" /\ chunks' = 0 /\ toggle' = 0

\* A message of n chunks.
Send(n) == /\ place = "idle"
           /\ sent + n <= MaxPackets
           /\ place' = "spin" /\ chunks' = n
           /\ UNCHANGED <<uart, device, toggle, host, pipeHistory>>

\* Fault: no waiting for the packet before.
SpinNot == /\ place = "spin"
           /\ place' = "guard"
           /\ UNCHANGED <<uart, device, chunks, toggle, host, pipeHistory>>

\* while (s_cdc_tx_busy)
Spin == /\ place = "spin"
        /\ ~busy
        /\ place' = "guard"
        /\ UNCHANGED <<uart, device, chunks, toggle, host, pipeHistory>>

\* Fault: no timeout.
ExpireNever == /\ place = "spin"
               /\ busy
               /\ UNCHANGED pipeVars

\* Fifty milliseconds have gone by with the flag set.
Expire == /\ place = "spin"
          /\ busy
          /\ place' = "expire"
          /\ UNCHANGED <<uart, device, chunks, toggle, host, pipeHistory>>

\* The flag is let go and the rest of the message is given up; the packet in
\* the buffer stays armed.
GiveUp == /\ place = "expire"
          /\ busy' = FALSE
          /\ calm' = FALSE
          /\ Return
          /\ UNCHANGED <<uart, configured, next_pid, avail, pid, dpram, latch, host,
                         armed, sent, base, resets, struck>>

\* if (!configured) return
Guard == /\ place = "guard"
         /\ \/ configured /\ place' = "claim" /\ UNCHANGED <<chunks, toggle>>
            \/ ~configured /\ Return
         /\ UNCHANGED <<uart, device, host, pipeHistory>>

Claim == /\ place = "claim"
         /\ busy' = TRUE
         /\ place' = "copy"
         /\ UNCHANGED <<uart, configured, next_pid, avail, pid, dpram, latch, chunks, toggle,
                        host, pipeHistory>>

\* usb_start_transfer: memcpy into the endpoint's buffer
Copy == /\ place = "copy"
        /\ sent' = sent + 1
        /\ dpram' = sent'
        /\ place' = "pid_load"
        /\ UNCHANGED <<uart, configured, busy, next_pid, avail, pid, latch, chunks, toggle,
                       host, armed, base, resets, struck, calm>>

PidLoad == /\ place = "pid_load"
           /\ toggle' = next_pid
           /\ place' = "pid_flip"
           /\ UNCHANGED <<uart, device, chunks, host, pipeHistory>>

PidFlip == /\ place = "pid_flip"
           /\ next_pid' = Flip(toggle)
           /\ place' = "disarm"
           /\ UNCHANGED <<uart, configured, busy, avail, pid, dpram, latch, chunks, toggle,
                          host, pipeHistory>>

\* *buffer_control = val & ~AVAIL
Disarm == /\ place = "disarm"
          /\ avail' = FALSE
          /\ pid' = toggle
          /\ place' = "arm"
          /\ UNCHANGED <<uart, configured, busy, next_pid, dpram, latch, chunks, toggle,
                         host, pipeHistory>>

\* *buffer_control = val; off += chunk
Arm == /\ place = "arm"
       /\ avail' = TRUE
       /\ pid' = toggle
       /\ armed' = Append(armed, dpram)
       /\ chunks' = chunks - 1
       /\ place' = IF chunks = 1 THEN "idle" ELSE "spin"
       /\ toggle' = 0
       /\ UNCHANGED <<uart, configured, busy, next_pid, dpram, latch, host,
                      sent, base, resets, struck, calm>>

Main == Spin \/ Expire \/ GiveUp \/ Guard \/ Claim \/ Copy \/ PidLoad \/ PidFlip
        \/ Disarm \/ Arm

----------------------------------------------------------------------------
(* The host and the interrupt *)

\* An IN token finds the buffer armed: the packet goes out, the host keeps it
\* if the toggle is the one it expects and takes it for a repetition if not.
Poll == /\ enumerated /\ avail
        /\ avail' = FALSE
        /\ latch' = TRUE
        /\ IF pid = hostPid
           THEN got' = Append(got, dpram) /\ hostPid' = Flip(hostPid)
           ELSE UNCHANGED <<got, hostPid>>
        /\ UNCHANGED <<uart, configured, busy, next_pid, pid, dpram, main, enumerated,
                       pipeHistory>>

\* Fault: the handler leaves the flag.
CompleteForgets == /\ latch
                   /\ latch' = FALSE
                   /\ UNCHANGED <<uart, configured, busy, next_pid, avail, pid, dpram, main,
                                  host, pipeHistory>>

\* usb_handle_buff_status, cdc_data_in_handler
Complete == /\ latch
            /\ latch' = FALSE
            /\ busy' = FALSE
            /\ UNCHANGED <<uart, configured, next_pid, avail, pid, dpram, main, host, pipeHistory>>

\* Nothing is in the buffer and the main loop is not putting anything there.
Quiet == ~avail /\ place \notin Arming

\* Fault: the buffer is left as it is.
usb_bus_reset_leaves_buffer ==
            /\ resets < MaxResets
            /\ resets' = resets + 1
            /\ configured' = FALSE /\ busy' = FALSE /\ next_pid' = 0
            /\ latch' = FALSE
            /\ hostPid' = 0 /\ enumerated' = FALSE /\ got' = << >>
            /\ base' = sent
            /\ struck' = (struck \/ place \in Arming)
            /\ armed' = << >> /\ calm' = FALSE
            /\ UNCHANGED <<uart, avail, pid, dpram, main, sent>>

\* usb_bus_reset, for this endpoint.  A latched completion is served before it
\* by the same interrupt.
usb_bus_reset == /\ resets < MaxResets
                 /\ resets' = resets + 1
                 /\ configured' = FALSE /\ busy' = FALSE /\ next_pid' = 0
                 /\ avail' = FALSE /\ pid' = 0 /\ latch' = FALSE
                 /\ hostPid' = 0 /\ enumerated' = FALSE /\ got' = << >>
                 /\ base' = sent
                 /\ struck' = (struck \/ place \in Arming)
                 /\ armed' = << >> /\ calm' = FALSE
                 /\ UNCHANGED <<uart, dpram, main, sent>>

\* usb_set_device_configuration: the buffer is left as it is, and so is the
\* busy flag of EP4.
SetConfiguration ==
    /\ configured' = TRUE
    /\ next_pid' = 0
    /\ busy' = (IF uart THEN busy /\ ~latch ELSE FALSE)
    /\ latch' = FALSE
    /\ hostPid' = 0 /\ enumerated' = TRUE
    /\ got' = << >> /\ armed' = << >>
    /\ calm' = (Quiet /\ ~busy)
    /\ UNCHANGED <<uart, avail, pid, dpram, main, sent, base, resets, struck>>

\* usb_handle_clear_feature(ENDPOINT_HALT): both sides start from DATA0.
ClearHalt == /\ enumerated
             /\ next_pid' = 0
             /\ hostPid' = 0
             /\ busy' = (busy /\ ~latch)
             /\ latch' = FALSE
             /\ calm' = (calm /\ Quiet)
             /\ UNCHANGED <<uart, configured, avail, pid, dpram, main, enumerated, got,
                            armed, sent, base, resets, struck>>

\* SET_CONTROL_LINE_STATE on the protocol port, opened or closed.
LineStateCdc == /\ enumerated /\ ~uart
                /\ busy' = FALSE
                /\ latch' = FALSE
                /\ calm' = (calm /\ Quiet)
                /\ UNCHANGED <<uart, configured, next_pid, avail, pid, dpram, main, host,
                               armed, sent, base, resets, struck>>

\* SET_CONTROL_LINE_STATE with DTR = 0 on the serial port.  The host's toggle
\* is not touched: no request of the standard resets it here.
CloseUart == /\ enumerated /\ uart
             /\ busy' = FALSE /\ next_pid' = 0
             /\ avail' = FALSE /\ pid' = 0 /\ latch' = FALSE
             /\ calm' = (calm /\ Quiet /\ next_pid = 0)
             /\ UNCHANGED <<uart, configured, dpram, main, host, armed, sent, base, resets, struck>>

Interrupt == Complete \/ usb_bus_reset \/ SetConfiguration \/ ClearHalt \/ LineStateCdc \/ CloseUart

PipeNext == (\E n \in 1..MaxChunks : Send(n)) \/ Main \/ Poll \/ Interrupt

PipeSpec == PipeInit /\ [][PipeNext]_pipeVars
FairPipeSpec == PipeSpec /\ WF_pipeVars(Main)

----------------------------------------------------------------------------
(* Properties *)

\* Between set-up and the first thing that cuts into a transfer the host has
\* every packet that was armed, once and in order, but for the one in the
\* buffer.
Delivered == calm => armed = got \o (IF avail THEN <<dpram>> ELSE << >>)

\* The flag is set only while something will clear it: a packet the host can
\* take, a completion not yet served, or the arming itself.
BusyIsLive == busy /\ place \notin Arming => avail \/ latch

\* cdc_send returns, whether or not the host ever reads.
SendReturns == (place # "idle") ~> (place = "idle")

\* What usb_bus_reset clears buffer_control for, and cdc_send tests configured for: a
\* packet of before the bus reset reaches the host after it only if the reset struck the
\* main loop between that test and the arming, and then as the first packet alone.
Phantoms == /\ ~struck => \A i \in 1..Len(got) : got[i] > base
            /\ \A i \in 2..Len(got) : got[i] > base

\* What SET_CONTROL_LINE_STATE does on closing the serial port, "reset EP4 IN
\* completely so that the next opening starts without residual state": with
\* nothing in flight, device and host agree on the toggle of the next packet.
CleanClose == [][CloseUart /\ calm /\ Quiet => next_pid' = hostPid']_pipeVars
=============================================================================
