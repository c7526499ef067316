--------------------------- MODULE UsbControlProofs ---------------------------
(***************************************************************************)
(* For every table of descriptors, packet size and set of requests: what   *)
(* EP0 sends lies within ep0_pending_buf; the baud rate of the serial port *)
(* is only ever the one asked for; a transfer that starts with nothing     *)
(* left over ends as it should; device and host agree on the address; and  *)
(* a host that reads the configuration gets the whole of it, and tables    *)
(* that agree.                                                             *)
(***************************************************************************)
EXTENDS Enumeration, FiniteSetTheorems, Induction

\* The constants, in pieces the provers can use.
LEMMA Sizes == /\ MaxPacket \in Nat \ {0} /\ BufSize \in Nat
               /\ ItemLen \in [Kinds -> Nat] /\ "lc" \in Kinds
               /\ 0 \in Bauds /\ Fixed \in Bauds /\ Bauds \subseteq Nat
  BY ControlAssumption

\* Zero is within the buffer, and is the address of a device without one.
LEMMA ZeroSent == 0 \in 0..BufSize /\ 0 \in 0..127
  BY Sizes

\* What a request carries.
LEMMA RequestFields == ASSUME NEW r \in Requests
                       PROVE  /\ r.req \in Names /\ r.wIndex \in {0, 2} /\ r.wLength \in Nat
                              /\ r.req = "SET_ADDRESS" => r.arg \in 1..127
                              /\ r.req = "SET_LINE_CODING" => r.arg \in Bauds
                              /\ r.req = "GET_DESCRIPTOR" => r.kind \in Kinds \union {"unsupported"}
  BY ControlAssumption

----------------------------------------------------------------------------
(* What the handlers keep *)

\* Arming EP0 IN with a packet within the buffer.
LEMMA StartInType == ASSUME NEW e \in Device, NEW pkt \in Packets
                     PROVE  StartIn(e, pkt) \in Device
<1> DEFINE b == IF pkt.len > 0 THEN Junk ELSE e.buf
           k == 1 - e.inNext
<1>1. b \in Bauds \union {Junk} /\ k \in {0, 1}
  BY DEF Device
<1>2. StartIn(e, pkt) = [e EXCEPT !.inAvail = TRUE, !.inPid = e.inNext, !.inNext = k,
                                  !.inPkt = pkt, !.stall = FALSE, !.buf = b]
  BY DEF StartIn
<1> HIDE DEF b, k
<1> QED
  BY ZenonT(60), <1>1, <1>2 DEF Device

\* Arming EP0 OUT.
LEMMA StartOutType == ASSUME NEW e \in Device, NEW len \in {0, 7}
                      PROVE  StartOut(e, len) \in Device
  BY DEF StartOut, Device

\* The packet that carries nothing, and the item it names.
LEMMA ZlpType == None \in Items /\ Zlp \in Packets
  BY Sizes DEF None, Item, Items, Zlp, Packets

\* Forgetting what was being sent.
LEMMA EmptiedType == ASSUME NEW e \in Device PROVE Emptied(e) \in Device
  BY ZlpType, ZeroSent DEF Emptied, Device

\* A piece that starts within what is to be sent is within the buffer.
LEMMA PieceType == ASSUME NEW e \in Device, NEW off \in 0..e.total
                   PROVE  /\ Piece(e, off) \in Packets
                          /\ off + Piece(e, off).len \in 0..e.total
<1> DEFINE left == e.total - off
<1>1. e.total \in 0..BufSize /\ e.item \in Items
  BY DEF Device
<1>2. /\ Least(MaxPacket, left) \in 0..MaxPacket
      /\ off + Least(MaxPacket, left) \in 0..e.total
  BY <1>1, Sizes DEF Least
<1> QED
  BY <1>1, <1>2, Sizes DEF Piece, Packets

\* Beginning to send an item.
LEMMA BeginType == ASSUME NEW e \in Device, NEW item \in Items, item.kind \in Kinds,
                          NEW w \in Nat
                   PROVE  usb_ep0_in_begin(e, item, w) \in Device
<1> DEFINE total == Least(Least(ItemLen[item.kind], w), BufSize)
           b == [e EXCEPT !.item = item, !.total = total, !.inNext = 1]
<1>1. total \in 0..BufSize
  <2>1. ItemLen[item.kind] \in Nat
    BY Sizes
  <2> QED
    BY <2>1, Sizes DEF Least
<1>2. b \in Device /\ b.total = total
  <2> HIDE DEF total
  <2> QED
    BY ZenonT(30), <1>1 DEF Device
<1>3. Piece(b, 0) \in Packets
  <2> HIDE DEF total, b
  <2>1. 0 \in 0..b.total
    BY <1>1, <1>2, Sizes
  <2> QED
    BY <1>2, <2>1, PieceType
<1>4. StartIn(b, Piece(b, 0)) \in Device
  BY <1>2, <1>3, StartInType
<1>5. Least(MaxPacket, total) \in 0..BufSize
  BY <1>1, Sizes DEF Least
<1>6. usb_ep0_in_begin(e, item, w)
        = [StartIn(b, Piece(b, 0)) EXCEPT !.sent = Least(MaxPacket, total)]
  BY DEF usb_ep0_in_begin
<1> HIDE DEF total, b
<1> QED
  BY <1>4, <1>5, <1>6 DEF Device

\* Acknowledging and refusing.
LEMMA AnswerType == ASSUME NEW e \in Device
                    PROVE  /\ usb_acknowledge_out_request(e) \in Device
                           /\ usb_stall_ep0_in(e) \in Device
<1>1. [Emptied(e) EXCEPT !.inNext = 1] \in Device
  BY EmptiedType DEF Device
<1>2. usb_acknowledge_out_request(e) \in Device
  BY <1>1, StartInType, ZlpType DEF usb_acknowledge_out_request
<1>3. usb_stall_ep0_in(e) \in Device
  <2> DEFINE m == Emptied(e)
  <2>1. m \in Device /\ usb_stall_ep0_in(e)
                          = [m EXCEPT !.inAvail = FALSE, !.inPid = 0, !.inPkt = Zlp, !.stall = TRUE]
    BY EmptiedType DEF usb_stall_ep0_in
  <2> HIDE DEF m
  <2> QED
    BY ZenonT(30), <2>1, ZlpType DEF Device
<1> QED
  BY <1>2, <1>3

\* Every SETUP packet.
LEMMA SetupType == ASSUME NEW e0 \in Device, NEW r \in Requests
                   PROVE  usb_handle_setup_packet(e0, r) \in Device
<1> DEFINE e == [e0 EXCEPT !.inNext = 1]
<1>0. e \in Device /\ e.baud \in Bauds \union {Junk}
  BY DEF Device
<1> USE RequestFields
<1>1. CASE r.req = "SET_ADDRESS"
  <2>0. r.arg \in 0..127
    BY <1>1
  <2>1. [e EXCEPT !.pending_addr = r.arg] \in Device
    BY ZenonT(30), <1>0, <2>0 DEF Device
  <2> QED
    BY <1>1, <2>1, AnswerType DEF usb_handle_setup_packet, usb_set_device_address
<1>2. CASE r.req = "SET_CONFIGURATION"
  <2> DEFINE a == usb_acknowledge_out_request(e)
  <2>1. a \in Device
    BY <1>0, AnswerType
  <2>2. usb_handle_setup_packet(e0, r) = [a EXCEPT !.inNext = 0, !.outNext = 0]
    BY <1>2 DEF usb_handle_setup_packet, usb_set_device_configuration
  <2> HIDE DEF a
  <2> QED
    BY ZenonT(30), <2>1, <2>2 DEF Device
<1>3. CASE r.req = "SET_LINE_CODING"
  <2>1. [e EXCEPT !.lc = r.wIndex] \in Device
    BY ZenonT(30), <1>0 DEF Device
  <2> QED
    BY <1>3, <2>1, StartOutType DEF usb_handle_setup_packet, SetLineCoding
<1>4. CASE r.req = "GET_DESCRIPTOR"
  <2>1. CASE r.kind = "unsupported"
    BY <1>0, <1>4, <2>1, AnswerType DEF usb_handle_setup_packet, GetDescriptor
  <2>2. CASE r.kind # "unsupported"
    <3>1. Item(r.kind, 0) \in Items /\ Item(r.kind, 0).kind \in Kinds
      BY <1>4, <2>2, Sizes DEF Item, Items
    <3> QED
      BY <1>0, <1>4, <2>2, <3>1, BeginType DEF usb_handle_setup_packet, GetDescriptor
  <2> QED
    BY <2>1, <2>2
<1>5. CASE r.req = "GET_LINE_CODING"
  <2> DEFINE i == Item("lc", IF r.wIndex = 2 THEN e.baud ELSE Fixed)
  <2>1. i \in Items /\ i.kind \in Kinds
    BY <1>0, Sizes DEF Item, Items
  <2>2. usb_handle_setup_packet(e0, r) = usb_ep0_in_begin(e, i, r.wLength)
    BY <1>5 DEF usb_handle_setup_packet, GetLineCoding
  <2> HIDE DEF i, e
  <2> QED
    BY <1>0, <2>1, <2>2, BeginType
<1>6. CASE r.req = "CLEAR_FEATURE"
  BY <1>0, <1>6, AnswerType DEF usb_handle_setup_packet
<1> QED
  BY <1>1, <1>2, <1>3, <1>4, <1>5, <1>6 DEF Names

\* A completion on EP0 IN.
LEMMA InType == ASSUME NEW e \in Device PROVE ep0_in_handler(e) \in Device
<1>1. CASE e.pending_addr # 0
  <2> DEFINE m == Emptied(e)
  <2>1. m \in Device /\ ep0_in_handler(e)
                          = [m EXCEPT !.dev_addr = e.pending_addr, !.pending_addr = 0]
    BY <1>1, EmptiedType DEF ep0_in_handler
  <2>2. e.pending_addr \in 0..127
    BY DEF Device
  <2> HIDE DEF m
  <2> QED
    BY ZenonT(60), <2>1, <2>2, ZeroSent DEF Device
<1>2. CASE e.pending_addr = 0 /\ e.sent < e.total
  <2> DEFINE p == Piece(e, e.sent)
             a == StartIn(e, p)
  <2>1. e.sent \in 0..e.total /\ e.total \in 0..BufSize
    BY <1>2, Sizes DEF Device
  <2>2. p \in Packets /\ e.sent + p.len \in 0..BufSize
    <3> HIDE DEF p
    <3>1. p \in Packets /\ e.sent + p.len \in 0..e.total
      BY <2>1, PieceType DEF p
    <3> QED
      BY <2>1, <3>1, Sizes
  <2>3. a \in Device
    <3> HIDE DEF p
    <3> QED
      BY <2>2, StartInType
  <2>4. ep0_in_handler(e) = [a EXCEPT !.sent = e.sent + p.len]
    BY <1>2 DEF ep0_in_handler
  <2> HIDE DEF p, a
  <2> QED
    BY <2>2, <2>3, <2>4 DEF Device
<1>3. CASE e.pending_addr = 0 /\ ~(e.sent < e.total)
  BY <1>3, EmptiedType, StartOutType DEF ep0_in_handler
<1> QED
  BY <1>1, <1>2, <1>3

\* A completion on EP0 OUT.
LEMMA OutType == ASSUME NEW e \in Device PROVE ep0_out_handler(e) \in Device
<1>1. CASE e.lc = Idle
  BY <1>1 DEF ep0_out_handler
<1>2. CASE e.lc # Idle
  <2> DEFINE b == IF e.outLen >= 7 /\ e.lc = 2 /\ e.buf # 0 THEN e.buf ELSE e.baud
             m == [e EXCEPT !.baud = b, !.lc = Idle, !.inNext = 1]
  <2>1. b \in Bauds \union {Junk}
    BY DEF Device
  <2>2. m \in Device
    <3> HIDE DEF b
    <3> QED
      BY <2>1 DEF Device
  <2>3. ep0_out_handler(e) = StartIn(m, Zlp)
    BY <1>2 DEF ep0_out_handler
  <2> HIDE DEF m
  <2> QED
    BY <2>2, <2>3, StartInType, ZlpType
<1> QED
  BY <1>1, <1>2

\* Both, and the bus reset.
LEMMA ServeType == ASSUME NEW e \in Device, NEW bits
                   PROVE  /\ usb_handle_buff_status(e, bits) \in Device
                          /\ usb_bus_reset(e) \in Device
<1> DEFINE a == IF "in" \in bits THEN ep0_in_handler(e) ELSE e
           b == ep0_out_handler(a)
           m == Emptied(e)
<1>1. a \in Device
  BY InType
<1>2. b \in Device
  <2> HIDE DEF a
  <2> QED
    BY <1>1, OutType
<1>3. usb_handle_buff_status(e, bits) = IF "out" \in bits THEN [b EXCEPT !.outLen = 0, !.buf = Junk]
                                        ELSE a
  BY DEF usb_handle_buff_status
<1>4. usb_handle_buff_status(e, bits) \in Device
  <2> HIDE DEF a, b
  <2>1. [b EXCEPT !.outLen = 0, !.buf = Junk] \in Device
    BY <1>2 DEF Device
  <2> QED
    BY <1>1, <1>3, <2>1
<1>5. m \in Device /\ usb_bus_reset(e) = [m EXCEPT !.pending_addr = 0, !.dev_addr = 0, !.lc = Idle,
                                                   !.inNext = 0, !.outNext = 0]
  BY EmptiedType DEF usb_bus_reset
<1>6. usb_bus_reset(e) \in Device
  <2> HIDE DEF a, b, m
  <2> DEFINE k == [m EXCEPT !.pending_addr = 0, !.dev_addr = 0]
             l == [k EXCEPT !.lc = Idle]
  <2>1. k \in Device
    BY <1>5, ZeroSent DEF Device
  <2>2. l \in Device
    <3> HIDE DEF k
    <3> QED
      BY <2>1 DEF Device
  <2>3. [l EXCEPT !.inNext = 0, !.outNext = 0] \in Device
    <3> HIDE DEF l
    <3> QED
      BY <2>2 DEF Device
  <2>4. usb_bus_reset(e) = [l EXCEPT !.inNext = 0, !.outNext = 0]
    BY <1>5 DEF Device
  <2> QED
    BY <2>3, <2>4
<1> QED
  BY <1>4, <1>6

\* What an OUT packet and a SETUP packet do to the registers of EP0.
LEMMA OutPacketType == ASSUME NEW e \in Device, NEW len \in {0, 4, 7},
                              NEW buf \in Bauds \union {Junk}
                       PROVE  [e EXCEPT !.outAvail = FALSE, !.outLen = len, !.buf = buf] \in Device
  BY DEF Device

\* A SETUP packet, whatever becomes of the packets armed.
LEMMA SetupPacketType == ASSUME NEW e \in Device, NEW len \in {0, 4, 7}, NEW avail \in BOOLEAN,
                                NEW p \in {0, 1}, NEW pkt \in Packets
                         PROVE  [e EXCEPT !.outAvail = FALSE, !.stall = FALSE, !.buf = Junk,
                                          !.outLen = len, !.inAvail = avail, !.inPid = p,
                                          !.inPkt = pkt] \in Device
  BY ZenonT(30) DEF Device

----------------------------------------------------------------------------
(* The types *)

\* The types hold at the start.
LEMMA TypeAtInit == Init => TypeOK /\ DataOut
<1> SUFFICES ASSUME Init PROVE TypeOK /\ DataOut
  OBVIOUS
<1>1. Fixed \in Bauds \union {Junk} /\ Junk \in Bauds \union {Junk} /\ Idle \in {0, 2, Idle}
  BY Sizes
<1>2. d \in Device
  <2> HIDE DEF Zlp, None
  <2> QED
    BY <1>1, ZlpType, ZeroSent DEF Init, Device
<1>3. /\ setup = FALSE /\ latch = {} /\ reset = FALSE /\ pc = "idle" /\ rest = {}
      /\ stage = "idle" /\ req \in Requests /\ hostPid = 0 /\ hostAddr = 0
      /\ first = None /\ n = 0 /\ sound = TRUE /\ result = "none"
      /\ clean = FALSE /\ tidy = FALSE /\ overtaken = FALSE
  BY Zenon DEF Init
<1> QED
  BY <1>2, <1>3, ZlpType, ZeroSent DEF TypeOK, DataOut

\* And every step keeps them.
LEMMA TypeStep == TypeOK /\ DataOut /\ [Next]_vars => TypeOK' /\ DataOut'
<1> SUFFICES ASSUME TypeOK, DataOut, [Next]_vars PROVE TypeOK' /\ DataOut'
  OBVIOUS
<1> USE DEF TypeOK, DataOut, interrupt, host, history
<1>1. CASE Enter
  <2>1. d' \in Device
    BY <1>1, SetupType DEF Enter
  <2>2. latch' \subseteq {"in", "out"} /\ rest' \subseteq {"buff", "reset"} /\ pc' = "rest"
        /\ setup' = FALSE
    BY <1>1 DEF Enter
  <2>3. UNCHANGED <<reset, host, history>>
    BY <1>1 DEF Enter
  <2> HIDE DEF Device
  <2> QED
    BY ZenonT(60), <2>1, <2>2, <2>3
<1>2. CASE Serve
  <2> DEFINE e == IF "buff" \in rest THEN usb_handle_buff_status(d, latch) ELSE d
  <2>1. e \in Device
    BY ServeType
  <2>2. d' = IF "reset" \in rest THEN usb_bus_reset(e) ELSE e
    BY <1>2 DEF Serve
  <2>3. d' \in Device
    <3> HIDE DEF e
    <3> QED
      BY <2>1, <2>2, ServeType
  <2> QED
    BY ZenonT(30), <1>2, <2>3 DEF Serve
<1>3. CASE HostIn
  <2>1. d' \in Device
    BY ZenonT(60), <1>3, ZlpType DEF HostIn, Device
  <2>2. d.inPkt.item \in Items /\ d.inPkt.len \in Nat /\ d.inPkt.off \in Nat
    BY Sizes DEF Device, Packets
  <2>3. req.req = "SET_ADDRESS" => req.arg \in 0..127
    BY RequestFields
  <2>4. /\ first' \in Items /\ n' \in Nat /\ hostPid' \in {0, 1}
        /\ stage' \in {"idle", "dataIn", "statusOut", "dataOut", "statusIn"}
        /\ hostAddr' \in 0..127 /\ sound' \in BOOLEAN /\ result' \in {"none", "ok", "stall"}
        /\ stage' # "dataOut"
    <3>1. CASE d.inPid = hostPid
      BY <1>3, <2>2, <2>3, <3>1 DEF HostIn
    <3>2. CASE d.inPid # hostPid
      BY <1>3, <3>2 DEF HostIn
    <3> QED
      BY <3>1, <3>2
  <2> QED
    BY <1>3, <2>1, <2>4 DEF HostIn
<1>4. CASE HostStalled
  BY <1>4 DEF HostStalled
<1>5. CASE HostOut
  <2> DEFINE len == IF stage = "statusOut" THEN 0 ELSE IF req.kind = "short" THEN 4 ELSE 7
             buf == IF stage = "statusOut" THEN d.buf ELSE req.arg
  <2>1. len \in {0, 4, 7} /\ buf \in Bauds \union {Junk}
    BY <1>5, RequestFields DEF HostOut, Device
  <2>2. d' = d \/ d' = [d EXCEPT !.outAvail = FALSE, !.outLen = len, !.buf = buf]
    BY <1>5 DEF HostOut
  <2>3. d' \in Device
    <3> HIDE DEF len, buf
    <3>1. d \in Device
      OBVIOUS
    <3>2. [d EXCEPT !.outAvail = FALSE, !.outLen = len, !.buf = buf] \in Device
      BY <2>1, <3>1, OutPacketType
    <3> QED
      BY <2>2, <3>1, <3>2
  <2> QED
    BY <1>5, <2>3 DEF HostOut
<1>6. ASSUME NEW r \in Requests, HostSetup(r) PROVE TypeOK' /\ DataOut'
  <2>1. PICK keep \in BOOLEAN :
          d' = [d EXCEPT !.outAvail = FALSE, !.stall = FALSE, !.buf = Junk,
                         !.outLen = IF "out" \in latch' THEN d.outLen ELSE 0,
                         !.inAvail = d.inAvail /\ keep,
                         !.inPid = IF keep THEN d.inPid ELSE 0,
                         !.inPkt = IF keep THEN d.inPkt ELSE Zlp]
    BY <1>6 DEF HostSetup
  <2> DEFINE len == IF "out" \in latch' THEN d.outLen ELSE 0
             avail == d.inAvail /\ keep
             pid == IF keep THEN d.inPid ELSE 0
             pkt == IF keep THEN d.inPkt ELSE Zlp
  <2>2. len \in {0, 4, 7} /\ avail \in BOOLEAN /\ pid \in {0, 1} /\ pkt \in Packets
    BY ZlpType DEF Device
  <2>3. d' = [d EXCEPT !.outAvail = FALSE, !.stall = FALSE, !.buf = Junk, !.outLen = len,
                       !.inAvail = avail, !.inPid = pid, !.inPkt = pkt]
    BY <2>1
  <2>4. d' \in Device
    <3> HIDE DEF len, avail, pid, pkt
    <3> QED
      BY ZenonT(30), <2>2, <2>3, SetupPacketType
  <2>5. clean' \in BOOLEAN /\ tidy' \in BOOLEAN /\ overtaken' \in BOOLEAN
    BY <1>6 DEF HostSetup, Remains
  <2> QED
    BY <1>6, <2>4, <2>5, ZlpType DEF HostSetup, FirstStage, IsIn
<1>7. CASE Abort
  BY <1>7, ZlpType DEF Abort
<1>8. CASE BusReset
  BY <1>8, ZlpType DEF BusReset
<1>9. CASE UNCHANGED vars
  BY <1>9 DEF vars
<1> QED
  BY <1>1, <1>2, <1>3, <1>4, <1>5, <1>6, <1>7, <1>8, <1>9 DEF Next, Interrupt, Tokens

\* For every value of the constants the device's state is well formed; in
\* particular what is armed on EP0 IN lies within ep0_pending_buf.
THEOREM ControlTypeCorrect == Spec => []TypeOK
<1>1. Init => TypeOK /\ DataOut
  BY TypeAtInit
<1>2. TypeOK /\ DataOut /\ [Next]_vars => TypeOK' /\ DataOut'
  BY TypeStep
<1> QED
  BY <1>1, <1>2, PTL DEF Spec

----------------------------------------------------------------------------
(* The baud rate *)

\* What a SETUP packet does to the line coding.
LEMMA SetupEffect == ASSUME NEW e0 \in Device, NEW r \in Requests
                     PROVE  LET a == usb_handle_setup_packet(e0, r)
                            IN  /\ a.baud = e0.baud
                                /\ r.req = "SET_LINE_CODING"
                                     => a.lc = r.wIndex /\ a.inAvail = e0.inAvail
<1> USE RequestFields
<1>1. CASE r.req = "SET_LINE_CODING"
  BY <1>1 DEF usb_handle_setup_packet, SetLineCoding, StartOut, Device
<1>2. CASE r.req \in {"SET_ADDRESS", "CLEAR_FEATURE", "SET_CONFIGURATION"}
  BY <1>2 DEF usb_handle_setup_packet, usb_set_device_address, usb_set_device_configuration,
              usb_acknowledge_out_request, StartIn, Emptied, Device
<1>3. CASE r.req = "GET_DESCRIPTOR"
  BY <1>3 DEF usb_handle_setup_packet, GetDescriptor, usb_stall_ep0_in, usb_ep0_in_begin,
              StartIn, Emptied, Device
<1>4. CASE r.req = "GET_LINE_CODING"
  BY <1>4 DEF usb_handle_setup_packet, GetLineCoding, usb_ep0_in_begin, StartIn, Device
<1> QED
  BY <1>1, <1>2, <1>3, <1>4 DEF Names

\* What the completions do to it.
LEMMA InEffect == ASSUME NEW e \in Device
                  PROVE  /\ ep0_in_handler(e).baud = e.baud /\ ep0_in_handler(e).lc = e.lc
                         /\ ep0_in_handler(e).outLen \in {e.outLen, 0}
  BY DEF ep0_in_handler, StartIn, StartOut, Emptied, Device

\* A completion on EP0 OUT closes the line coding and may set the rate.
LEMMA OutEffect == ASSUME NEW e \in Device
                   PROVE  /\ ep0_out_handler(e).lc = Idle
                          /\ \/ ep0_out_handler(e).baud = e.baud
                             \/ e.lc = 2 /\ e.outLen = 7 /\ ep0_out_handler(e).baud = e.buf
  BY DEF ep0_out_handler, StartIn, Device, Idle

\* The second half of the interrupt, by what it finds latched.
LEMMA ServeEffect ==
  ASSUME TypeOK, NEW bits
  PROVE  LET e == usb_handle_buff_status(d, bits)
         IN  /\ bits = {} => e = d
             /\ "out" \in bits => e.lc = Idle
             /\ "out" \notin bits => e.lc = d.lc /\ e.baud = d.baud
             /\ bits \cap {"in", "out"} = {} => e = d
             /\ e.baud # d.baud => d.lc = 2 /\ d.outLen = 7 /\ ("in" \notin bits => e.baud = d.buf)
<1> DEFINE a == IF "in" \in bits THEN ep0_in_handler(d) ELSE d
           b == ep0_out_handler(a)
           e == usb_handle_buff_status(d, bits)
<1>1. d \in Device
  BY DEF TypeOK
<1>2. a \in Device /\ a.lc = d.lc /\ a.baud = d.baud /\ a.outLen \in {d.outLen, 0}
  BY <1>1, InType, InEffect
<1>3. /\ b \in Device /\ b.lc = Idle
      /\ b.baud = a.baud \/ (a.lc = 2 /\ a.outLen = 7 /\ b.baud = a.buf)
  <2> HIDE DEF a
  <2> QED
    BY <1>2, OutType, OutEffect
<1>4. e = IF "out" \in bits THEN [b EXCEPT !.outLen = 0, !.buf = Junk] ELSE a
  BY DEF usb_handle_buff_status
<1>5. "in" \notin bits => a = d
  OBVIOUS
<1>6. CASE "out" \in bits
  <2>1. e.lc = b.lc /\ e.baud = b.baud
    <3> HIDE DEF b
    <3> QED
      BY <1>3, <1>4, <1>6 DEF Device
  <2> HIDE DEF a, b
  <2> QED
    BY <1>2, <1>3, <1>5, <1>6, <2>1
<1>7. CASE "out" \notin bits
  <2> HIDE DEF a, b
  <2> QED
    BY <1>2, <1>4, <1>5, <1>7
<1> QED
  BY <1>6, <1>7

\* A bus reset leaves the baud rate.
LEMMA ResetEffect == ASSUME NEW e \in Device
                     PROVE  usb_bus_reset(e).lc = Idle /\ usb_bus_reset(e).baud = e.baud
  BY DEF usb_bus_reset, Emptied, Device

\* The invariant holds at the start.
LEMMA BaudAtInit == Init => BaudInv
  BY TypeAtInit DEF Init, BaudInv, ResetServed, Undisturbed, NothingLeft, Waiting

\* The invariant is kept by the first half of the interrupt
LEMMA BaudEnter == BaudInv /\ Enter => ResetServed' /\ Undisturbed'
<1> SUFFICES ASSUME BaudInv, Enter PROVE ResetServed' /\ Undisturbed'
  OBVIOUS
<1>0. TypeOK /\ DataOut /\ Undisturbed /\ d \in Device /\ req \in Requests
  BY DEF BaudInv, TypeOK
<1>1. ResetServed'
  BY DEF Enter, ResetServed
<1>2. CASE setup
  <2>1. d' = usb_handle_setup_packet(d, req) /\ latch' = {} /\ ~setup' /\ overtaken' = overtaken
        /\ UNCHANGED <<stage, req>>
    BY <1>2 DEF Enter, host, history
  <2>2. req.req = "SET_LINE_CODING" => d'.lc = req.wIndex /\ d'.inAvail = d.inAvail
    BY <1>0, <2>1, SetupEffect
  <2> QED
    BY <1>0, <1>1, <1>2, <2>1, <2>2 DEF Undisturbed, NothingLeft, Waiting, DataOut
<1>3. CASE ~setup
  <2>1. UNCHANGED <<d, latch, stage, req, overtaken, setup>>
    BY <1>0, <1>3 DEF Enter, host, history, TypeOK
  <2> QED
    BY <1>0, <1>1, <1>3, <2>1 DEF Undisturbed, NothingLeft, Waiting, Ordered
<1> QED
  BY <1>2, <1>3

\* and by the second.
LEMMA BaudServe == BaudInv /\ Serve => ResetServed' /\ Undisturbed'
<1> SUFFICES ASSUME BaudInv, Serve PROVE ResetServed' /\ Undisturbed'
  OBVIOUS
<1> DEFINE h == usb_handle_buff_status(d, latch)
           e == IF "buff" \in rest THEN h ELSE d
<1>0. TypeOK /\ d \in Device /\ latch \subseteq {"in", "out"}
  BY DEF BaudInv, TypeOK
<1>1. ResetServed'
  BY DEF Serve, ResetServed
<1>2. /\ d' = IF "reset" \in rest THEN usb_bus_reset(e) ELSE e
      /\ latch' = IF "buff" \in rest THEN {} ELSE latch
      /\ overtaken' = (overtaken /\ "reset" \notin rest)
      /\ UNCHANGED <<setup, stage, req>> /\ pc = "rest" /\ pc' = "idle"
  BY DEF Serve, host
<1>3. e \in Device
  BY <1>0, ServeType
<1>4. CASE "reset" \in rest
  <2>1. d'.lc = Idle
    <3> HIDE DEF e
    <3> QED
      BY <1>2, <1>3, <1>4, ResetEffect
  <2>2. ~setup'
    BY <1>2, <1>4 DEF BaudInv, ResetServed
  <2> QED
    BY <1>1, <2>1, <2>2 DEF Undisturbed, NothingLeft, Waiting
<1>5. CASE "reset" \notin rest
  <2>1. d' = e /\ overtaken' = overtaken
    BY <1>2, <1>5 DEF BaudInv, TypeOK
  <2>2. CASE overtaken
    BY <1>1, <2>1, <2>2 DEF Undisturbed
  <2>3. CASE ~overtaken /\ setup
    <3>1. latch = {} /\ ~d.inAvail /\ ~d.outAvail
      BY <1>2, <2>3 DEF BaudInv, Undisturbed, NothingLeft
    <3>2. d' = d /\ latch' = {}
      BY <1>0, <1>2, <2>1, <3>1, ServeEffect
    <3> QED
      BY <1>1, <1>2, <2>3, <3>1, <3>2 DEF Undisturbed, NothingLeft, Waiting
  <2>4. CASE ~overtaken /\ ~setup
    <3>1. Waiting
      BY <2>4 DEF BaudInv, Undisturbed
    <3>2. CASE "buff" \notin rest
      BY <1>1, <1>2, <2>1, <2>4, <3>1, <3>2 DEF Undisturbed, NothingLeft, Waiting, Ordered
    <3>3. CASE "buff" \in rest
      <4>1. d' = h /\ latch' = {}
        BY <1>2, <2>1, <3>3
      <4>2. /\ "out" \in latch => h.lc = Idle
            /\ "out" \notin latch => h.lc = d.lc
            /\ latch = {} => h = d
        BY <1>0, ServeEffect
      <4>3. "out" \notin latch /\ "in" \notin latch => latch = {}
        BY <1>0
      <4> HIDE DEF h
      <4>4. Waiting'
        BY <1>2, <2>4, <3>1, <4>1, <4>2, <4>3 DEF Waiting
      <4> QED
        BY <1>1, <1>2, <2>1, <2>4, <4>4 DEF Undisturbed, NothingLeft
    <3> QED
      BY <3>2, <3>3
  <2> QED
    BY <2>2, <2>3, <2>4
<1> QED
  BY <1>4, <1>5

\* The host's packets
LEMMA BaudTokens == BaudInv /\ Tokens => ResetServed' /\ Undisturbed'
<1> SUFFICES ASSUME BaudInv, Tokens PROVE ResetServed' /\ Undisturbed'
  OBVIOUS
<1>0. TypeOK /\ DataOut /\ Undisturbed /\ ResetServed /\ d \in Device
  BY DEF BaudInv, TypeOK
<1>1. UNCHANGED <<setup, reset, pc, rest, req, overtaken>>
  BY DEF Tokens, HostIn, HostStalled, HostOut, interrupt, history
<1>2. ResetServed'
  BY <1>0, <1>1 DEF ResetServed
<1>3. CASE HostIn
  <2>1. /\ d.inAvail /\ d' = [d EXCEPT !.inAvail = FALSE, !.inPid = 0, !.inPkt = Zlp]
        /\ latch' = latch \union {"in"}
    BY <1>3 DEF HostIn
  <2>2. /\ d'.lc = d.lc /\ d'.outLen = d.outLen /\ d'.buf = d.buf
    BY <1>0, <2>1 DEF Device
  <2>3. stage' # "dataOut"
    BY <1>3 DEF HostIn, host
  <2> QED
    BY <1>0, <1>1, <1>2, <2>1, <2>2, <2>3 DEF Undisturbed, NothingLeft, Waiting, Ordered
<1>4. CASE HostStalled
  BY <1>0, <1>1, <1>2, <1>4
     DEF HostStalled, interrupt, Undisturbed, NothingLeft, Waiting, Ordered
<1>5. CASE HostOut
  <2>1. d.outAvail /\ stage \in {"dataOut", "statusOut"} /\ stage' # "dataOut"
    BY <1>5 DEF HostOut
  <2>2. CASE d.outPid = 1
    <3>1. /\ d' = [d EXCEPT !.outAvail = FALSE,
                            !.outLen = IF stage = "statusOut" THEN 0
                                       ELSE IF req.kind = "short" THEN 4 ELSE 7,
                            !.buf = IF stage = "statusOut" THEN d.buf ELSE req.arg]
          /\ latch' = latch \union {"out"}
      BY <1>5, <2>2 DEF HostOut
    <3>2. /\ d'.lc = d.lc /\ d'.inAvail = d.inAvail
          /\ d'.outLen = 7 => stage = "dataOut" /\ req.kind # "short" /\ d'.buf = req.arg
      BY <1>0, <2>1, <3>1 DEF Device
    <3> QED
      BY <1>0, <1>1, <1>2, <2>1, <3>1, <3>2
         DEF Undisturbed, NothingLeft, Waiting, Ordered, DataOut
  <2>3. CASE d.outPid # 1
    <3>1. UNCHANGED <<d, latch>>
      BY <1>5, <2>3 DEF HostOut
    <3> QED
      BY <1>0, <1>1, <1>2, <2>1, <3>1 DEF Undisturbed, NothingLeft, Waiting, Ordered
  <2> QED
    BY <2>2, <2>3
<1> QED
  BY <1>3, <1>4, <1>5 DEF Tokens

\* A SETUP packet, a transfer given up, a bus reset.
LEMMA BaudHost == BaudInv /\ ((\E r \in Requests : HostSetup(r)) \/ Abort \/ BusReset)
                    => ResetServed' /\ Undisturbed'
<1> SUFFICES ASSUME BaudInv, (\E r \in Requests : HostSetup(r)) \/ Abort \/ BusReset
             PROVE  ResetServed' /\ Undisturbed'
  OBVIOUS
<1>0. TypeOK /\ Undisturbed /\ ResetServed /\ d \in Device
  BY DEF BaudInv, TypeOK
<1>1. ASSUME NEW r \in Requests, HostSetup(r) PROVE ResetServed' /\ Undisturbed'
  <2>1. ~reset /\ setup' /\ UNCHANGED <<reset, pc, rest>>
    BY <1>1 DEF HostSetup, Heard
  <2>2. overtaken' = (overtaken \/ Remains)
    BY <1>1 DEF HostSetup
  <2>3. ~d'.outAvail
    BY <1>0, <1>1 DEF HostSetup, Device
  <2> QED
    BY <1>0, <2>1, <2>2, <2>3
       DEF Remains, ResetServed, Undisturbed, NothingLeft, Waiting
<1>2. CASE Abort
  BY <1>0, <1>2 DEF Abort, interrupt, history, ResetServed, Undisturbed, NothingLeft,
                    Waiting, Ordered
<1>3. CASE BusReset
  BY <1>0, <1>3 DEF BusReset, ResetServed, Undisturbed, NothingLeft, Waiting, Ordered
<1> QED
  BY <1>1, <1>2, <1>3

\* Every step.
LEMMA BaudStep == BaudInv /\ [Next]_vars => BaudInv'
<1> SUFFICES ASSUME BaudInv, [Next]_vars PROVE BaudInv'
  OBVIOUS
<1>1. TypeOK' /\ DataOut'
  BY TypeStep DEF BaudInv
<1>2. ResetServed' /\ Undisturbed'
  <2>1. CASE UNCHANGED vars
    BY <2>1 DEF vars, interrupt, host, history, BaudInv, ResetServed, Undisturbed,
                NothingLeft, Waiting, Ordered
  <2> QED
    BY <2>1, BaudEnter, BaudServe, BaudTokens, BaudHost DEF Next, Interrupt
<1> QED
  BY <1>1, <1>2 DEF BaudInv

\* The baud rate moves only in the second half of the interrupt, and there to
\* what the host has written for the request in progress.
LEMMA BaudMoves == BaudInv /\ [Next]_vars =>
                     (d'.baud # d.baud => \/ overtaken
                                          \/ /\ req.req = "SET_LINE_CODING" /\ req.wIndex = 2
                                             /\ req.kind # "short" /\ d'.baud = req.arg)
<1> SUFFICES ASSUME BaudInv, [Next]_vars, d'.baud # d.baud, ~overtaken
             PROVE  /\ req.req = "SET_LINE_CODING" /\ req.wIndex = 2
                    /\ req.kind # "short" /\ d'.baud = req.arg
  OBVIOUS
<1>0. TypeOK /\ d \in Device /\ req \in Requests /\ latch \subseteq {"in", "out"} /\ Undisturbed
  BY DEF BaudInv, TypeOK
<1>1. ~Enter
  BY <1>0, SetupEffect DEF Enter
<1>2. ~HostIn /\ ~HostStalled /\ ~HostOut
  BY <1>0 DEF HostIn, HostStalled, HostOut, Device
<1>3. ~(\E r \in Requests : HostSetup(r)) /\ ~Abort /\ ~BusReset /\ ~(UNCHANGED vars)
  BY ZenonT(60), <1>0 DEF HostSetup, Abort, BusReset, vars, Device
<1>4. Serve
  BY <1>1, <1>2, <1>3 DEF Next, Interrupt, Tokens
<1> DEFINE h == usb_handle_buff_status(d, latch)
           e == IF "buff" \in rest THEN h ELSE d
<1>5. e \in Device /\ d' = IF "reset" \in rest THEN usb_bus_reset(e) ELSE e
  BY <1>0, <1>4, ServeType DEF Serve
<1>6. d'.baud = e.baud
  <2> HIDE DEF e
  <2> QED
    BY <1>5, ResetEffect
<1>7. "buff" \in rest /\ h.baud # d.baud
  BY <1>6
<1>8. /\ latch # {} /\ "out" \in latch /\ d.lc = 2 /\ d.outLen = 7
      /\ "in" \notin latch => h.baud = d.buf
  BY <1>0, <1>7, ServeEffect
<1>9. ~setup /\ Waiting
  BY <1>0, <1>4, <1>8 DEF Serve, Undisturbed, NothingLeft
<1>10. Ordered /\ "in" \notin latch
  BY <1>8, <1>9 DEF Waiting, Ordered, Idle
<1> QED
  BY <1>6, <1>7, <1>8, <1>10 DEF Ordered

\* The inductive invariant, for every value of the constants.
THEOREM BaudInvariant == Spec => []BaudInv
  BY BaudAtInit, BaudStep, PTL DEF Spec

\* The serial port's baud rate changes only to the one the transfer in progress
\* asks for, whatever was given up before it.
THEOREM BaudCorrect == Spec => BaudAsOrdered
<1>1. Spec => []BaudInv
  BY BaudInvariant
<1>2. BaudInv /\ [Next]_vars =>
        [d'.baud # d.baud => \/ overtaken
                             \/ /\ req.req = "SET_LINE_CODING" /\ req.wIndex = 2
                                /\ req.kind # "short" /\ d'.baud = req.arg]_vars
  BY BaudMoves
<1> QED
  BY <1>1, <1>2, PTL DEF Spec, BaudAsOrdered

----------------------------------------------------------------------------
(* What the handlers do, in full                                           *)

\* Acknowledging: an empty packet with the toggle DATA1.
LEMMA AckResult == ASSUME NEW e \in Device
                   PROVE  LET a == usb_acknowledge_out_request(e)
                          IN  /\ a.inAvail /\ a.inPid = 1 /\ a.inPkt = Zlp /\ ~a.stall
                              /\ a.lc = e.lc /\ a.outAvail = e.outAvail
                              /\ a.pending_addr = e.pending_addr /\ a.dev_addr = e.dev_addr
  BY DEF usb_acknowledge_out_request, StartIn, Emptied, Device

\* Refusing.
LEMMA StallResult == ASSUME NEW e \in Device
                     PROVE  LET a == usb_stall_ep0_in(e)
                            IN  /\ ~a.inAvail /\ a.lc = e.lc /\ a.outAvail = e.outAvail
                                /\ a.pending_addr = e.pending_addr /\ a.dev_addr = e.dev_addr
  BY DEF usb_stall_ep0_in, Emptied, Device

\* Arming EP0 IN.
LEMMA StartInResult == ASSUME NEW e \in Device, NEW pkt
                       PROVE  LET a == StartIn(e, pkt)
                              IN  /\ a.inAvail /\ a.inPid = e.inNext /\ a.inNext = 1 - e.inNext
                                  /\ a.inPkt = pkt /\ ~a.stall
                                  /\ a.item = e.item /\ a.total = e.total
                                  /\ a.lc = e.lc /\ a.baud = e.baud /\ a.outAvail = e.outAvail
                                  /\ a.pending_addr = e.pending_addr /\ a.dev_addr = e.dev_addr
  BY DEF StartIn, Device

\* Beginning to send an item: all that was asked for of it is to be sent, and its first
\* packet is armed.
LEMMA BeginResult ==
  ASSUME NEW e \in Device, NEW item \in Items, item.kind \in Kinds, NEW w \in Nat
  PROVE  LET a == usb_ep0_in_begin(e, item, w)
         IN  /\ a.item = item /\ a.total = Least(w, ItemLen[item.kind])
             /\ a.inAvail /\ a.inPid = 1 /\ a.inNext = 0 /\ ~a.stall
             /\ a.inPkt = Piece(a, 0) /\ a.sent = a.inPkt.len
             /\ a.lc = e.lc /\ a.outAvail = e.outAvail
             /\ a.pending_addr = e.pending_addr /\ a.dev_addr = e.dev_addr
<1> DEFINE total == Least(Least(ItemLen[item.kind], w), BufSize)
           b == [e EXCEPT !.item = item, !.total = total, !.inNext = 1]
           p == Piece(b, 0)
           s == StartIn(b, p)
           front == Least(MaxPacket, total)
           a == [s EXCEPT !.sent = front]
<1>1. total = Least(w, ItemLen[item.kind]) /\ total \in 0..BufSize
  <2>1. ItemLen[item.kind] \in Nat /\ ItemLen[item.kind] <= BufSize /\ BufSize \in Nat
    BY Sizes, RoomAssumption
  <2> QED
    BY <2>1 DEF Least
<1>2. usb_ep0_in_begin(e, item, w) = a
  BY DEF usb_ep0_in_begin
<1>3. /\ b \in Device /\ b.total = total /\ b.item = item /\ b.inNext = 1
      /\ b.lc = e.lc /\ b.outAvail = e.outAvail
      /\ b.pending_addr = e.pending_addr /\ b.dev_addr = e.dev_addr
  <2> HIDE DEF total
  <2> QED
    BY ZenonT(30), <1>1 DEF Device
<1>4. p.len = front
  <2>1. p = [item |-> b.item, off |-> 0, len |-> Least(MaxPacket, b.total - 0)]
    BY DEF Piece
  <2>2. b.total - 0 = total
    BY <1>1, <1>3
  <2> HIDE DEF b, total
  <2> QED
    BY <2>1, <2>2
<1>5. p \in Packets
  <2> HIDE DEF b, total
  <2>1. 0 \in 0..b.total
    BY <1>1, <1>3
  <2> QED
    BY <1>3, <2>1, PieceType
<1>6. s \in Device
  <2> HIDE DEF b, p
  <2> QED
    BY <1>3, <1>5, StartInType
<1>7. /\ s.inAvail /\ s.inPid = 1 /\ s.inNext = 0 /\ s.inPkt = p /\ ~s.stall
      /\ s.item = item /\ s.total = total /\ s.lc = e.lc /\ s.outAvail = e.outAvail
      /\ s.pending_addr = e.pending_addr /\ s.dev_addr = e.dev_addr
  <2> HIDE DEF b, p, total
  <2>1. /\ s.inAvail /\ s.inPid = b.inNext /\ s.inNext = 1 - b.inNext /\ s.inPkt = p /\ ~s.stall
        /\ s.item = b.item /\ s.total = b.total /\ s.lc = b.lc /\ s.outAvail = b.outAvail
        /\ s.pending_addr = b.pending_addr /\ s.dev_addr = b.dev_addr
    BY <1>3, StartInResult
  <2> QED
    BY <1>3, <2>1
<1>8. /\ a.sent = front /\ a.item = s.item /\ a.total = s.total
      /\ a.inAvail = s.inAvail /\ a.inPid = s.inPid /\ a.inNext = s.inNext /\ a.inPkt = s.inPkt
      /\ a.stall = s.stall /\ a.lc = s.lc /\ a.outAvail = s.outAvail
      /\ a.pending_addr = s.pending_addr /\ a.dev_addr = s.dev_addr
  <2> HIDE DEF s, front
  <2> QED
    BY <1>6 DEF Device
<1>9. Piece(a, 0) = p
  <2>1. a.item = b.item /\ a.total = b.total
    <3> HIDE DEF a, b, s
    <3> QED
      BY <1>3, <1>7, <1>8
  <2> HIDE DEF a, b
  <2> QED
    BY <2>1 DEF p, Piece
<1> HIDE DEF a, s, p, b, front, total
<1> QED
  BY <1>1, <1>2, <1>4, <1>7, <1>8, <1>9

\* Every SETUP packet, by what it asks for.
LEMMA SetupResult ==
  ASSUME NEW e0 \in Device, NEW r \in Requests
  PROVE  LET a == usb_handle_setup_packet(e0, r)
         IN  /\ a.dev_addr = e0.dev_addr
             /\ r.req # "SET_ADDRESS" => a.pending_addr = e0.pending_addr
             /\ r.req = "SET_ADDRESS" => a.pending_addr = r.arg
             /\ ~IsIn(r) /\ r.req # "SET_LINE_CODING" =>
                  a.inAvail /\ a.inPid = 1 /\ a.inPkt = Zlp /\ ~a.stall /\ a.lc = e0.lc
             /\ r.req = "SET_LINE_CODING" =>
                  a.inAvail = e0.inAvail /\ a.outPid = 1 /\ a.stall = e0.stall /\ a.lc = r.wIndex
             /\ r.kind = "unsupported" /\ IsIn(r) =>
                  ~a.inAvail /\ a.outAvail = e0.outAvail /\ a.lc = e0.lc
             /\ r.kind # "unsupported" /\ IsIn(r) =>
                  LET item == IF r.req = "GET_LINE_CODING"
                              THEN Item("lc", IF r.wIndex = 2 THEN e0.baud ELSE Fixed)
                              ELSE Item(r.kind, 0)
                  IN  /\ a.item = item /\ a.total = Least(r.wLength, ItemLen[item.kind])
                      /\ a.inAvail /\ a.inPid = 1 /\ a.inNext = 0 /\ ~a.stall
                      /\ a.inPkt = Piece(a, 0) /\ a.sent = a.inPkt.len
                      /\ a.lc = e0.lc /\ a.outAvail = e0.outAvail
<1> DEFINE e == [e0 EXCEPT !.inNext = 1]
           a == usb_handle_setup_packet(e0, r)
<1>1. /\ e \in Device /\ e.lc = e0.lc /\ e.outAvail = e0.outAvail /\ e.inAvail = e0.inAvail
      /\ e.pending_addr = e0.pending_addr /\ e.dev_addr = e0.dev_addr /\ e.baud = e0.baud
      /\ e.stall = e0.stall
  BY DEF Device
<1>2. /\ r.req \in Names /\ r.wIndex \in {0, 2} /\ r.wLength \in Nat
      /\ r.req = "SET_ADDRESS" => r.arg \in 0..127
      /\ r.req = "GET_DESCRIPTOR" => r.kind \in Kinds \union {"unsupported"}
      /\ r.kind = "unsupported" => r.req = "GET_DESCRIPTOR"
  BY RequestFields, ControlAssumption
<1>3. CASE r.req = "SET_ADDRESS"
  <2> DEFINE b == [e EXCEPT !.pending_addr = r.arg]
  <2>1. /\ b \in Device /\ b.pending_addr = r.arg /\ b.lc = e.lc /\ b.dev_addr = e.dev_addr
    <3> HIDE DEF e
    <3> QED
      BY <1>1, <1>2, <1>3 DEF Device
  <2>2. a = usb_acknowledge_out_request(b)
    BY <1>3 DEF usb_handle_setup_packet, usb_set_device_address
  <2> HIDE DEF b, a
  <2>3. /\ a.inAvail /\ a.inPid = 1 /\ a.inPkt = Zlp /\ ~a.stall
        /\ a.lc = b.lc /\ a.pending_addr = b.pending_addr /\ a.dev_addr = b.dev_addr
    BY <2>1, <2>2, AckResult
  <2>4. ~IsIn(r)
    BY <1>3 DEF IsIn
  <2> HIDE DEF e
  <2> QED
    BY <1>1, <1>3, <2>1, <2>3, <2>4 DEF a
<1>4. CASE r.req = "SET_CONFIGURATION"
  <2> DEFINE b == usb_acknowledge_out_request(e)
  <2>1. /\ b \in Device /\ b.inAvail /\ b.inPid = 1 /\ b.inPkt = Zlp /\ ~b.stall
        /\ b.lc = e.lc /\ b.pending_addr = e.pending_addr /\ b.dev_addr = e.dev_addr
    <3> HIDE DEF e
    <3> QED
      BY <1>1, AckResult, AnswerType
  <2>2. a = [b EXCEPT !.inNext = 0, !.outNext = 0]
    BY <1>4 DEF usb_handle_setup_packet, usb_set_device_configuration
  <2> HIDE DEF b, a
  <2>3. /\ a.inAvail = b.inAvail /\ a.inPid = b.inPid /\ a.inPkt = b.inPkt /\ a.stall = b.stall
        /\ a.lc = b.lc /\ a.pending_addr = b.pending_addr /\ a.dev_addr = b.dev_addr
    BY <2>1, <2>2 DEF Device
  <2>4. ~IsIn(r)
    BY <1>4 DEF IsIn
  <2> HIDE DEF e
  <2> QED
    BY <1>1, <1>4, <2>1, <2>3, <2>4 DEF a
<1>5. CASE r.req = "CLEAR_FEATURE"
  <2>1. a = usb_acknowledge_out_request(e)
    BY <1>5 DEF usb_handle_setup_packet
  <2> HIDE DEF a, e
  <2>2. /\ a.inAvail /\ a.inPid = 1 /\ a.inPkt = Zlp /\ ~a.stall
        /\ a.lc = e.lc /\ a.pending_addr = e.pending_addr /\ a.dev_addr = e.dev_addr
    BY <1>1, <2>1, AckResult
  <2>3. ~IsIn(r)
    BY <1>5 DEF IsIn
  <2> QED
    BY <1>1, <1>5, <2>2, <2>3 DEF a
<1>6. CASE r.req = "SET_LINE_CODING"
  <2>1. a = StartOut([e EXCEPT !.lc = r.wIndex], 7)
    BY <1>6 DEF usb_handle_setup_packet, SetLineCoding
  <2> HIDE DEF e
  <2>2. /\ a.inAvail = e.inAvail /\ a.outPid = 1 /\ a.stall = e.stall /\ a.lc = r.wIndex
        /\ a.pending_addr = e.pending_addr /\ a.dev_addr = e.dev_addr
    BY <1>1, <2>1 DEF StartOut, Device
  <2>3. ~IsIn(r) /\ r.kind # "unsupported"
    BY <1>2, <1>6 DEF IsIn
  <2> HIDE DEF a
  <2> QED
    BY <1>1, <1>6, <2>2, <2>3 DEF a
<1>7. CASE IsIn(r) /\ r.kind = "unsupported"
  <2>1. a = usb_stall_ep0_in(e) /\ r.req = "GET_DESCRIPTOR"
    BY <1>2, <1>7 DEF usb_handle_setup_packet, GetDescriptor
  <2> HIDE DEF a, e
  <2>2. /\ ~a.inAvail /\ a.lc = e.lc /\ a.outAvail = e.outAvail
        /\ a.pending_addr = e.pending_addr /\ a.dev_addr = e.dev_addr
    BY <1>1, <2>1, StallResult
  <2> QED
    BY <1>1, <1>7, <2>1, <2>2 DEF a
<1>8. CASE IsIn(r) /\ r.kind # "unsupported"
  <2> DEFINE item == IF r.req = "GET_LINE_CODING"
                     THEN Item("lc", IF r.wIndex = 2 THEN e0.baud ELSE Fixed)
                     ELSE Item(r.kind, 0)
  <2>1. r.req = "GET_LINE_CODING" \/ (r.req = "GET_DESCRIPTOR" /\ r.kind \in Kinds)
    <3>1. r.req \in {"GET_DESCRIPTOR", "GET_LINE_CODING"}
      BY <1>8 DEF IsIn
    <3>2. r.req = "GET_DESCRIPTOR" => r.kind \in Kinds
      BY <1>2, <1>8
    <3> QED
      BY <3>1, <3>2
  <2>2. a = usb_ep0_in_begin(e, item, r.wLength)
    <3>1. CASE r.req = "GET_LINE_CODING"
      BY <1>1, <3>1 DEF usb_handle_setup_packet, GetLineCoding
    <3>2. CASE r.req = "GET_DESCRIPTOR"
      BY <1>8, <3>2 DEF usb_handle_setup_packet, GetDescriptor
    <3> QED
      BY <2>1, <3>1, <3>2
  <2>3. item \in Items /\ item.kind \in Kinds
    <3>1. e0.baud \in Bauds \union {Junk}
      BY DEF Device
    <3>2. CASE r.req = "GET_LINE_CODING"
      BY <3>1, <3>2, Sizes DEF Item, Items
    <3>3. CASE r.req = "GET_DESCRIPTOR"
      BY <2>1, <3>3, Sizes DEF Item, Items
    <3> QED
      BY <2>1, <3>2, <3>3
  <2> HIDE DEF a, e, item
  <2>4. /\ a.item = item /\ a.total = Least(r.wLength, ItemLen[item.kind])
        /\ a.inAvail /\ a.inPid = 1 /\ a.inNext = 0 /\ ~a.stall
        /\ a.inPkt = Piece(a, 0) /\ a.sent = a.inPkt.len
        /\ a.lc = e.lc /\ a.outAvail = e.outAvail
        /\ a.pending_addr = e.pending_addr /\ a.dev_addr = e.dev_addr
    BY <1>1, <1>2, <2>2, <2>3, BeginResult
  <2>5. r.req # "SET_ADDRESS" /\ r.req # "SET_LINE_CODING"
    BY <2>1
  <2> QED
    BY <1>1, <1>8, <2>4, <2>5 DEF a, item
<1> QED
  BY <1>2, <1>3, <1>4, <1>5, <1>6, <1>7, <1>8 DEF Names, IsIn

\* A completion on EP0 IN takes the address, sends the next packet, or waits for the
\* status stage.
LEMMA InResult ==
  ASSUME NEW e \in Device
  PROVE  LET a == ep0_in_handler(e)
         IN  /\ a.lc = e.lc /\ a.baud = e.baud
             /\ e.pending_addr # 0 => a.dev_addr = e.pending_addr /\ a.pending_addr = 0
             /\ e.pending_addr = 0 => a.dev_addr = e.dev_addr /\ a.pending_addr = 0
             /\ e.pending_addr = 0 /\ e.sent < e.total =>
                  /\ a.item = e.item /\ a.total = e.total
                  /\ a.inAvail /\ a.inPid = e.inNext /\ a.inNext = 1 - e.inNext /\ ~a.stall
                  /\ a.inPkt = Piece(a, e.sent) /\ a.sent = e.sent + a.inPkt.len
                  /\ a.outAvail = e.outAvail
             /\ e.pending_addr = 0 /\ ~(e.sent < e.total) => a.inAvail = e.inAvail /\ a.stall = e.stall
<1> DEFINE a == ep0_in_handler(e)
<1>1. CASE e.pending_addr # 0
  BY <1>1 DEF ep0_in_handler, Emptied, Device
<1>2. CASE e.pending_addr = 0 /\ e.sent < e.total
  <2> DEFINE p == Piece(e, e.sent)
             s == StartIn(e, p)
  <2>1. /\ s.inAvail /\ s.inPid = e.inNext /\ s.inNext = 1 - e.inNext /\ s.inPkt = p /\ ~s.stall
        /\ s.item = e.item /\ s.total = e.total /\ s.lc = e.lc /\ s.baud = e.baud
        /\ s.outAvail = e.outAvail /\ s.pending_addr = e.pending_addr /\ s.dev_addr = e.dev_addr
    BY StartInResult
  <2>2. e.sent \in 0..e.total
    BY <1>2, Sizes DEF Device
  <2>3. s \in Device
    BY <2>2, PieceType, StartInType
  <2>4. a = [s EXCEPT !.sent = e.sent + p.len]
    BY <1>2 DEF ep0_in_handler
  <2> HIDE DEF s, a
  <2>5. /\ a.inAvail = s.inAvail /\ a.inPid = s.inPid /\ a.inNext = s.inNext /\ a.inPkt = s.inPkt
        /\ a.stall = s.stall /\ a.item = s.item /\ a.total = s.total /\ a.lc = s.lc /\ a.baud = s.baud
        /\ a.outAvail = s.outAvail /\ a.pending_addr = s.pending_addr /\ a.dev_addr = s.dev_addr
        /\ a.sent = e.sent + p.len
    <3> HIDE DEF p
    <3> QED
      BY <2>3, <2>4 DEF Device
  <2>6. Piece(a, e.sent) = p
    BY <2>1, <2>5 DEF Piece
  <2> HIDE DEF p
  <2> QED
    BY <1>2, <2>1, <2>5, <2>6 DEF a
<1>3. CASE e.pending_addr = 0 /\ ~(e.sent < e.total)
  <2> DEFINE m == Emptied(e)
  <2>1. /\ m \in Device /\ m.lc = e.lc /\ m.baud = e.baud /\ m.inAvail = e.inAvail /\ m.stall = e.stall
        /\ m.pending_addr = e.pending_addr /\ m.dev_addr = e.dev_addr
    BY ZenonT(30), EmptiedType DEF Emptied, Device
  <2>2. a = StartOut(m, 0)
    BY <1>3 DEF ep0_in_handler
  <2> HIDE DEF m, a
  <2>3. /\ a.lc = m.lc /\ a.baud = m.baud /\ a.inAvail = m.inAvail /\ a.stall = m.stall
        /\ a.pending_addr = m.pending_addr /\ a.dev_addr = m.dev_addr
    BY <2>1, <2>2 DEF StartOut, Device
  <2> QED
    BY <1>3, <2>1, <2>3 DEF a
<1> QED
  BY <1>1, <1>2, <1>3

\* A completion on EP0 OUT acknowledges a line coding, with its rate taken if it is whole
\* and for the UART.
LEMMA OutResult ==
  ASSUME NEW e \in Device
  PROVE  LET a == ep0_out_handler(e)
         IN  /\ a.pending_addr = e.pending_addr /\ a.dev_addr = e.dev_addr
             /\ e.lc = Idle => a = e
             /\ e.lc # Idle => /\ a.inAvail /\ a.inPid = 1 /\ a.inPkt = Zlp /\ ~a.stall /\ a.lc = Idle
                               /\ e.outLen >= 7 /\ e.lc = 2 /\ e.buf # 0 => a.baud = e.buf
<1>1. CASE e.lc = Idle
  BY <1>1 DEF ep0_out_handler
<1>2. CASE e.lc # Idle
  <2> DEFINE b == IF e.outLen >= 7 /\ e.lc = 2 /\ e.buf # 0 THEN e.buf ELSE e.baud
             m == [e EXCEPT !.baud = b, !.lc = Idle, !.inNext = 1]
             a == ep0_out_handler(e)
  <2>1. b \in Bauds \union {Junk} /\ Idle \in {0, 2, Idle}
    BY DEF Device
  <2>2. /\ m \in Device /\ m.baud = b /\ m.lc = Idle /\ m.inNext = 1
        /\ m.pending_addr = e.pending_addr /\ m.dev_addr = e.dev_addr
    <3> HIDE DEF b
    <3> QED
      BY <2>1 DEF Device
  <2>3. a = StartIn(m, Zlp)
    BY <1>2 DEF ep0_out_handler
  <2> HIDE DEF m, a
  <2>4. /\ a.inAvail /\ a.inPid = m.inNext /\ a.inPkt = Zlp /\ ~a.stall
        /\ a.lc = m.lc /\ a.baud = m.baud
        /\ a.pending_addr = m.pending_addr /\ a.dev_addr = m.dev_addr
    BY <2>2, <2>3, StartInResult
  <2>5. e.outLen >= 7 /\ e.lc = 2 /\ e.buf # 0 => b = e.buf
    OBVIOUS
  <2> HIDE DEF b
  <2> QED
    BY <1>2, <2>2, <2>4, <2>5 DEF a
<1> QED
  BY <1>1, <1>2

\* Both, by what is latched.
LEMMA BuffResult ==
  ASSUME NEW e \in Device, NEW bits
  PROVE  LET a == usb_handle_buff_status(e, bits)
             o == ep0_out_handler(e)
         IN  /\ "in" \notin bits /\ "out" \notin bits => a = e
             /\ "in" \in bits /\ "out" \notin bits => a = ep0_in_handler(e)
             /\ "in" \notin bits /\ "out" \in bits =>
                  /\ a.inAvail = o.inAvail /\ a.inPid = o.inPid /\ a.inPkt = o.inPkt
                  /\ a.stall = o.stall /\ a.lc = o.lc /\ a.baud = o.baud /\ a.pending_addr = o.pending_addr
             /\ "in" \in bits /\ e.pending_addr # 0 => a.dev_addr = e.pending_addr /\ a.pending_addr = 0
             /\ "in" \notin bits \/ e.pending_addr = 0 =>
                  a.dev_addr = e.dev_addr /\ a.pending_addr = e.pending_addr
<1> DEFINE i == IF "in" \in bits THEN ep0_in_handler(e) ELSE e
           o == ep0_out_handler(i)
           a == usb_handle_buff_status(e, bits)
<1>1. i \in Device
  BY InType
<1>2. /\ "in" \in bits /\ e.pending_addr # 0 => i.dev_addr = e.pending_addr /\ i.pending_addr = 0
      /\ "in" \notin bits \/ e.pending_addr = 0 =>
           i.dev_addr = e.dev_addr /\ i.pending_addr = e.pending_addr
  BY InResult
<1>3. o \in Device /\ o.pending_addr = i.pending_addr /\ o.dev_addr = i.dev_addr
  <2> HIDE DEF i
  <2> QED
    BY <1>1, OutType, OutResult
<1>4. a = IF "out" \in bits THEN [o EXCEPT !.outLen = 0, !.buf = Junk] ELSE i
  BY DEF usb_handle_buff_status
<1>5. "out" \in bits =>
        /\ a.inAvail = o.inAvail /\ a.inPid = o.inPid /\ a.inPkt = o.inPkt
        /\ a.stall = o.stall /\ a.lc = o.lc /\ a.baud = o.baud
        /\ a.pending_addr = o.pending_addr /\ a.dev_addr = o.dev_addr
  <2> HIDE DEF o, i, a
  <2> QED
    BY <1>3, <1>4 DEF Device
<1>6. "out" \notin bits => a = i
  BY <1>4
<1>7. "in" \notin bits => o = ep0_out_handler(e)
  OBVIOUS
<1>8. ("in" \in bits => i = ep0_in_handler(e)) /\ ("in" \notin bits => i = e)
  OBVIOUS
<1> HIDE DEF o, i, a
<1> QED
  BY <1>2, <1>3, <1>5, <1>6, <1>7, <1>8 DEF a

----------------------------------------------------------------------------
(* What becomes of a transfer that nothing cuts into *)

\* How many bytes a request that reads is answered with.
Whole == Least(req.wLength, ItemLen[Asked(req).kind])

\* The baud rate a request has set.
RateSet == req.req = "SET_LINE_CODING" /\ req.kind # "short" /\ req.wIndex = 2 /\ req.arg # 0
             => d.baud = req.arg

\* The host has received nothing yet, and what comes is as it expects.
Nothing == first = None /\ n = 0 /\ sound /\ hostPid = 1

\* A SETUP packet not yet served.
AtSetup == /\ stage = FirstStage(req) /\ Nothing
           /\ ~d.inAvail /\ ~d.outAvail /\ ~d.stall /\ (pc = "rest" => latch = {})
           /\ d.lc = Idle \/ req.req = "SET_LINE_CODING"

\* The device has refused.
Refused == /\ stage = "dataIn" /\ req.kind = "unsupported"
           /\ ~d.inAvail /\ ~d.outAvail /\ latch = {}

\* A packet of what was asked for is armed,
Sending == /\ stage = "dataIn" /\ d.item = Asked(req) /\ d.total = Whole
           /\ d.inAvail /\ d.inPid = hostPid /\ d.inNext = 1 - hostPid
           /\ d.inPkt = Piece(d, n) /\ d.sent = n + d.inPkt.len /\ ~d.outAvail /\ latch = {}
           /\ n <= Whole /\ sound /\ first = (IF n = 0 THEN None ELSE Asked(req))

\* the host has it,
Taken == /\ d.item = Asked(req) /\ d.total = Whole
         /\ ~d.inAvail /\ d.inNext = hostPid
         /\ d.sent = n /\ ~d.outAvail /\ latch = {"in"}
         /\ sound /\ first = Asked(req)
         /\ \/ stage = "dataIn" /\ n \in 1..Whole
            \/ stage = "statusOut" /\ n = Whole

\* or has everything, and the device waits for the status stage.
Answered == /\ stage \in {"dataIn", "statusOut"} /\ n = Whole
            /\ ~d.inAvail /\ latch = {} /\ sound /\ first = Asked(req)

\* A line coding is waited for,
Awaited == /\ stage = "dataOut" /\ req.req = "SET_LINE_CODING" /\ d.lc = req.wIndex /\ Nothing
           /\ ~d.inAvail /\ d.outPid = 1 /\ latch = {}

\* and has come.
Written == /\ stage = "statusIn" /\ req.req = "SET_LINE_CODING" /\ d.lc = req.wIndex /\ Nothing
           /\ ~d.inAvail /\ ~d.outAvail /\ latch = {"out"}
           /\ d.buf = req.arg /\ (req.kind # "short" => d.outLen = 7)

\* The acknowledgement is armed.
Acked == /\ stage = "statusIn" /\ Nothing
         /\ d.inAvail /\ d.inPid = 1 /\ d.inPkt = Zlp /\ latch = {}
         /\ RateSet
         /\ req.req = "SET_ADDRESS" => d.pending_addr = req.arg

InTransfer ==
    clean /\ stage # "idle" =>
      /\ result = "none" /\ ~reset
      /\ d.pending_addr = 0 \/ req.req = "SET_ADDRESS"
      /\ d.stall => req.kind = "unsupported"
      /\ setup => AtSetup
      /\ ~setup => \/ d.lc = Idle /\ IsIn(req) /\ Refused
                   \/ d.lc = Idle /\ IsIn(req) /\ req.kind # "unsupported" /\ (Sending \/ Taken \/ Answered)
                   \/ Awaited \/ Written
                   \/ d.lc = Idle /\ ~IsIn(req) /\ Acked

Resulted == clean /\ result # "none" => stage = "idle" /\ ~setup /\ d.lc = Idle /\ RightResult

\* After a bus reset the host has no address, and starts nothing until it is served.
AfterReset == reset => stage = "idle" /\ hostAddr = 0

\* The device has the host's address, and no other is about to be taken, or the
\* completion that gives it the host's is there.
AddressInv ==
    tidy /\ ~reset =>
      /\ stage # "idle" => clean
      /\ setup /\ pc = "rest" => latch = {}
      /\ \/ d.dev_addr = hostAddr /\ (d.pending_addr # 0 /\ ~setup => "in" \notin latch)
         \/ d.pending_addr = hostAddr /\ hostAddr # 0 /\ "in" \in latch /\ ~setup /\ stage = "idle"

\* All that the transfer depends on, but for the place of the interrupt.
transfer == <<d, setup, latch, reset, stage, req, hostPid, first, n, sound, result, clean>>

\* A step that touches none of it.
LEMMA TransferAlone ==
  ASSUME InTransfer, Resulted, UNCHANGED transfer, ~setup \/ pc' = "idle" \/ pc' = pc
  PROVE  InTransfer' /\ Resulted'
<1>1. /\ d' = d /\ setup' = setup /\ latch' = latch /\ reset' = reset /\ stage' = stage /\ req' = req
      /\ hostPid' = hostPid /\ first' = first /\ n' = n /\ sound' = sound /\ result' = result
      /\ clean' = clean
  BY DEF transfer
<1>2. Asked(req)' = Asked(req) /\ RateSet' = RateSet
  BY <1>1 DEF Asked, RateSet
<1>3. Whole' = Whole /\ Nothing' = Nothing /\ RightResult' = RightResult
  BY <1>1, <1>2 DEF Whole, Nothing, RightResult
<1>4. AtSetup /\ setup => AtSetup'
  BY <1>1, <1>3 DEF AtSetup
<1>5. Sending' = Sending /\ Taken' = Taken /\ Answered' = Answered
  BY <1>1, <1>2, <1>3 DEF Sending, Taken, Answered, Piece
<1>6. Refused' = Refused /\ Awaited' = Awaited /\ Written' = Written /\ Acked' = Acked
  BY <1>1, <1>2, <1>3 DEF Refused, Awaited, Written, Acked
<1>7. InTransfer'
  BY <1>1, <1>4, <1>5, <1>6 DEF InTransfer
<1>8. Resulted'
  BY <1>1, <1>3 DEF Resulted
<1> QED
  BY <1>7, <1>8

\* What holds of the requests and of the lengths.
LEMMA RequestOf ==
  ASSUME TypeOK
  PROVE  /\ d \in Device /\ req \in Requests /\ req.wLength \in Nat /\ req.wIndex \in {0, 2}
         /\ IsIn(req) => req.req \notin {"SET_ADDRESS", "SET_LINE_CODING"}
         /\ ~IsIn(req) => req.kind # "unsupported" /\ Asked(req) = None
         /\ IsIn(req) /\ req.kind # "unsupported" => Whole \in Nat /\ Whole <= req.wLength
         /\ req.req = "SET_ADDRESS" => req.arg \in 1..127
         /\ req.req = "SET_LINE_CODING" => req.arg \in Bauds
<1>1. /\ d \in Device /\ req \in Requests
  BY DEF TypeOK
<1>2. /\ req.req \in Names /\ req.wLength \in Nat /\ req.wIndex \in {0, 2}
      /\ req.req = "SET_ADDRESS" => req.arg \in 1..127
      /\ req.req = "SET_LINE_CODING" => req.arg \in Bauds
      /\ req.req = "GET_DESCRIPTOR" => req.kind \in Kinds \union {"unsupported"}
      /\ req.kind = "unsupported" => req.req = "GET_DESCRIPTOR"
  BY <1>1, RequestFields, ControlAssumption
<1>3. /\ IsIn(req) => req.req \notin {"SET_ADDRESS", "SET_LINE_CODING"}
      /\ ~IsIn(req) => req.kind # "unsupported"
  BY <1>2 DEF IsIn
<1>4. ~IsIn(req) => Asked(req) = None
  BY <1>2 DEF Asked, IsIn
<1>5. ASSUME IsIn(req), req.kind # "unsupported" PROVE Asked(req).kind \in Kinds
  <2>1. CASE req.req = "GET_LINE_CODING"
    BY <2>1, Sizes DEF Asked, Item
  <2>2. CASE req.req = "GET_DESCRIPTOR"
    BY <1>2, <1>5, <2>2 DEF Asked, Item
  <2> QED
    BY <1>5, <2>1, <2>2 DEF IsIn
<1>6. ASSUME IsIn(req), req.kind # "unsupported" PROVE Whole \in Nat /\ Whole <= req.wLength
  <2>1. ItemLen[Asked(req).kind] \in Nat
    BY <1>5, <1>6, Sizes
  <2> QED
    BY <1>2, <2>1 DEF Whole, Least
<1> QED
  BY <1>1, <1>2, <1>3, <1>4, <1>6

\* The phases exclude each other where the host's tokens look.
LEMMA Phases ==
  ASSUME InTransfer, clean, stage # "idle"
  PROVE  /\ result = "none" /\ ~reset
         /\ d.pending_addr = 0 \/ req.req = "SET_ADDRESS"
         /\ d.stall => req.kind = "unsupported"
         /\ setup => AtSetup
         /\ ~setup => \/ d.lc = Idle /\ IsIn(req) /\ Refused
                      \/ d.lc = Idle /\ IsIn(req) /\ req.kind # "unsupported" /\ (Sending \/ Taken \/ Answered)
                      \/ Awaited \/ Written
                      \/ d.lc = Idle /\ ~IsIn(req) /\ Acked
         /\ d.inAvail => /\ ~setup /\ d.lc = Idle
                         /\ \/ IsIn(req) /\ req.kind # "unsupported" /\ Sending
                            \/ ~IsIn(req) /\ Acked
  BY DEF InTransfer, AtSetup, Refused, Taken, Answered, Awaited, Written

----------------------------------------------------------------------------
(* The steps of a transfer                                                 *)

\* The SETUP packet is served.
LEMMA TransferEnter ==
  ASSUME TypeOK, InTransfer, Resulted, Enter
  PROVE  InTransfer' /\ Resulted'
<1>1. /\ pc' = "rest" /\ setup' = FALSE /\ UNCHANGED <<reset, hostAddr>>
      /\ UNCHANGED <<stage, req, hostPid, first, n, sound, result, clean>>
  BY DEF Enter, host, history
<1>2. CASE ~setup
  <2>1. UNCHANGED <<d, latch, setup>>
    BY <1>1, <1>2 DEF Enter, TypeOK
  <2> QED
    BY <1>1, <1>2, <2>1, TransferAlone DEF transfer
<1>3. CASE setup
  <2>1. latch' = {} /\ d' = usb_handle_setup_packet(d, req)
    BY <1>3 DEF Enter
  <2>2. Resulted'
    <3>1. ~(clean /\ result # "none")
      BY <1>3 DEF Resulted
    <3> QED
      BY <1>1, <3>1 DEF Resulted
  <2>3. InTransfer'
    <3> SUFFICES ASSUME clean, stage # "idle" PROVE InTransfer'
      BY <1>1 DEF InTransfer
    <3>1. /\ result = "none" /\ ~reset /\ AtSetup
          /\ d.pending_addr = 0 \/ req.req = "SET_ADDRESS"
      BY <1>3, Phases
    <3>2. /\ d \in Device /\ req \in Requests /\ req.wLength \in Nat
          /\ IsIn(req) => req.req \notin {"SET_ADDRESS", "SET_LINE_CODING"}
          /\ ~IsIn(req) => req.kind # "unsupported"
          /\ IsIn(req) /\ req.kind # "unsupported" => Whole \in Nat
      BY RequestOf
    <3>3. d'.baud = d.baud
      BY <2>1, <3>2, SetupEffect
    <3>4. /\ Nothing' /\ ~d.inAvail /\ ~d.outAvail /\ ~d.stall /\ stage' = FirstStage(req)
          /\ d.lc = Idle \/ req.req = "SET_LINE_CODING"
      BY <1>1, <3>1 DEF AtSetup, Nothing
    <3>5. /\ Asked(req)' = Asked(req) /\ Whole' = Whole
      BY <1>1, <3>3 DEF Asked, Whole
    <3>6. /\ req.req # "SET_ADDRESS" => d'.pending_addr = d.pending_addr
          /\ req.req = "SET_ADDRESS" => d'.pending_addr = req.arg
      BY <2>1, <3>2, SetupResult
    <3>7. CASE ~IsIn(req) /\ req.req # "SET_LINE_CODING"
      <4>1. d'.inAvail /\ d'.inPid = 1 /\ d'.inPkt = Zlp /\ ~d'.stall /\ d'.lc = d.lc
        BY <2>1, <3>2, <3>7, SetupResult
      <4>2. stage' = "statusIn" /\ RateSet'
        BY <1>1, <3>4, <3>7 DEF FirstStage, RateSet
      <4>3. Acked'
        BY <1>1, <2>1, <3>4, <3>6, <4>1, <4>2 DEF Acked
      <4>4. ~IsIn(req)' /\ d'.lc = Idle
        BY <1>1, <3>4, <3>7, <4>1 DEF IsIn
      <4> QED
        BY <1>1, <3>1, <3>6, <4>1, <4>3, <4>4 DEF InTransfer
    <3>8. CASE req.req = "SET_LINE_CODING"
      <4>1. d'.inAvail = d.inAvail /\ d'.outPid = 1 /\ d'.stall = d.stall /\ d'.lc = req.wIndex
        BY <2>1, <3>2, <3>8, SetupResult
      <4>2. stage' = "dataOut"
        BY <3>4, <3>8 DEF FirstStage, IsIn
      <4>3. Awaited'
        BY <1>1, <2>1, <3>4, <3>8, <4>1, <4>2 DEF Awaited
      <4> QED
        BY <1>1, <3>1, <3>4, <3>6, <3>8, <4>1, <4>3 DEF InTransfer
    <3>9. CASE IsIn(req) /\ req.kind = "unsupported"
      <4>1. ~d'.inAvail /\ d'.outAvail = d.outAvail /\ d'.lc = d.lc
        BY <2>1, <3>2, <3>9, SetupResult
      <4>2. stage' = "dataIn" /\ IsIn(req)' /\ d.lc = Idle
        BY <1>1, <3>2, <3>4, <3>9 DEF FirstStage, IsIn
      <4>3. Refused'
        BY <1>1, <2>1, <3>4, <3>9, <4>1, <4>2 DEF Refused
      <4> QED
        BY <1>1, <3>1, <3>2, <3>6, <3>9, <4>1, <4>2, <4>3 DEF InTransfer
    <3>10. CASE IsIn(req) /\ req.kind # "unsupported"
      <4> DEFINE item == IF req.req = "GET_LINE_CODING"
                         THEN Item("lc", IF req.wIndex = 2 THEN d.baud ELSE Fixed)
                         ELSE Item(req.kind, 0)
      <4>1. /\ d'.item = item /\ d'.total = Least(req.wLength, ItemLen[item.kind])
            /\ d'.inAvail /\ d'.inPid = 1 /\ d'.inNext = 0 /\ ~d'.stall
            /\ d'.inPkt = Piece(d', 0) /\ d'.sent = d'.inPkt.len
            /\ d'.lc = d.lc /\ d'.outAvail = d.outAvail
        BY <2>1, <3>2, <3>10, SetupResult
      <4>2. item = Asked(req)
        BY <3>10 DEF Asked, IsIn
      <4> HIDE DEF item
      <4>3. stage' = "dataIn" /\ IsIn(req)' /\ d.lc = Idle
        BY <1>1, <3>2, <3>4, <3>10 DEF FirstStage, IsIn
      <4>4. d'.inPkt.len \in Nat
        <5>1. d' \in Device
          BY <2>1, <3>2, SetupType
        <5>2. d'.inPkt \in Packets
          BY <5>1 DEF Device
        <5> QED
          BY <5>2, Sizes DEF Packets
      <4>5. Sending'
        <5>1. n' = 0 /\ hostPid' = 1 /\ first' = None /\ sound' /\ 0 <= Whole' /\ latch' = {}
          BY <2>1, <3>2, <3>4, <3>5, <3>10 DEF Nothing
        <5>2. d'.item = Asked(req)' /\ d'.total = Whole'
          BY <3>5, <4>1, <4>2 DEF Whole
        <5>3. d'.sent = n' + d'.inPkt.len /\ d'.inNext = 1 - hostPid' /\ d'.inPkt = Piece(d', n')
          BY <4>1, <4>4, <5>1
        <5> QED
          BY <3>4, <4>1, <4>3, <5>1, <5>2, <5>3 DEF Sending
      <4> QED
        BY <1>1, <3>1, <3>2, <3>4, <3>6, <3>10, <4>1, <4>3, <4>5 DEF InTransfer
    <3> QED
      BY <3>7, <3>8, <3>9, <3>10
  <2> QED
    BY <2>2, <2>3
<1> QED
  BY <1>2, <1>3

\* A completion is served, or nothing of EP0 is.
LEMMA TransferServe ==
  ASSUME TypeOK, ResetServed, InTransfer, Resulted, Serve
  PROVE  InTransfer' /\ Resulted'
<1> DEFINE h == usb_handle_buff_status(d, latch)
           e == IF "buff" \in rest THEN h ELSE d
<1>1. /\ pc = "rest" /\ pc' = "idle" /\ UNCHANGED <<setup, clean>>
      /\ UNCHANGED <<stage, req, hostPid, first, n, sound, result>>
      /\ reset' = (reset /\ "reset" \notin rest)
      /\ latch' = IF "buff" \in rest THEN {} ELSE latch
      /\ d' = IF "reset" \in rest THEN usb_bus_reset(e) ELSE e
  BY DEF Serve, host
<1>2. d \in Device /\ h \in Device /\ e \in Device /\ latch \subseteq {"in", "out"}
  BY ServeType DEF TypeOK
<1>3. CASE clean /\ stage # "idle"
  <2>1. /\ ~reset /\ result = "none"
        /\ d.pending_addr = 0 \/ req.req = "SET_ADDRESS"
        /\ d.stall => req.kind = "unsupported"
        /\ setup => AtSetup
        /\ ~setup => \/ d.lc = Idle /\ IsIn(req) /\ Refused
                     \/ d.lc = Idle /\ IsIn(req) /\ req.kind # "unsupported" /\ (Sending \/ Taken \/ Answered)
                     \/ Awaited \/ Written
                     \/ d.lc = Idle /\ ~IsIn(req) /\ Acked
    BY <1>3, Phases
  <2>2. "reset" \notin rest /\ ~reset' /\ reset' = reset /\ d' = e
    BY <1>1, <2>1 DEF ResetServed, TypeOK
  <2>3. Resulted'
    BY <1>1, <2>1 DEF Resulted
  <2>4. CASE "buff" \notin rest
    <3>1. d' = d /\ latch' = latch
      BY <1>1, <2>2, <2>4
    <3> QED
      BY <1>1, <2>2, <3>1, TransferAlone DEF transfer
  <2>5. CASE "buff" \in rest /\ latch = {}
    <3>1. d' = d /\ latch' = latch
      BY <1>1, <1>2, <2>2, <2>5, BuffResult
    <3> QED
      BY <1>1, <2>2, <3>1, TransferAlone DEF transfer
  <2>6. CASE "buff" \in rest /\ latch # {}
    <3>1. ~setup /\ (Taken \/ Written)
      BY <1>1, <2>1, <2>6 DEF AtSetup, Refused, Sending, Answered, Awaited, Acked
    <3>2. d' = h /\ latch' = {}
      BY <1>1, <2>2, <2>6
    <3>3. CASE Taken
      <4>1. /\ latch = {"in"} /\ d.item = Asked(req) /\ d.total = Whole /\ ~d.inAvail
            /\ d.inNext = hostPid /\ d.sent = n /\ ~d.outAvail /\ sound /\ first = Asked(req)
            /\ \/ stage = "dataIn" /\ n \in 1..Whole
               \/ stage = "statusOut" /\ n = Whole
        BY <3>3 DEF Taken
      <4>2. d.lc = Idle /\ IsIn(req) /\ req.kind # "unsupported"
        BY <2>1, <3>1, <4>1 DEF Refused, Awaited, Written, Acked
      <4>3. d.pending_addr = 0 /\ Whole \in Nat /\ ~d.stall
        BY <2>1, <4>2, RequestOf
      <4>4. d' = ep0_in_handler(d)
        BY <1>2, <3>2, <4>1, BuffResult
      <4>5. d'.lc = Idle /\ d'.baud = d.baud /\ d'.pending_addr = 0
        BY <1>2, <4>2, <4>3, <4>4, InResult
      <4>6. /\ IsIn(req)' = IsIn(req) /\ Asked(req)' = Asked(req) /\ Whole' = Whole
        BY <1>1, <4>5 DEF IsIn, Asked, Whole
      <4>7. CASE n < Whole
        <5>1. /\ d'.item = d.item /\ d'.total = d.total
              /\ d'.inAvail /\ d'.inPid = d.inNext /\ d'.inNext = 1 - d.inNext /\ ~d'.stall
              /\ d'.inPkt = Piece(d', d.sent) /\ d'.sent = d.sent + d'.inPkt.len
              /\ d'.outAvail = d.outAvail
          BY <1>2, <4>1, <4>3, <4>4, <4>7, InResult
        <5>2. n \in 1..Whole /\ stage = "dataIn"
          BY <4>1, <4>3, <4>7
        <5>3. n <= Whole /\ n # 0
          BY <4>3, <5>2
        <5>4. Sending'
          BY <1>1, <3>2, <4>1, <4>6, <5>1, <5>2, <5>3 DEF Sending
        <5> QED
          BY <1>1, <2>1, <2>2, <2>3, <3>1, <4>2, <4>5, <4>6, <5>1, <5>4 DEF InTransfer
      <4>8. CASE ~(n < Whole)
        <5>1. n = Whole
          BY <4>1, <4>3, <4>8
        <5>2. d'.inAvail = d.inAvail /\ d'.stall = d.stall
          BY <1>2, <4>1, <4>3, <4>4, <4>8, InResult
        <5>3. Answered'
          BY <1>1, <3>2, <4>1, <4>6, <5>1, <5>2 DEF Answered
        <5> QED
          BY <1>1, <2>1, <2>2, <2>3, <3>1, <4>2, <4>3, <4>5, <4>6, <5>2, <5>3 DEF InTransfer
      <4> QED
        BY <4>7, <4>8
    <3>4. CASE Written
      <4> DEFINE o == ep0_out_handler(d)
      <4>1. /\ latch = {"out"} /\ stage = "statusIn" /\ req.req = "SET_LINE_CODING"
            /\ d.lc = req.wIndex /\ Nothing /\ d.buf = req.arg
            /\ req.kind # "short" => d.outLen = 7
        BY <3>4 DEF Written
      <4>2. ~IsIn(req) /\ d.lc # Idle /\ d.pending_addr = 0
        BY <2>1, <4>1, RequestOf DEF IsIn, Idle
      <4>3. /\ d'.inAvail = o.inAvail /\ d'.inPid = o.inPid /\ d'.inPkt = o.inPkt
            /\ d'.stall = o.stall /\ d'.lc = o.lc /\ d'.baud = o.baud
            /\ d'.pending_addr = o.pending_addr
        BY <1>2, <3>2, <4>1, BuffResult
      <4>4. /\ o.inAvail /\ o.inPid = 1 /\ o.inPkt = Zlp /\ ~o.stall /\ o.lc = Idle
            /\ o.pending_addr = d.pending_addr
            /\ d.outLen >= 7 /\ d.lc = 2 /\ d.buf # 0 => o.baud = d.buf
        BY <1>2, <4>2, OutResult
      <4> HIDE DEF o
      <4>5. RateSet'
        <5> SUFFICES ASSUME req.kind # "short", req.wIndex = 2, req.arg # 0
                     PROVE  d'.baud = req.arg
          BY <1>1 DEF RateSet
        <5>1. d.outLen >= 7
          BY <4>1
        <5> QED
          BY <4>1, <4>3, <4>4, <5>1
      <4>6. Nothing' /\ ~IsIn(req)'
        BY <1>1, <4>1, <4>2 DEF Nothing, IsIn
      <4>7. Acked'
        BY <1>1, <3>2, <4>1, <4>3, <4>4, <4>5, <4>6 DEF Acked
      <4> QED
        BY <1>1, <2>1, <2>2, <2>3, <3>1, <4>2, <4>3, <4>4, <4>6, <4>7 DEF InTransfer
    <3> QED
      BY <3>1, <3>3, <3>4
  <2> QED
    BY <2>4, <2>5, <2>6
<1>4. CASE ~(clean /\ stage # "idle")
  <2>1. InTransfer'
    BY <1>1, <1>4 DEF InTransfer
  <2>2. Resulted'
    <3> SUFFICES ASSUME clean, result # "none" PROVE Resulted'
      BY <1>1 DEF Resulted
    <3>1. stage = "idle" /\ ~setup /\ d.lc = Idle /\ RightResult
      BY DEF Resulted
    <3>2. h.lc = Idle /\ h.baud = d.baud
      BY <3>1, ServeEffect DEF Idle
    <3>3. e.lc = Idle /\ e.baud = d.baud
      BY <3>1, <3>2
    <3>4. d'.lc = Idle /\ d'.baud = d.baud
      <4> HIDE DEF e
      <4> QED
        BY <1>1, <1>2, <3>3, ResetEffect
    <3>5. RightResult'
      <4>1. Asked(req)' = Asked(req)
        BY <1>1, <3>4 DEF Asked
      <4> QED
        BY <1>1, <3>1, <3>4, <4>1 DEF RightResult
    <3> QED
      BY <1>1, <3>1, <3>4, <3>5 DEF Resulted
  <2> QED
    BY <2>1, <2>2
<1> QED
  BY <1>3, <1>4

\* The host takes a packet.
LEMMA TransferIn ==
  ASSUME TypeOK, InTransfer, Resulted, HostIn
  PROVE  InTransfer' /\ Resulted'
<1>1. /\ stage \in {"dataIn", "statusIn"} /\ d.inAvail
      /\ d' = [d EXCEPT !.inAvail = FALSE, !.inPid = 0, !.inPkt = Zlp]
      /\ latch' = latch \union {"in"} /\ UNCHANGED <<setup, reset, req, clean>>
  BY DEF HostIn, history
<1>2. CASE ~clean
  BY <1>1, <1>2 DEF InTransfer, Resulted
<1>3. CASE clean
  <2>1. /\ ~setup /\ ~reset /\ d.lc = Idle /\ result = "none"
        /\ d.pending_addr = 0 \/ req.req = "SET_ADDRESS"
        /\ d.stall => req.kind = "unsupported"
        /\ \/ IsIn(req) /\ req.kind # "unsupported" /\ Sending
           \/ ~IsIn(req) /\ Acked
    BY <1>1, <1>3, Phases
  <2>2. /\ d \in Device /\ n \in Nat /\ req.wLength \in Nat
        /\ ~IsIn(req) => req.kind # "unsupported" /\ Asked(req) = None
        /\ IsIn(req) /\ req.kind # "unsupported" => Whole \in Nat /\ Whole <= req.wLength
    BY RequestOf DEF TypeOK
  <2>3. /\ d'.lc = d.lc /\ d'.baud = d.baud /\ d'.pending_addr = d.pending_addr /\ d'.stall = d.stall
        /\ d'.item = d.item /\ d'.total = d.total /\ d'.sent = d.sent /\ d'.inNext = d.inNext
        /\ d'.outAvail = d.outAvail /\ ~d'.inAvail
    BY <1>1, <2>2 DEF Device
  <2>4. /\ IsIn(req)' = IsIn(req) /\ Asked(req)' = Asked(req) /\ Whole' = Whole
    BY <1>1, <2>3 DEF IsIn, Asked, Whole
  <2>5. CASE IsIn(req) /\ req.kind # "unsupported" /\ Sending
    <3>1. /\ stage = "dataIn" /\ d.item = Asked(req) /\ d.total = Whole
          /\ d.inPid = hostPid /\ d.inNext = 1 - hostPid
          /\ d.inPkt = Piece(d, n) /\ d.sent = n + d.inPkt.len /\ ~d.outAvail /\ latch = {}
          /\ n <= Whole /\ sound /\ first = (IF n = 0 THEN None ELSE Asked(req))
      BY <2>5 DEF Sending
    <3> DEFINE len == Least(MaxPacket, Whole - n)
    <3>2. d.inPkt.item = Asked(req) /\ d.inPkt.off = n /\ d.inPkt.len = len
      BY <3>1 DEF Piece
    <3>3. /\ len \in 0..MaxPacket /\ len <= Whole - n /\ MaxPacket \in Nat \ {0}
          /\ len < MaxPacket => len = Whole - n
      BY <2>2, <2>5, <3>1, Sizes DEF Least
    <3> HIDE DEF len
    <3>4. /\ hostPid' = 1 - hostPid /\ n' = n + len /\ result' = "none"
          /\ first' = (IF n = 0 THEN d.inPkt.item ELSE first)
          /\ sound' = (sound /\ d.inPkt.off = n /\ d.inPkt.item = first')
      BY <3>1, <3>2 DEF HostIn
    <3>5. stage' = IF n' >= req.wLength \/ len < MaxPacket THEN "statusOut" ELSE "dataIn"
      BY <3>1, <3>2 DEF HostIn
    <3>6. first' = Asked(req) /\ sound'
      BY <3>1, <3>2, <3>4
    <3>7. \/ stage' = "dataIn" /\ n' \in 1..Whole
          \/ stage' = "statusOut" /\ n' = Whole
      <4>1. CASE n' >= req.wLength \/ len < MaxPacket
        BY <2>2, <2>5, <3>3, <3>4, <3>5, <4>1
      <4>2. CASE ~(n' >= req.wLength \/ len < MaxPacket)
        BY <2>2, <2>5, <3>3, <3>4, <3>5, <4>2
      <4> QED
        BY <4>1, <4>2
    <3>8. Taken'
      BY <1>1, <2>3, <2>4, <3>1, <3>2, <3>4, <3>6, <3>7 DEF Taken
    <3> QED
      BY <1>1, <2>1, <2>3, <2>4, <2>5, <3>4, <3>8 DEF InTransfer, Resulted
  <2>6. CASE ~IsIn(req) /\ Acked
    <3>1. /\ stage = "statusIn" /\ first = None /\ n = 0 /\ sound /\ hostPid = 1
          /\ d.inPid = 1 /\ d.inPkt = Zlp /\ RateSet
      BY <2>6 DEF Acked, Nothing
    <3>2. Zlp.item = None /\ Zlp.off = 0 /\ Zlp.len = 0
      BY DEF Zlp
    <3>3. /\ first' = (IF n = 0 THEN d.inPkt.item ELSE first)
          /\ n' = n + d.inPkt.len
          /\ sound' = (sound /\ d.inPkt.off = n /\ d.inPkt.item = first')
          /\ stage' = "idle" /\ result' = "ok"
      <4>1. d.inPid = hostPid /\ stage = "statusIn"
        BY <3>1
      <4> QED
        BY <4>1 DEF HostIn
    <3>4. first' = None /\ n' = 0 /\ sound'
      <4>1. d.inPkt.item = None /\ d.inPkt.off = 0 /\ d.inPkt.len = 0
        BY <3>1, <3>2
      <4>2. first' = None
        BY <3>1, <3>3, <4>1
      <4>3. n' = 0
        BY <3>1, <3>3, <4>1
      <4>4. sound'
        BY <3>1, <3>3, <4>1, <4>2
      <4> QED
        BY <4>2, <4>3, <4>4
    <3>5. RateSet'
      BY <1>1, <2>3, <3>1 DEF RateSet
    <3>6. RightResult'
      BY <1>1, <2>2, <2>4, <2>6, <3>3, <3>4, <3>5 DEF RightResult, RateSet
    <3> QED
      BY <1>1, <2>1, <2>3, <3>3, <3>6 DEF InTransfer, Resulted
  <2> QED
    BY <2>1, <2>5, <2>6
<1> QED
  BY <1>2, <1>3

\* The host is refused.
LEMMA TransferStalled ==
  ASSUME TypeOK, InTransfer, Resulted, HostStalled
  PROVE  InTransfer' /\ Resulted'
<1>1. /\ stage \in {"dataIn", "statusIn"} /\ d.stall /\ stage' = "idle" /\ result' = "stall"
      /\ UNCHANGED <<d, setup, req, clean>>
  BY DEF HostStalled, interrupt, history
<1>2. CASE ~clean
  BY <1>1, <1>2 DEF InTransfer, Resulted
<1>3. CASE clean
  <2>1. ~setup /\ req.kind = "unsupported"
    BY <1>1, <1>3, Phases DEF AtSetup
  <2>2. IsIn(req) /\ req.req # "SET_LINE_CODING"
    BY <2>1, RequestOf
  <2>3. d.lc = Idle
    BY <1>1, <1>3, <2>1, <2>2, Phases DEF Awaited, Written
  <2>4. RightResult'
    BY <1>1, <2>1 DEF RightResult
  <2> QED
    BY <1>1, <2>1, <2>3, <2>4 DEF InTransfer, Resulted
<1> QED
  BY <1>2, <1>3

\* The host sends the line coding, or ends a reading.
LEMMA TransferOut ==
  ASSUME TypeOK, InTransfer, Resulted, HostOut
  PROVE  InTransfer' /\ Resulted'
<1> DEFINE len == IF stage = "statusOut" THEN 0 ELSE IF req.kind = "short" THEN 4 ELSE 7
           buf == IF stage = "statusOut" THEN d.buf ELSE req.arg
<1>1. /\ stage \in {"dataOut", "statusOut"} /\ d.outAvail
      /\ stage' = (IF stage = "dataOut" THEN "statusIn" ELSE "idle")
      /\ result' = (IF stage = "dataOut" THEN "none" ELSE "ok")
      /\ UNCHANGED <<setup, reset, req, hostPid, first, n, sound, clean>>
      /\ d' = d \/ d' = [d EXCEPT !.outAvail = FALSE, !.outLen = len, !.buf = buf]
  BY DEF HostOut, history
<1>2. CASE ~clean
  BY <1>1, <1>2 DEF InTransfer, Resulted
<1>3. CASE clean
  <2>1. /\ ~setup /\ ~reset
        /\ d.pending_addr = 0 \/ req.req = "SET_ADDRESS"
        /\ d.stall => req.kind = "unsupported"
        /\ \/ d.lc = Idle /\ IsIn(req) /\ req.kind # "unsupported" /\ Answered
           \/ Awaited
    BY <1>1, <1>3, Phases DEF AtSetup, Refused, Sending, Taken, Written, Acked
  <2>2. d \in Device
    BY DEF TypeOK
  <2>3. /\ d'.lc = d.lc /\ d'.baud = d.baud /\ d'.pending_addr = d.pending_addr /\ d'.stall = d.stall
        /\ d'.inAvail = d.inAvail
    <3> HIDE DEF len, buf
    <3> QED
      BY <1>1, <2>2 DEF Device
  <2>4. CASE d.lc = Idle /\ IsIn(req) /\ req.kind # "unsupported" /\ Answered
    <3>1. n = Whole /\ sound /\ first = Asked(req) /\ stage = "statusOut"
      BY <1>1, <2>4 DEF Answered
    <3>2. IsIn(req)' /\ Asked(req)' = Asked(req) /\ Whole' = Whole /\ req.req # "SET_LINE_CODING"
      BY <1>1, <2>3, <2>4, RequestOf DEF IsIn, Asked, Whole
    <3>3. RightResult'
      BY <1>1, <2>4, <3>1, <3>2 DEF RightResult, Whole
    <3> QED
      BY <1>1, <2>1, <2>3, <2>4, <3>1, <3>3 DEF InTransfer, Resulted
  <2>5. CASE Awaited
    <3>1. /\ stage = "dataOut" /\ req.req = "SET_LINE_CODING" /\ d.lc = req.wIndex /\ Nothing
          /\ ~d.inAvail /\ d.outPid = 1 /\ latch = {}
      BY <2>5 DEF Awaited
    <3>2. /\ d' = [d EXCEPT !.outAvail = FALSE, !.outLen = len, !.buf = buf]
          /\ latch' = latch \union {"out"}
      BY <3>1 DEF HostOut
    <3>3. /\ ~d'.outAvail /\ d'.outLen = len /\ d'.buf = buf
      <4> HIDE DEF len, buf
      <4> QED
        BY <2>2, <3>2 DEF Device
    <3>4. buf = req.arg /\ (req.kind # "short" => len = 7)
      BY <3>1
    <3> HIDE DEF len, buf
    <3>5. Nothing' /\ stage' = "statusIn" /\ result' = "none"
      BY <1>1, <3>1 DEF Nothing
    <3>6. Written'
      BY <1>1, <2>3, <3>1, <3>2, <3>3, <3>4, <3>5 DEF Written
    <3> QED
      BY <1>1, <2>1, <2>3, <3>5, <3>6 DEF InTransfer, Resulted
  <2> QED
    BY <2>1, <2>4, <2>5
<1> QED
  BY <1>2, <1>3

\* The host starts a transfer,
LEMMA TransferSetup ==
  ASSUME TypeOK, NEW r \in Requests, HostSetup(r)
  PROVE  InTransfer' /\ Resulted'
<1>1. PICK keep \in BOOLEAN :
        d' = [d EXCEPT !.outAvail = FALSE, !.stall = FALSE, !.buf = Junk,
                       !.outLen = IF "out" \in latch' THEN d.outLen ELSE 0,
                       !.inAvail = d.inAvail /\ keep,
                       !.inPid = IF keep THEN d.inPid ELSE 0,
                       !.inPkt = IF keep THEN d.inPkt ELSE Zlp]
  BY DEF HostSetup
<1>2. /\ setup' = TRUE /\ ~reset /\ UNCHANGED <<reset, pc>>
      /\ stage' = FirstStage(r) /\ req' = r /\ hostPid' = 1
      /\ first' = None /\ n' = 0 /\ sound' = TRUE /\ result' = "none"
      /\ clean' => /\ d.pending_addr = 0 \/ r.req = "SET_ADDRESS"
                   /\ d.lc = Idle \/ r.req = "SET_LINE_CODING"
                   /\ ~Remains
  BY DEF HostSetup, Heard
<1>3. ~d'.outAvail /\ ~d'.stall /\ d'.lc = d.lc /\ d'.pending_addr = d.pending_addr
  BY <1>1 DEF TypeOK, Device
<1>4. clean' => AtSetup'
  BY <1>2, <1>3 DEF AtSetup, Nothing, FirstStage, IsIn, Remains
<1> QED
  BY <1>2, <1>3, <1>4 DEF InTransfer, Resulted

\* gives one up, or resets the bus.
LEMMA TransferDropped ==
  ASSUME InTransfer, Resulted, Abort \/ BusReset
  PROVE  InTransfer' /\ Resulted'
<1>1. CASE Abort
  <2>1. /\ stage # "idle" /\ stage' = "idle" /\ UNCHANGED <<result, clean>>
    BY <1>1 DEF Abort, history
  <2> QED
    BY <2>1 DEF InTransfer, Resulted
<1>2. CASE BusReset
  BY <1>2 DEF BusReset, InTransfer, Resulted
<1> QED
  BY <1>1, <1>2

\* Every step.
LEMMA TransferStep ==
  ASSUME TypeOK, ResetServed, InTransfer, Resulted, [Next]_vars
  PROVE  InTransfer' /\ Resulted'
<1>1. CASE UNCHANGED vars
  <2>1. UNCHANGED transfer /\ pc' = pc
    BY <1>1 DEF vars, interrupt, host, history, transfer
  <2> QED
    BY <2>1, TransferAlone
<1>2. CASE Enter
  BY <1>2, TransferEnter
<1>3. CASE Serve
  BY <1>3, TransferServe
<1>4. CASE HostIn
  BY <1>4, TransferIn
<1>5. CASE HostStalled
  BY <1>5, TransferStalled
<1>6. CASE HostOut
  BY <1>6, TransferOut
<1>7. ASSUME NEW r \in Requests, HostSetup(r) PROVE InTransfer' /\ Resulted'
  BY <1>7, TransferSetup
<1>8. CASE Abort \/ BusReset
  BY <1>8, TransferDropped
<1> QED
  BY <1>1, <1>2, <1>3, <1>4, <1>5, <1>6, <1>7, <1>8 DEF Next, Interrupt, Tokens

----------------------------------------------------------------------------
(* The address                                                             *)

\* Until a bus reset is served the host keeps silent.
LEMMA AfterResetStep ==
  ASSUME AfterReset, [Next]_vars
  PROVE  AfterReset'
<1>1. CASE UNCHANGED vars
  BY <1>1 DEF vars, interrupt, host, AfterReset
<1>2. CASE Enter
  BY <1>2 DEF Enter, host, AfterReset
<1>3. CASE Serve
  BY <1>3 DEF Serve, host, AfterReset
<1>4. CASE HostIn \/ HostStalled \/ HostOut
  BY <1>4 DEF HostIn, HostStalled, HostOut, interrupt, Heard, AfterReset
<1>5. ASSUME NEW r \in Requests, HostSetup(r) PROVE AfterReset'
  BY <1>5 DEF HostSetup, Heard, AfterReset
<1>6. CASE Abort
  BY <1>6 DEF Abort, interrupt, AfterReset
<1>7. CASE BusReset
  BY <1>7 DEF BusReset, AfterReset
<1> QED
  BY <1>1, <1>2, <1>3, <1>4, <1>5, <1>6, <1>7 DEF Next, Interrupt, Tokens

\* A bus reset takes the address away.
LEMMA ResetAddress == ASSUME NEW e \in Device
                      PROVE  usb_bus_reset(e).dev_addr = 0 /\ usb_bus_reset(e).pending_addr = 0
  BY DEF usb_bus_reset, Emptied, Device

\* The interrupt takes the address it was given.
LEMMA AddressInterrupt ==
  ASSUME TypeOK, ResetServed, AfterReset, AddressInv, Enter \/ Serve
  PROVE  AddressInv'
<1>0. d \in Device /\ req \in Requests
  BY DEF TypeOK
<1>1. CASE Enter
  <2>1. setup' = FALSE /\ UNCHANGED <<reset, stage, hostAddr, clean, tidy>>
    BY <1>1 DEF Enter, host, history
  <2>2. CASE setup
    <3>1. latch' = {} /\ d' = usb_handle_setup_packet(d, req)
      BY <1>1, <2>2 DEF Enter
    <3>2. d'.dev_addr = d.dev_addr
      BY <1>0, <3>1, SetupResult
    <3> QED
      BY <2>1, <2>2, <3>1, <3>2 DEF AddressInv
  <2>3. CASE ~setup
    <3>1. d' = d /\ latch' = latch
      BY <1>1, <2>3 DEF Enter
    <3> QED
      BY <2>1, <2>3, <3>1 DEF AddressInv
  <2> QED
    BY <2>2, <2>3
<1>2. CASE Serve
  <2> DEFINE h == usb_handle_buff_status(d, latch)
             e == IF "buff" \in rest THEN h ELSE d
  <2>1. /\ pc = "rest" /\ pc' = "idle" /\ UNCHANGED <<setup, stage, hostAddr, clean, tidy>>
        /\ reset' = (reset /\ "reset" \notin rest)
        /\ latch' = IF "buff" \in rest THEN {} ELSE latch
        /\ d' = IF "reset" \in rest THEN usb_bus_reset(e) ELSE e
    BY <1>2 DEF Serve, host
  <2>2. CASE "reset" \in rest
    <3>1. reset /\ ~setup /\ stage = "idle" /\ hostAddr = 0
      BY <2>2 DEF ResetServed, AfterReset
    <3>2. e \in Device
      BY <1>0, ServeType
    <3>3. d'.dev_addr = 0 /\ d'.pending_addr = 0
      <4> HIDE DEF e
      <4>1. d' = usb_bus_reset(e)
        BY <2>1, <2>2
      <4> QED
        BY <3>2, <4>1, ResetAddress
    <3> QED
      BY <2>1, <3>1, <3>3 DEF AddressInv
  <2>3. CASE "reset" \notin rest
    <3>1. d' = e /\ reset' = reset
      BY <2>1, <2>3 DEF TypeOK
    <3>2. SUFFICES ASSUME tidy, ~reset PROVE AddressInv'
      BY <2>1, <3>1 DEF AddressInv
    <3>3. /\ stage # "idle" => clean
          /\ setup /\ pc = "rest" => latch = {}
          /\ \/ d.dev_addr = hostAddr /\ (d.pending_addr # 0 /\ ~setup => "in" \notin latch)
             \/ d.pending_addr = hostAddr /\ hostAddr # 0 /\ "in" \in latch /\ ~setup /\ stage = "idle"
      BY <3>2 DEF AddressInv
    <3>4. CASE "buff" \notin rest
      <4>1. d' = d /\ latch' = latch
        BY <2>1, <3>1, <3>4
      <4> QED
        BY <2>1, <3>3, <4>1 DEF AddressInv
    <3>5. CASE "buff" \in rest
      <4>1. d' = h /\ latch' = {}
        BY <2>1, <3>1, <3>5
      <4>2. /\ "in" \in latch /\ d.pending_addr # 0 => h.dev_addr = d.pending_addr /\ h.pending_addr = 0
            /\ "in" \notin latch \/ d.pending_addr = 0 =>
                 h.dev_addr = d.dev_addr /\ h.pending_addr = d.pending_addr
        BY <1>0, BuffResult
      <4> HIDE DEF h
      <4>3. d'.dev_addr = hostAddr
        BY <2>1, <3>3, <4>1, <4>2
      <4> QED
        BY <2>1, <3>3, <4>1, <4>3 DEF AddressInv
    <3> QED
      BY <3>4, <3>5
  <2> QED
    BY <2>2, <2>3
<1> QED
  BY <1>1, <1>2

\* The host takes the address with the acknowledgement of it.
LEMMA AddressTokens ==
  ASSUME TypeOK, InTransfer, AddressInv, Tokens
  PROVE  AddressInv'
<1>0. d \in Device
  BY DEF TypeOK
<1>1. stage # "idle" /\ ~reset /\ UNCHANGED <<setup, reset, pc, clean, tidy, req>>
  BY DEF Tokens, HostIn, HostStalled, HostOut, Heard, interrupt, history
<1>2. SUFFICES ASSUME tidy PROVE AddressInv'
  BY <1>1 DEF AddressInv
<1>3. /\ clean /\ d.dev_addr = hostAddr /\ (d.pending_addr # 0 /\ ~setup => "in" \notin latch)
      /\ setup /\ pc = "rest" => latch = {}
  BY <1>1, <1>2 DEF AddressInv
<1>4. CASE HostIn
  <2>1. /\ d.inAvail /\ d' = [d EXCEPT !.inAvail = FALSE, !.inPid = 0, !.inPkt = Zlp]
        /\ latch' = latch \union {"in"}
    BY <1>4 DEF HostIn
  <2>2. d'.dev_addr = d.dev_addr /\ d'.pending_addr = d.pending_addr
    BY <1>0, <2>1 DEF Device
  <2>3. d.pending_addr = 0 \/ req.req = "SET_ADDRESS"
    BY <1>1, <1>3, <2>1, Phases
  <2>4. ~setup
    BY <1>1, <1>3, <2>1, Phases
  <2>5. \/ IsIn(req) /\ req.kind # "unsupported" /\ Sending
        \/ ~IsIn(req) /\ Acked
    BY <1>1, <1>3, <2>1, Phases
  <2>6. CASE IsIn(req) /\ req.kind # "unsupported" /\ Sending
    <3>1. stage = "dataIn" /\ d.pending_addr = 0
      BY <2>3, <2>6, RequestOf DEF Sending
    <3>2. hostAddr' = hostAddr
      <4>1. stage # "statusIn"
        BY <3>1
      <4> QED
        BY <1>4, <4>1 DEF HostIn, host
    <3> QED
      BY <1>1, <1>3, <2>2, <2>4, <3>1, <3>2 DEF AddressInv
  <2>7. CASE ~IsIn(req) /\ Acked
    <3>1. /\ stage = "statusIn" /\ d.inPid = hostPid
          /\ req.req = "SET_ADDRESS" => d.pending_addr = req.arg
      BY <2>7 DEF Acked, Nothing
    <3>2. /\ stage' = "idle"
          /\ hostAddr' = IF req.req = "SET_ADDRESS" THEN req.arg ELSE hostAddr
      BY <1>4, <3>1 DEF HostIn
    <3>3. CASE req.req = "SET_ADDRESS"
      <4>1. hostAddr' = req.arg /\ hostAddr' # 0 /\ d.pending_addr = req.arg
        BY <3>1, <3>2, <3>3, RequestOf
      <4> QED
        BY <1>1, <2>1, <2>2, <2>4, <3>2, <4>1 DEF AddressInv
    <3>4. CASE req.req # "SET_ADDRESS"
      <4>1. hostAddr' = hostAddr /\ d.pending_addr = 0
        BY <2>3, <3>2, <3>4
      <4> QED
        BY <1>1, <1>3, <2>2, <2>4, <3>2, <4>1 DEF AddressInv
    <3> QED
      BY <3>3, <3>4
  <2> QED
    BY <2>5, <2>6, <2>7
<1>5. CASE HostStalled
  <2>1. stage' = "idle" /\ UNCHANGED <<d, latch, hostAddr>>
    BY <1>5 DEF HostStalled, interrupt
  <2> QED
    BY <1>1, <1>3, <2>1 DEF AddressInv
<1>6. CASE HostOut
  <2> DEFINE len == IF stage = "statusOut" THEN 0 ELSE IF req.kind = "short" THEN 4 ELSE 7
             buf == IF stage = "statusOut" THEN d.buf ELSE req.arg
  <2>1. /\ d.outAvail /\ UNCHANGED hostAddr /\ latch' \subseteq latch \union {"out"}
        /\ d' = d \/ d' = [d EXCEPT !.outAvail = FALSE, !.outLen = len, !.buf = buf]
    BY <1>6 DEF HostOut
  <2>2. d'.dev_addr = d.dev_addr /\ d'.pending_addr = d.pending_addr
    <3> HIDE DEF len, buf
    <3> QED
      BY <1>0, <2>1 DEF Device
  <2>3. ~setup
    BY <1>1, <1>3, <2>1, Phases DEF AtSetup
  <2> QED
    BY <1>1, <1>3, <2>1, <2>2, <2>3 DEF AddressInv
<1> QED
  BY <1>4, <1>5, <1>6 DEF Tokens

\* A transfer begins with the address heard.
LEMMA AddressSetup ==
  ASSUME TypeOK, NEW r \in Requests, HostSetup(r)
  PROVE  AddressInv'
<1>1. d.dev_addr = hostAddr /\ setup' = TRUE /\ UNCHANGED <<pc, hostAddr>>
  BY DEF HostSetup, Heard
<1>2. tidy' => clean'
  BY DEF HostSetup
<1>3. clean' => ~Remains
  BY DEF HostSetup
<1>4. d'.dev_addr = d.dev_addr
  BY DEF HostSetup, TypeOK, Device
<1> QED
  BY <1>1, <1>2, <1>3, <1>4 DEF AddressInv, Remains

\* Every step.
LEMMA AddressStep ==
  ASSUME TypeOK, ResetServed, InTransfer, AfterReset, AddressInv, [Next]_vars
  PROVE  AddressInv'
<1>1. CASE UNCHANGED vars
  BY <1>1 DEF vars, interrupt, host, history, AddressInv
<1>2. CASE Enter \/ Serve
  BY <1>2, AddressInterrupt
<1>3. CASE Tokens
  BY <1>3, AddressTokens
<1>4. ASSUME NEW r \in Requests, HostSetup(r) PROVE AddressInv'
  BY <1>4, AddressSetup
<1>5. CASE Abort
  BY <1>5 DEF Abort, interrupt, history, AddressInv
<1>6. CASE BusReset
  BY <1>6 DEF BusReset, AddressInv
<1> QED
  BY <1>1, <1>2, <1>3, <1>4, <1>5, <1>6 DEF Next, Interrupt

----------------------------------------------------------------------------
(* The transfers, whole *)

\* While nothing of one transfer meets the next, the device is where the
\* host's transfer expects it: the inductive invariant of EP0.
ControlInv == BaudInv /\ InTransfer /\ Resulted /\ AfterReset /\ AddressInv

\* For every value of the constants, a transfer that starts clean goes through
\* the phases of InTransfer and the address follows it.
THEOREM TransferInvariant == Spec => []ControlInv
<1>1. Init => ControlInv
  <2> SUFFICES ASSUME Init PROVE ControlInv
    OBVIOUS
  <2>1. BaudInv
    BY BaudAtInit
  <2>2. ~clean /\ ~tidy /\ ~reset
    BY DEF Init
  <2> QED
    BY <2>1, <2>2 DEF ControlInv, InTransfer, Resulted, AfterReset, AddressInv
<1>2. ControlInv /\ [Next]_vars => ControlInv'
  <2> SUFFICES ASSUME ControlInv, [Next]_vars PROVE ControlInv'
    OBVIOUS
  <2>1. TypeOK /\ ResetServed /\ BaudInv /\ InTransfer /\ Resulted /\ AfterReset /\ AddressInv
    BY DEF ControlInv, BaudInv
  <2>2. BaudInv'
    BY <2>1, BaudStep
  <2>3. InTransfer' /\ Resulted'
    BY <2>1, TransferStep
  <2>4. AfterReset' /\ AddressInv'
    BY <2>1, AfterResetStep, AddressStep
  <2> QED
    BY <2>2, <2>3, <2>4 DEF ControlInv
<1> QED
  BY <1>1, <1>2, PTL DEF Spec

\* A transfer that starts with nothing left over from another ends refused if
\* the device has no such thing, and else with all that was asked for, in
\* order, and with the baud rate it sets.
THEOREM RightResultHolds == Spec => []RightResult
<1>1. ControlInv => RightResult
  BY DEF ControlInv, Resulted, RightResult
<1> QED
  BY <1>1, TransferInvariant, PTL

\* While no transfer since the bus reset has met the remains of another, device
\* and host agree on the address once nothing is waiting.
THEOREM AddressHeardHolds == Spec => []AddressHeard
<1>1. ControlInv => AddressHeard
  BY DEF ControlInv, AddressInv, AddressHeard
<1> QED
  BY <1>1, TransferInvariant, PTL

-------------------------------------------------------------------------------
(* The tables of usb_descriptors.c, and the host that reads them.           *)

\* The parts of the configuration, one by one: the header, then each function's
\* association, control interface and data interface.
LEMMA Parts ==
    /\ Len(config_desc) = 21 /\ DOMAIN config_desc = 1..21
    /\ config_desc[1] = Header
    /\ \A i \in 1..10 : /\ config_desc[i + 1] = CdcFunction(0, 1, 3)[i]
                        /\ config_desc[i + 11] = CdcFunction(2, 2, 4)[i]
<1> DEFINE S == {Header} \union {CdcFunction(0, 1, 3)[i] : i \in 1..10}
                         \union {CdcFunction(2, 2, 4)[i] : i \in 1..10}
           a == <<Header>>
           b == CdcFunction(0, 1, 3)
           c == CdcFunction(2, 2, 4)
<1>1. Len(b) = 10 /\ DOMAIN b = 1..10 /\ Len(c) = 10 /\ DOMAIN c = 1..10
  BY DEF CdcFunction
<1>2. b = [i \in 1..10 |-> b[i]] /\ c = [i \in 1..10 |-> c[i]]
  BY DEF CdcFunction
<1>3. \A i \in 1..10 : b[i] \in S /\ c[i] \in S
  OBVIOUS
<1>4. a \in Seq(S) /\ Len(a) = 1 /\ a[1] = Header
  OBVIOUS
<1> HIDE DEF S, a, b, c
<1>5. b \in Seq(S) /\ c \in Seq(S)
  BY <1>2, <1>3
<1>6. /\ a \o b \in Seq(S) /\ Len(a \o b) = 11
      /\ \A i \in 1..11 : (a \o b)[i] = IF i <= 1 THEN a[i] ELSE b[i - 1]
  <2>1. /\ a \o b \in Seq(S) /\ Len(a \o b) = Len(a) + Len(b)
        /\ \A i \in 1..(Len(a) + Len(b)) : (a \o b)[i] = IF i <= Len(a) THEN a[i] ELSE b[i - Len(a)]
    BY <1>4, <1>5, ConcatProperties
  <2>2. Len(a) + Len(b) = 11
    BY <1>1, <1>4
  <2> QED
    BY <1>4, <2>1, <2>2
<1> DEFINE e == a \o b
<1> HIDE DEF e
<1>7. e \in Seq(S) /\ Len(e) = 11 /\ \A i \in 1..11 : e[i] = IF i <= 1 THEN a[i] ELSE b[i - 1]
  BY <1>6 DEF e
<1>8. /\ e \o c \in Seq(S) /\ Len(e \o c) = 21
      /\ \A i \in 1..21 : (e \o c)[i] = IF i <= 11 THEN e[i] ELSE c[i - 11]
  <2>1. /\ e \o c \in Seq(S) /\ Len(e \o c) = Len(e) + Len(c)
        /\ \A i \in 1..(Len(e) + Len(c)) : (e \o c)[i] = IF i <= Len(e) THEN e[i] ELSE c[i - Len(e)]
    BY <1>5, <1>7, ConcatProperties
  <2>2. Len(e) + Len(c) = 21
    BY <1>1, <1>7
  <2> QED
    BY <1>7, <2>1, <2>2
<1>9. config_desc = e \o c
  BY DEF config_desc, e, a, b, c
<1> DEFINE g == e \o c
<1> HIDE DEF g
<1>10. /\ g \in Seq(S) /\ Len(g) = 21 /\ config_desc = g
       /\ \A i \in 1..21 : g[i] = IF i <= 11 THEN e[i] ELSE c[i - 11]
  BY <1>8, <1>9 DEF g
<1>11. g[1] = Header
  BY <1>4, <1>7, <1>10
<1>12. ASSUME NEW i \in 1..10 PROVE g[i + 1] = b[i] /\ g[i + 11] = c[i]
  <2>1. PICK x \in 1..11, y \in 1..21 : x = i + 1 /\ y = i + 11
    OBVIOUS
  <2>2. x \in 1..21 /\ x <= 11 /\ ~(x <= 1) /\ ~(y <= 11) /\ x - 1 = i /\ y - 11 = i
    BY <2>1
  <2>3. g[x] = e[x]
    <3>1. g[x] = IF x <= 11 THEN e[x] ELSE c[x - 11]
      BY <1>10, <2>2, Zenon
    <3> QED
      BY <2>2, <3>1
  <2>4. e[x] = b[i]
    <3>1. e[x] = IF x <= 1 THEN a[x] ELSE b[x - 1]
      BY <1>7, Zenon
    <3> QED
      BY <2>2, <3>1
  <2>5. g[y] = c[i]
    <3>1. g[y] = IF y <= 11 THEN e[y] ELSE c[y - 11]
      BY <1>10, Zenon
    <3> QED
      BY <2>2, <3>1
  <2> QED
    BY <2>1, <2>3, <2>4, <2>5
<1>13. DOMAIN g = 1..21
  BY <1>10
<1> QED
  BY <1>10, <1>11, <1>12, <1>13 DEF b, c

\* The parts of a function.
LEMMA FunctionParts ==
    ASSUME NEW f, NEW m, NEW k
    PROVE  LET b == CdcFunction(f, m, k)
           IN  /\ b[1] = [bLength |-> 8, type |-> "ASSOCIATION", bFirstInterface |-> f, bInterfaceCount |-> 2]
               /\ b[2] = Interface(f, 1)
               /\ b[3] = [bLength |-> 5, type |-> "CDC_HEADER"]
               /\ b[4] = [bLength |-> 4, type |-> "CDC_ACM"]
               /\ b[5] = [bLength |-> 5, type |-> "CDC_UNION", control |-> f, subordinate |-> f + 1]
               /\ b[6] = [bLength |-> 5, type |-> "CDC_CALL", data |-> f + 1]
               /\ b[7] = Endpoint(In(m), "INTERRUPT", 16)
               /\ b[8] = Interface(f + 1, 2)
               /\ b[9] = Endpoint(Out(k), "BULK", 64)
               /\ b[10] = Endpoint(In(k), "BULK", 64)
  BY DEF CdcFunction


\* Their types and lengths, in the order of the descriptor.
PartType == <<"CONFIGURATION",
              "ASSOCIATION", "INTERFACE", "CDC_HEADER", "CDC_ACM", "CDC_UNION", "CDC_CALL",
              "ENDPOINT", "INTERFACE", "ENDPOINT", "ENDPOINT",
              "ASSOCIATION", "INTERFACE", "CDC_HEADER", "CDC_ACM", "CDC_UNION", "CDC_CALL",
              "ENDPOINT", "INTERFACE", "ENDPOINT", "ENDPOINT">>
PartLength == <<9, 8, 9, 5, 4, 5, 5, 7, 9, 7, 7, 8, 9, 5, 4, 5, 5, 7, 9, 7, 7>>

LEMMA PartsAre == \A i \in 1..21 : config_desc[i].type = PartType[i] /\ config_desc[i].bLength = PartLength[i]
<1>1. config_desc[1].type = PartType[1] /\ config_desc[1].bLength = PartLength[1]
  BY Parts DEF Header, PartType, PartLength
<1>2. ASSUME NEW f, NEW m, NEW k, NEW i \in 1..10
      PROVE  LET p == CdcFunction(f, m, k)[i] IN
             /\ p.type = PartType[i + 1] /\ p.type = PartType[i + 11]
             /\ p.bLength = PartLength[i + 1] /\ p.bLength = PartLength[i + 11]
  <2> DEFINE b == CdcFunction(f, m, k)
  <2>0. /\ b[1] = [bLength |-> 8, type |-> "ASSOCIATION", bFirstInterface |-> f, bInterfaceCount |-> 2]
        /\ b[2] = Interface(f, 1)
        /\ b[3] = [bLength |-> 5, type |-> "CDC_HEADER"]
        /\ b[4] = [bLength |-> 4, type |-> "CDC_ACM"]
        /\ b[5] = [bLength |-> 5, type |-> "CDC_UNION", control |-> f, subordinate |-> f + 1]
        /\ b[6] = [bLength |-> 5, type |-> "CDC_CALL", data |-> f + 1]
        /\ b[7] = Endpoint(In(m), "INTERRUPT", 16)
        /\ b[8] = Interface(f + 1, 2)
        /\ b[9] = Endpoint(Out(k), "BULK", 64)
        /\ b[10] = Endpoint(In(k), "BULK", 64)
    BY FunctionParts
  <2> HIDE DEF b
  <2>1. /\ b[1].type = "ASSOCIATION" /\ b[2].type = "INTERFACE" /\ b[3].type = "CDC_HEADER"
        /\ b[4].type = "CDC_ACM" /\ b[5].type = "CDC_UNION" /\ b[6].type = "CDC_CALL"
        /\ b[7].type = "ENDPOINT" /\ b[8].type = "INTERFACE" /\ b[9].type = "ENDPOINT"
        /\ b[10].type = "ENDPOINT"
    BY <2>0 DEF Interface, Endpoint
  <2>2. /\ b[1].bLength = 8 /\ b[2].bLength = 9 /\ b[3].bLength = 5 /\ b[4].bLength = 4
        /\ b[5].bLength = 5 /\ b[6].bLength = 5 /\ b[7].bLength = 7 /\ b[8].bLength = 9
        /\ b[9].bLength = 7 /\ b[10].bLength = 7
    BY <2>0 DEF Interface, Endpoint
  <2>3. i = 1 \/ i = 2 \/ i = 3 \/ i = 4 \/ i = 5 \/ i = 6 \/ i = 7 \/ i = 8 \/ i = 9 \/ i = 10
    OBVIOUS
  <2>4. b[i].type = PartType[i + 1] /\ b[i].type = PartType[i + 11]
    BY <2>1, <2>3 DEF PartType
  <2>5. b[i].bLength = PartLength[i + 1] /\ b[i].bLength = PartLength[i + 11]
    BY <2>2, <2>3 DEF PartLength
  <2> QED
    BY <2>4, <2>5 DEF b
<1>3. TAKE i \in 1..21
<1>4. CASE i = 1
  BY <1>1, <1>4
<1>5. CASE i \in 2..11
  <2>1. PICK j \in 1..10 : i = j + 1
    <3>1. i - 1 \in 1..10 /\ i = (i - 1) + 1
      BY <1>5
    <3> QED
      BY <3>1
  <2> QED
    BY <1>2, <2>1, Parts
<1>6. CASE i \in 12..21
  <2>1. PICK j \in 1..10 : i = j + 11
    <3>1. i - 11 \in 1..10 /\ i = (i - 11) + 11
      BY <1>6
    <3> QED
      BY <3>1
  <2> QED
    BY <1>2, <2>1, Parts
<1>7. i = 1 \/ i \in 2..11 \/ i \in 12..21
  OBVIOUS
<1> QED
  BY <1>4, <1>5, <1>6, <1>7

\* Where the parts of each type are.
LEMMA PartsOf ==
    /\ Of("INTERFACE") = {3, 9, 13, 19}
    /\ Of("ENDPOINT") = {8, 10, 11, 18, 20, 21}
    /\ Of("ASSOCIATION") = {2, 12}
    /\ Of("CDC_UNION") = {6, 16}
    /\ Of("CDC_CALL") = {7, 17}
<1>1. \A t : Of(t) = {i \in 1..21 : PartType[i] = t}
  BY Parts, PartsAre DEF Of
<1>2. \A i \in 1..21 : \/ i = 1 \/ i = 2 \/ i = 3 \/ i = 4 \/ i = 5 \/ i = 6 \/ i = 7
                       \/ i = 8 \/ i = 9 \/ i = 10 \/ i = 11 \/ i = 12 \/ i = 13 \/ i = 14
                       \/ i = 15 \/ i = 16 \/ i = 17 \/ i = 18 \/ i = 19 \/ i = 20 \/ i = 21
  OBVIOUS
<1>3. Of("INTERFACE") = {3, 9, 13, 19}
  BY <1>1, <1>2 DEF PartType
<1>4. Of("ENDPOINT") = {8, 10, 11, 18, 20, 21}
  BY <1>1, <1>2 DEF PartType
<1>5. Of("ASSOCIATION") = {2, 12}
  BY <1>1, <1>2 DEF PartType
<1>6. Of("CDC_UNION") = {6, 16}
  BY <1>1, <1>2 DEF PartType
<1>7. Of("CDC_CALL") = {7, 17}
  BY <1>1, <1>2 DEF PartType
<1> QED
  BY <1>3, <1>4, <1>5, <1>6, <1>7

\* The parts the agreement is about.
LEMMA PartsAt ==
    /\ config_desc[3] = Interface(0, 1) /\ config_desc[9] = Interface(1, 2)
    /\ config_desc[13] = Interface(2, 1) /\ config_desc[19] = Interface(3, 2)
    /\ config_desc[8] = Endpoint(In(1), "INTERRUPT", 16)
    /\ config_desc[10] = Endpoint(Out(3), "BULK", 64)
    /\ config_desc[11] = Endpoint(In(3), "BULK", 64)
    /\ config_desc[18] = Endpoint(In(2), "INTERRUPT", 16)
    /\ config_desc[20] = Endpoint(Out(4), "BULK", 64)
    /\ config_desc[21] = Endpoint(In(4), "BULK", 64)
    /\ config_desc[2] = [bLength |-> 8, type |-> "ASSOCIATION", bFirstInterface |-> 0, bInterfaceCount |-> 2]
    /\ config_desc[12] = [bLength |-> 8, type |-> "ASSOCIATION", bFirstInterface |-> 2, bInterfaceCount |-> 2]
    /\ config_desc[6] = [bLength |-> 5, type |-> "CDC_UNION", control |-> 0, subordinate |-> 1]
    /\ config_desc[16] = [bLength |-> 5, type |-> "CDC_UNION", control |-> 2, subordinate |-> 3]
    /\ config_desc[7] = [bLength |-> 5, type |-> "CDC_CALL", data |-> 1]
    /\ config_desc[17] = [bLength |-> 5, type |-> "CDC_CALL", data |-> 3]
<1> DEFINE b == CdcFunction(0, 1, 3)
           c == CdcFunction(2, 2, 4)
<1>1. \A i \in 1..10 : config_desc[i + 1] = b[i] /\ config_desc[i + 11] = c[i]
  BY Parts
<1>2. /\ b[1] = [bLength |-> 8, type |-> "ASSOCIATION", bFirstInterface |-> 0, bInterfaceCount |-> 2]
      /\ b[2] = Interface(0, 1)
      /\ b[5] = [bLength |-> 5, type |-> "CDC_UNION", control |-> 0, subordinate |-> 0 + 1]
      /\ b[6] = [bLength |-> 5, type |-> "CDC_CALL", data |-> 0 + 1]
      /\ b[7] = Endpoint(In(1), "INTERRUPT", 16) /\ b[8] = Interface(0 + 1, 2)
      /\ b[9] = Endpoint(Out(3), "BULK", 64) /\ b[10] = Endpoint(In(3), "BULK", 64)
  BY FunctionParts
<1>3. /\ c[1] = [bLength |-> 8, type |-> "ASSOCIATION", bFirstInterface |-> 2, bInterfaceCount |-> 2]
      /\ c[2] = Interface(2, 1)
      /\ c[5] = [bLength |-> 5, type |-> "CDC_UNION", control |-> 2, subordinate |-> 2 + 1]
      /\ c[6] = [bLength |-> 5, type |-> "CDC_CALL", data |-> 2 + 1]
      /\ c[7] = Endpoint(In(2), "INTERRUPT", 16) /\ c[8] = Interface(2 + 1, 2)
      /\ c[9] = Endpoint(Out(4), "BULK", 64) /\ c[10] = Endpoint(In(4), "BULK", 64)
  BY FunctionParts
<1>4. 0 + 1 = 1 /\ 2 + 1 = 3
  OBVIOUS
<1> HIDE DEF b, c
<1>5. /\ config_desc[2] = b[1] /\ config_desc[3] = b[2] /\ config_desc[6] = b[5]
      /\ config_desc[7] = b[6] /\ config_desc[8] = b[7] /\ config_desc[9] = b[8]
      /\ config_desc[10] = b[9] /\ config_desc[11] = b[10]
  BY <1>1
<1>6. /\ config_desc[12] = c[1] /\ config_desc[13] = c[2] /\ config_desc[16] = c[5]
      /\ config_desc[17] = c[6] /\ config_desc[18] = c[7] /\ config_desc[19] = c[8]
      /\ config_desc[20] = c[9] /\ config_desc[21] = c[10]
  BY <1>1
<1> QED
  BY <1>2, <1>3, <1>4, <1>5, <1>6

\* Every interface is numbered, and has as many endpoints as it says.
LEMMA Counted ==
    /\ { config_desc[i].number : i \in Of("INTERFACE") } = 0..Header.bNumInterfaces - 1
    /\ \A i \in Of("INTERFACE") : Cardinality(EndpointsOf(i)) = config_desc[i].bNumEndpoints
<1>1. /\ config_desc[3].number = 0 /\ config_desc[9].number = 1
      /\ config_desc[13].number = 2 /\ config_desc[19].number = 3
      /\ config_desc[3].bNumEndpoints = 1 /\ config_desc[9].bNumEndpoints = 2
      /\ config_desc[13].bNumEndpoints = 1 /\ config_desc[19].bNumEndpoints = 2
  BY PartsAt DEF Interface
<1>2. Of("INTERFACE") = {3, 9, 13, 19} /\ Of("ENDPOINT") = {8, 10, 11, 18, 20, 21}
  BY PartsOf
<1>3. Header.bNumInterfaces - 1 = 3
  BY DEF Header
<1>4. { config_desc[i].number : i \in Of("INTERFACE") } = {0, 1, 2, 3}
  BY <1>1, <1>2
<1>5. 0..Header.bNumInterfaces - 1 = {0, 1, 2, 3}
  BY <1>3
<1>6. EndpointsOf(3) = {8}
  BY <1>2 DEF EndpointsOf
<1>7. EndpointsOf(9) = {10, 11}
  BY <1>2 DEF EndpointsOf
<1>8. EndpointsOf(13) = {18}
  BY <1>2 DEF EndpointsOf
<1>9. EndpointsOf(19) = {20, 21}
  BY <1>2 DEF EndpointsOf
<1>10. Cardinality({8}) = 1 /\ Cardinality({18}) = 1
  BY FS_Singleton
<1>11. ASSUME NEW a \in Nat, NEW b \in Nat, a # b PROVE Cardinality({a, b}) = 2
  <2>1. IsFiniteSet({a}) /\ Cardinality({a}) = 1
    BY FS_Singleton
  <2>2. {a, b} = {a} \union {b} /\ b \notin {a}
    BY <1>11
  <2>3. Cardinality({a} \union {b}) = Cardinality({a}) + 1
    BY <2>1, <2>2, FS_AddElement
  <2> QED
    BY <2>1, <2>2, <2>3
<1>12. Cardinality({10, 11}) = 2 /\ Cardinality({20, 21}) = 2
  BY <1>11
<1>13. ASSUME NEW i \in Of("INTERFACE") PROVE Cardinality(EndpointsOf(i)) = config_desc[i].bNumEndpoints
  BY <1>1, <1>2, <1>6, <1>7, <1>8, <1>9, <1>10, <1>12
<1> QED
  BY <1>4, <1>5, <1>13

\* The union and the call descriptor are in the group of the association before them.
LEMMA GroupsAgree == Associated
<1>1. Of("ASSOCIATION") = {2, 12} /\ Of("CDC_UNION") = {6, 16} /\ Of("CDC_CALL") = {7, 17}
  BY PartsOf
<1>2. /\ config_desc[2].bFirstInterface = 0 /\ config_desc[2].bInterfaceCount = 2
      /\ config_desc[12].bFirstInterface = 2 /\ config_desc[12].bInterfaceCount = 2
      /\ config_desc[6].control = 0 /\ config_desc[6].subordinate = 1
      /\ config_desc[16].control = 2 /\ config_desc[16].subordinate = 3
      /\ config_desc[7].data = 1 /\ config_desc[17].data = 3
  BY PartsAt
<1>3. ASSUME NEW a \in Of("ASSOCIATION")
      PROVE  LET low == config_desc[a].bFirstInterface
                 group == low..low + config_desc[a].bInterfaceCount - 1
             IN  /\ \E i \in Of("CDC_UNION") : config_desc[i].control = low
                                               /\ config_desc[i].subordinate \in group
                 /\ \E i \in Of("CDC_CALL") : config_desc[i].data \in group \ {low}
  <2>1. CASE a = 2
    <3>1. 1 \in 0..0 + 2 - 1 /\ 1 \in (0..0 + 2 - 1) \ {0}
      OBVIOUS
    <3> QED
      BY <1>1, <1>2, <2>1, <3>1
  <2>2. CASE a = 12
    <3>1. 3 \in 2..2 + 2 - 1 /\ 3 \in (2..2 + 2 - 1) \ {2}
      OBVIOUS
    <3> QED
      BY <1>1, <1>2, <2>2, <3>1
  <2> QED
    BY <1>1, <2>1, <2>2
<1> QED
  BY <1>3 DEF Associated

\* The table of endpoints, one by one.
LEMMA EndpointTable ==
    /\ DOMAIN endpoints = 1..8
    /\ endpoints[1] = EpConfig(Out(0), "CONTROL", 64, Out(0), -1)
    /\ endpoints[2] = EpConfig(In(0), "CONTROL", 64, In(0), -1)
    /\ endpoints[3] = EpConfig(In(1), "INTERRUPT", 16, In(1), 0)
    /\ endpoints[4] = EpConfig(Out(3), "BULK", 64, Out(3), 1)
    /\ endpoints[5] = EpConfig(In(3), "BULK", 64, In(3), 2)
    /\ endpoints[6] = EpConfig(In(2), "INTERRUPT", 16, In(2), 3)
    /\ endpoints[7] = EpConfig(Out(4), "BULK", 64, Out(4), 4)
    /\ endpoints[8] = EpConfig(In(4), "BULK", 64, In(4), 5)
  BY DEF endpoints

\* Their addresses, registers and buffers.
LEMMA EndpointFields ==
    /\ \A e \in 1..8 : endpoints[e].buffer_control = endpoints[e].descriptor.address
    /\ endpoints[1].descriptor.address = Out(0) /\ endpoints[2].descriptor.address = In(0)
    /\ endpoints[3].descriptor.address = In(1) /\ endpoints[4].descriptor.address = Out(3)
    /\ endpoints[5].descriptor.address = In(3) /\ endpoints[6].descriptor.address = In(2)
    /\ endpoints[7].descriptor.address = Out(4) /\ endpoints[8].descriptor.address = In(4)
    /\ endpoints[1].data_buffer = -1 /\ endpoints[2].data_buffer = -1
    /\ endpoints[3].data_buffer = 0 /\ endpoints[4].data_buffer = 1
    /\ endpoints[5].data_buffer = 2 /\ endpoints[6].data_buffer = 3
    /\ endpoints[7].data_buffer = 4 /\ endpoints[8].data_buffer = 5
<1>1. \A a, attr, size, ctrl, block :
         LET c == EpConfig(a, attr, size, ctrl, block)
         IN c.descriptor.address = a /\ c.buffer_control = ctrl /\ c.data_buffer = block
  BY DEF EpConfig, Endpoint
<1>2. \A e \in 1..8 : e = 1 \/ e = 2 \/ e = 3 \/ e = 4 \/ e = 5 \/ e = 6 \/ e = 7 \/ e = 8
  OBVIOUS
<1>3. /\ endpoints[1].descriptor.address = Out(0) /\ endpoints[2].descriptor.address = In(0)
      /\ endpoints[3].descriptor.address = In(1) /\ endpoints[4].descriptor.address = Out(3)
      /\ endpoints[5].descriptor.address = In(3) /\ endpoints[6].descriptor.address = In(2)
      /\ endpoints[7].descriptor.address = Out(4) /\ endpoints[8].descriptor.address = In(4)
  BY <1>1, EndpointTable
<1>4. /\ endpoints[1].data_buffer = -1 /\ endpoints[2].data_buffer = -1
      /\ endpoints[3].data_buffer = 0 /\ endpoints[4].data_buffer = 1
      /\ endpoints[5].data_buffer = 2 /\ endpoints[6].data_buffer = 3
      /\ endpoints[7].data_buffer = 4 /\ endpoints[8].data_buffer = 5
  BY <1>1, EndpointTable
<1>5. \A e \in 1..8 : endpoints[e].buffer_control = endpoints[e].descriptor.address
  BY <1>1, <1>2, EndpointTable
<1> QED
  BY <1>3, <1>4, <1>5

\* No address is in the table twice.
LEMMA NoTwoEntries == \A e, f \in 1..8 : endpoints[e].descriptor.address = endpoints[f].descriptor.address => e = f
<1>1. \A e \in 1..8 : e = 1 \/ e = 2 \/ e = 3 \/ e = 4 \/ e = 5 \/ e = 6 \/ e = 7 \/ e = 8
  OBVIOUS
<1> DEFINE A == [e \in 1..8 |-> endpoints[e].descriptor.address.ep]
           D == [e \in 1..8 |-> endpoints[e].descriptor.address.dir]
<1>2. /\ A[1] = 0 /\ A[2] = 0 /\ A[3] = 1 /\ A[4] = 3 /\ A[5] = 3 /\ A[6] = 2 /\ A[7] = 4 /\ A[8] = 4
      /\ D[1] = "OUT" /\ D[2] = "IN" /\ D[4] = "OUT" /\ D[5] = "IN" /\ D[7] = "OUT" /\ D[8] = "IN"
  BY EndpointFields DEF In, Out
<1>3. \A e, f \in 1..8 : endpoints[e].descriptor.address = endpoints[f].descriptor.address
                           => A[e] = A[f] /\ D[e] = D[f]
  OBVIOUS
<1> HIDE DEF A, D
<1>4. \A e, f \in 1..8 : A[e] = A[f] /\ D[e] = D[f] => e = f
  BY <1>1, <1>2
<1> QED
  BY <1>3, <1>4

\* Each endpoint descriptor has its entry, and a bit that is scanned.
LEMMA EntriesAgree == Registered
<1>1. Of("ENDPOINT") = {8, 10, 11, 18, 20, 21} /\ DOMAIN endpoints = 1..8
  BY PartsOf, EndpointTable
<1>2. \A a, attr, size, ctrl, block : EpConfig(a, attr, size, ctrl, block).descriptor = Endpoint(a, attr, size)
  BY DEF EpConfig
<1>3. /\ endpoints[3].descriptor = config_desc[8] /\ endpoints[4].descriptor = config_desc[10]
      /\ endpoints[5].descriptor = config_desc[11] /\ endpoints[6].descriptor = config_desc[18]
      /\ endpoints[7].descriptor = config_desc[20] /\ endpoints[8].descriptor = config_desc[21]
  BY <1>2, EndpointTable, PartsAt
<1>4. ASSUME NEW e \in 1..8
      PROVE  usb_get_endpoint_configuration(endpoints[e].descriptor.address) = {e}
  BY <1>1, NoTwoEntries DEF usb_get_endpoint_configuration
<1>5. /\ EndpointOfBit(2) = In(1) /\ EndpointOfBit(4) = In(2) /\ EndpointOfBit(6) = In(3)
      /\ EndpointOfBit(8) = In(4) /\ EndpointOfBit(7) = Out(3) /\ EndpointOfBit(9) = Out(4)
  <2>1. 2 % 2 = 0 /\ 4 % 2 = 0 /\ 6 % 2 = 0 /\ 8 % 2 = 0 /\ 7 % 2 = 1 /\ 9 % 2 = 1
    OBVIOUS
  <2>2. 2 \div 2 = 1 /\ 4 \div 2 = 2 /\ 6 \div 2 = 3 /\ 8 \div 2 = 4 /\ 7 \div 2 = 3 /\ 9 \div 2 = 4
    OBVIOUS
  <2> QED
    BY <2>1, <2>2 DEF EndpointOfBit
<1>6. \A e \in 3..8 : \E b \in 0..USB_BUF_STATUS_BITS - 1 : EndpointOfBit(b) = endpoints[e].descriptor.address
  <2>1. \A b \in {2, 4, 6, 7, 8, 9} : b \in 0..USB_BUF_STATUS_BITS - 1
    BY DEF USB_BUF_STATUS_BITS
  <2>2. \A e \in 3..8 : e = 3 \/ e = 4 \/ e = 5 \/ e = 6 \/ e = 7 \/ e = 8
    OBVIOUS
  <2> QED
    BY <1>5, <2>1, <2>2, EndpointFields
<1>7. ASSUME NEW i \in Of("ENDPOINT")
      PROVE  \E e \in DOMAIN endpoints :
               /\ usb_get_endpoint_configuration(config_desc[i].address) = {e}
               /\ endpoints[e].descriptor = config_desc[i]
               /\ endpoints[e].buffer_control = config_desc[i].address
               /\ \E b \in 0..USB_BUF_STATUS_BITS - 1 : EndpointOfBit(b) = config_desc[i].address
  <2>1. PICK e \in 3..8 : endpoints[e].descriptor = config_desc[i]
    <3>1. 3 \in 3..8 /\ 4 \in 3..8 /\ 5 \in 3..8 /\ 6 \in 3..8 /\ 7 \in 3..8 /\ 8 \in 3..8
      OBVIOUS
    <3>2. i = 8 \/ i = 10 \/ i = 11 \/ i = 18 \/ i = 20 \/ i = 21
      BY <1>1
    <3> QED
      BY <1>3, <3>1, <3>2
  <2>2. e \in 1..8
    OBVIOUS
  <2>3. endpoints[e].descriptor.address = config_desc[i].address
    BY <2>1
  <2>4. usb_get_endpoint_configuration(config_desc[i].address) = {e}
    BY <1>4, <2>2, <2>3
  <2>5. endpoints[e].buffer_control = config_desc[i].address
    BY <2>2, <2>3, EndpointFields
  <2>6. \E b \in 0..USB_BUF_STATUS_BITS - 1 : EndpointOfBit(b) = config_desc[i].address
    BY <1>6, <2>3
  <2> QED
    BY <1>1, <2>1, <2>2, <2>4, <2>5, <2>6
<1>8. ASSUME NEW e \in DOMAIN endpoints, NEW f \in DOMAIN endpoints,
             endpoints[e].data_buffer = endpoints[f].data_buffer
      PROVE  e = f \/ {endpoints[e].descriptor.address.ep, endpoints[f].descriptor.address.ep} = {0}
  <2>1. e \in 1..8 /\ f \in 1..8
    BY <1>1
  <2>2. \A k \in 1..8 : k = 1 \/ k = 2 \/ k = 3 \/ k = 4 \/ k = 5 \/ k = 6 \/ k = 7 \/ k = 8
    OBVIOUS
  <2> DEFINE B == [k \in 1..8 |-> endpoints[k].data_buffer]
  <2>3. /\ B[1] = -1 /\ B[2] = -1 /\ B[3] = 0 /\ B[4] = 1 /\ B[5] = 2 /\ B[6] = 3 /\ B[7] = 4 /\ B[8] = 5
        /\ B[e] = B[f]
    BY <1>8, <2>1, EndpointFields
  <2> HIDE DEF B
  <2>4. e = f \/ (e \in {1, 2} /\ f \in {1, 2})
    BY <2>1, <2>2, <2>3
  <2>5. endpoints[1].descriptor.address.ep = 0 /\ endpoints[2].descriptor.address.ep = 0
    BY EndpointFields DEF In, Out
  <2> QED
    BY <2>4, <2>5
<1> QED
  BY <1>7, <1>8 DEF Registered

\* The lengths of the parts add up to wTotalLength.
LEMMA LengthAddsUp == Header.wTotalLength = config_desc_len
<1> DEFINE w == [k \in 1..21 |-> config_desc[k].bLength]
           iter[s \in SUBSET DOMAIN config_desc] ==
              IF s = {} THEN 0
              ELSE LET x == CHOOSE x \in s : TRUE IN config_desc[x].bLength + iter[s \ {x}]
<1>1. config_desc_len = iter[DOMAIN config_desc]
  BY Zenon DEF config_desc_len, FoldSeq, FoldFunction, FoldFunctionOnSet, MapThenFoldSet
<1>2. DOMAIN config_desc = 1..21
  BY Parts
<1>3. w \in [1..21 -> Nat] /\ \A k \in 1..21 : w[k] = PartLength[k]
  <2>1. \A k \in 1..21 : PartLength[k] \in Nat
    <3>1. PartLength \in [1..21 -> Nat]
      BY DEF PartLength
    <3> QED
      BY <3>1
  <2> QED
    BY <2>1, PartsAre
<1>4. PICK g : AddsUp(g, 21, w)
  <2>1. 21 \in Nat
    OBVIOUS
  <2> HIDE DEF w
  <2> QED
    BY <1>3, <2>1, SumsOfSets
<1>5. \A s \in SUBSET (1..21) : s # {} => (CHOOSE x \in s : TRUE) \in s
  OBVIOUS
<1>6. ASSUME NEW s \in SUBSET (1..21)
      PROVE  g[s] = IF s = {} THEN 0
                    ELSE LET x == CHOOSE x \in s : TRUE IN config_desc[x].bLength + g[s \ {x}]
  <2>1. CASE s = {}
    BY <1>4, <2>1 DEF AddsUp
  <2>2. CASE s # {}
    <3>1. PICK x \in s : x = CHOOSE y \in s : TRUE
      BY <1>5, <2>2
    <3>2. g[s] = w[x] + g[s \ {x}]
      <4> HIDE DEF w
      <4> QED
        BY <1>4, <3>1 DEF AddsUp
    <3>3. w[x] = config_desc[x].bLength
      BY <3>1
    <3> QED
      BY <2>2, <3>1, <3>2, <3>3
  <2> QED
    BY <2>1, <2>2
<1>7. iter = [s \in SUBSET DOMAIN config_desc |->
               IF s = {} THEN 0
               ELSE LET x == CHOOSE x \in s : TRUE IN config_desc[x].bLength + iter[s \ {x}]]
  <2>1. g = [s \in SUBSET DOMAIN config_desc |->
               IF s = {} THEN 0
               ELSE LET x == CHOOSE x \in s : TRUE IN config_desc[x].bLength + g[s \ {x}]]
    <3>1. g = [s \in SUBSET (1..21) |-> g[s]]
      BY <1>4 DEF AddsUp
    <3> QED
      BY <1>2, <1>6, <3>1
  <2>2. \E h : h = [s \in SUBSET DOMAIN config_desc |->
               IF s = {} THEN 0
               ELSE LET x == CHOOSE x \in s : TRUE IN config_desc[x].bLength + h[s \ {x}]]
    BY <2>1
  <2> QED
    BY <2>2, Zenon
<1> HIDE DEF iter, w
<1> DEFINE G == {c \in 0..21 : \A s \in SUBSET (1..21) : Cardinality(s) = c => iter[s] = g[s]}
<1>8. \A s \in SUBSET (1..21) : IsFiniteSet(s) /\ Cardinality(s) \in 0..21
  <2>1. IsFiniteSet(1..21) /\ Cardinality(1..21) = 21
    <3>1. 1 \in Int /\ 21 \in Int
      OBVIOUS
    <3>2. IsFiniteSet(1..21) /\ Cardinality(1..21) = IF 1 > 21 THEN 0 ELSE 21 - 1 + 1
      BY <3>1, FS_Interval
    <3> QED
      BY <3>2
  <2> TAKE s \in SUBSET (1..21)
  <2>2. IsFiniteSet(s) /\ Cardinality(s) <= 21
    BY <2>1, FS_Subset
  <2> QED
    BY <2>2, FS_CardinalityType
<1>9. 0 \in G
  <2>1. \A s \in SUBSET (1..21) : Cardinality(s) = 0 => s = {}
    BY <1>8, FS_EmptySet
  <2>2. iter[{}] = 0 /\ g[{}] = 0
    BY <1>2, <1>4, <1>7 DEF AddsUp
  <2>3. \A s \in SUBSET (1..21) : Cardinality(s) = 0 => iter[s] = g[s]
    BY <2>1, <2>2, Zenon
  <2>4. 0 \in 0..21
    OBVIOUS
  <2> QED
    BY <2>3, <2>4
<1>10. ASSUME NEW c \in 0..(21 - 1), c \in G PROVE c + 1 \in G
  <2>1. ASSUME NEW s \in SUBSET (1..21), Cardinality(s) = c + 1 PROVE iter[s] = g[s]
    <3>1. s # {}
      BY <2>1, FS_EmptySet
    <3>2. PICK x \in s : x = CHOOSE y \in s : TRUE
      BY <1>5, <3>1
    <3>3. s \ {x} \in SUBSET (1..21) /\ Cardinality(s \ {x}) = c
      <4>1. Cardinality(s \ {x}) = Cardinality(s) - 1
        BY <1>8, FS_RemoveElement
      <4> QED
        BY <2>1, <4>1
    <3>4. iter[s \ {x}] = g[s \ {x}]
      BY <1>10, <3>3
    <3>5. iter[s] = config_desc[x].bLength + iter[s \ {x}]
      BY <1>2, <1>7, <3>1, <3>2
    <3>6. g[s] = config_desc[x].bLength + g[s \ {x}]
      BY <1>6, <3>1, <3>2
    <3> QED
      BY <3>4, <3>5, <3>6
  <2> QED
    BY <2>1
<1>11. 0..21 \subseteq G
  <2>1. 21 \in Nat
    OBVIOUS
  <2> HIDE DEF G
  <2> QED
    BY <1>9, <1>10, <2>1, UpTo
<1>12. iter[1..21] = g[1..21]
  <2>1. Cardinality(1..21) \in G /\ 1..21 \in SUBSET (1..21)
    BY <1>8, <1>11
  <2> QED
    BY <2>1
<1> DEFINE p == [k \in 0..21 |-> g[1..k]]
<1>13. p[0] = 0
  <2>1. 1..0 = {}
    OBVIOUS
  <2> QED
    BY <1>4, <2>1 DEF AddsUp
<1>14. \A k \in 1..21 : p[k] = PartLength[k] + p[k - 1]
  <2> TAKE k \in 1..21
  <2>1. 1..k \in SUBSET (1..21) /\ k \in 1..k /\ (1..k) \ {k} = 1..(k - 1) /\ k - 1 \in 0..21
    OBVIOUS
  <2>2. g[1..k] = w[k] + g[(1..k) \ {k}]
    BY <1>4, <2>1 DEF AddsUp
  <2>3. p[k] = g[1..k] /\ p[k - 1] = g[1..(k - 1)]
    BY <2>1
  <2>4. w[k] = PartLength[k]
    BY <1>3
  <2>5. g[(1..k) \ {k}] = g[1..(k - 1)]
    BY <2>1
  <2> HIDE DEF p
  <2> QED
    BY <2>2, <2>3, <2>4, <2>5
<1> HIDE DEF p
<1>15. /\ p[1] = 9 + p[0] /\ p[2] = 8 + p[1] /\ p[3] = 9 + p[2] /\ p[4] = 5 + p[3]
       /\ p[5] = 4 + p[4] /\ p[6] = 5 + p[5] /\ p[7] = 5 + p[6] /\ p[8] = 7 + p[7]
       /\ p[9] = 9 + p[8] /\ p[10] = 7 + p[9] /\ p[11] = 7 + p[10] /\ p[12] = 8 + p[11]
       /\ p[13] = 9 + p[12] /\ p[14] = 5 + p[13] /\ p[15] = 4 + p[14] /\ p[16] = 5 + p[15]
       /\ p[17] = 5 + p[16] /\ p[18] = 7 + p[17] /\ p[19] = 9 + p[18] /\ p[20] = 7 + p[19]
       /\ p[21] = 7 + p[20]
  BY <1>14 DEF PartLength
<1>16. p[21] = 141
  BY <1>13, <1>15
<1> QED
  BY <1>1, <1>2, <1>12, <1>16 DEF p, Header

\* So the tables agree.
LEMMA TablesDoAgree == TablesAgree
  BY Counted, LengthAddsUp, EntriesAgree, GroupsAgree DEF TablesAgree, Counts

\* A host that has read the configuration by a transfer that started clean has as many
\* bytes as it asked for, or as the header says there are if it asked for more; and what
\* s_config_desc says adds up, and is what dev_config and usb_handle_buff_status are
\* prepared for.
THEOREM ConfigurationReadHolds == Spec => []ConfigurationRead
<1>1. ASSUME RightResult, clean, result = "ok", req.req = "GET_DESCRIPTOR", req.kind = "config"
      PROVE  n = Least(req.wLength, Header.wTotalLength)
  <2>1. IsIn(req) /\ Asked(req) = Item("config", 0)
    BY <1>1 DEF IsIn, Asked
  <2>2. Asked(req).kind = "config"
    BY <2>1 DEF Item
  <2>3. n = Least(req.wLength, ItemLen["config"])
    BY <1>1, <2>1, <2>2 DEF RightResult
  <2> QED
    BY <2>3, TablesAssumption, LengthAddsUp
<1>2. RightResult => ConfigurationRead
  BY <1>1, TablesDoAgree DEF ConfigurationRead
<1> QED
  BY <1>2, RightResultHolds, PTL
=============================================================================
