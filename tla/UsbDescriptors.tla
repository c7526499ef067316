---------------------------- MODULE UsbDescriptors ----------------------------
(***************************************************************************)
(* The tables of usb_descriptors.c: what the device says of itself when it *)
(* is enumerated, and the endpoints usb_device.c works with.  The two are  *)
(* written by hand, one as bytes and the other as C initialisers, and have *)
(* to agree.  A descriptor is a record of the fields the agreement is      *)
(* about; an endpoint address is a number and a direction.                 *)
(***************************************************************************)
EXTENDS Integers, SequencesExt

In(n) == [ep |-> n, dir |-> "IN"]
Out(n) == [ep |-> n, dir |-> "OUT"]

----------------------------------------------------------------------------
(* s_config_desc *)

\* Fault: the total of one function only.
HeaderOfOne == [bLength |-> 9, type |-> "CONFIGURATION", wTotalLength |-> 75,
                bNumInterfaces |-> 4]

Header == [bLength |-> 9, type |-> "CONFIGURATION", wTotalLength |-> 141,
           bNumInterfaces |-> 4]

Interface(n, eps) == [bLength |-> 9, type |-> "INTERFACE", number |-> n, bNumEndpoints |-> eps]

Endpoint(a, attr, size) == [bLength |-> 7, type |-> "ENDPOINT", address |-> a,
                            attributes |-> attr, wMaxPacketSize |-> size]

\* A CDC function: the association, the control interface with its functional
\* descriptors and notification endpoint, the data interface with two.
CdcFunction(first, notify, data) ==
    << [bLength |-> 8, type |-> "ASSOCIATION", bFirstInterface |-> first, bInterfaceCount |-> 2],
       Interface(first, 1),
       [bLength |-> 5, type |-> "CDC_HEADER"],
       [bLength |-> 4, type |-> "CDC_ACM"],
       [bLength |-> 5, type |-> "CDC_UNION", control |-> first, subordinate |-> first + 1],
       [bLength |-> 5, type |-> "CDC_CALL", data |-> first + 1],
       Endpoint(In(notify), "INTERRUPT", 16),
       Interface(first + 1, 2),
       Endpoint(Out(data), "BULK", 64),
       Endpoint(In(data), "BULK", 64) >>

config_desc == <<Header>> \o CdcFunction(0, 1, 3) \o CdcFunction(2, 2, 4)

config_desc_len == FoldSeq(LAMBDA d, n : d.bLength + n, 0, config_desc)

----------------------------------------------------------------------------
(* The other descriptors, by their length *)

device_descriptor_len == 18
lang_descriptor_len == 4

\* usb_prepare_string_descriptor: two bytes of header and two per character,
\* thirty-one characters at most.
StringLen(slen) == 2 + 2 * (IF slen > 31 THEN 31 ELSE slen)

\* usb_descriptors_init: the serial number, nine decimal digits.
serial_string(sn) == [i \in 1..9 |-> (sn \div 10^(9 - i)) % 10]

\* "Raspberry Pi", "Pico" and the serial number.
descriptor_strings == [i \in 1..3 |-> IF i = 1 THEN 12 ELSE IF i = 2 THEN 4 ELSE Len(serial_string(0))]

----------------------------------------------------------------------------
(* dev_config.endpoints: descriptor, registers and buffer of each endpoint.   *)
(* ctrl is the index in ep_buf_ctrl and its half, block the 64 bytes of       *)
(* epx_data, -1 the buffer EP0 has in both directions.                        *)

EpConfig(a, attr, size, ctrl, block) ==
    [descriptor |-> Endpoint(a, attr, size), buffer_control |-> ctrl, data_buffer |-> block]

endpoints ==
    << EpConfig(Out(0), "CONTROL", 64, Out(0), -1),
       EpConfig(In(0), "CONTROL", 64, In(0), -1),
       EpConfig(In(1), "INTERRUPT", 16, In(1), 0),
       EpConfig(Out(3), "BULK", 64, Out(3), 1),
       EpConfig(In(3), "BULK", 64, In(3), 2),
       EpConfig(In(2), "INTERRUPT", 16, In(2), 3),
       EpConfig(Out(4), "BULK", 64, Out(4), 4),
       EpConfig(In(4), "BULK", 64, In(4), 5) >>

\* usb_get_endpoint_configuration: the entries of an address; the code takes
\* the first, and NULL if there is none.
usb_get_endpoint_configuration(a) ==
    { i \in DOMAIN endpoints : endpoints[i].descriptor.address = a }

\* The bits usb_handle_buff_status scans, and the endpoint of each.
USB_BUF_STATUS_BITS == 10
EndpointOfBit(b) == IF b % 2 = 0 THEN In(b \div 2) ELSE Out(b \div 2)

----------------------------------------------------------------------------
(* Agreement *)

Of(type) == { i \in DOMAIN config_desc : config_desc[i].type = type }

\* The endpoint descriptors between an interface's and the next interface's.
EndpointsOf(i) == { j \in Of("ENDPOINT") : j > i /\ \A k \in Of("INTERFACE") : k <= i \/ k > j }

\* The lengths and counts add up.
Counts ==
    /\ Header.wTotalLength = config_desc_len
    /\ { config_desc[i].number : i \in Of("INTERFACE") } = 0..Header.bNumInterfaces - 1
    /\ \A i \in Of("INTERFACE") : Cardinality(EndpointsOf(i)) = config_desc[i].bNumEndpoints

\* Each endpoint the host is told of has one entry, of the same type and size,
\* with registers of its own address and a bit that is scanned; and no two
\* share a buffer.
Registered ==
    /\ \A i \in Of("ENDPOINT") :
         \E e \in DOMAIN endpoints :
           /\ usb_get_endpoint_configuration(config_desc[i].address) = {e}
           /\ endpoints[e].descriptor = config_desc[i]
           /\ endpoints[e].buffer_control = config_desc[i].address
           /\ \E b \in 0..USB_BUF_STATUS_BITS - 1 : EndpointOfBit(b) = config_desc[i].address
    /\ \A e, f \in DOMAIN endpoints :
         endpoints[e].data_buffer = endpoints[f].data_buffer
           => e = f \/ {endpoints[e].descriptor.address.ep, endpoints[f].descriptor.address.ep} = {0}

\* The union and call descriptors of a function name the interfaces its
\* association groups.
Associated ==
    \A a \in Of("ASSOCIATION") :
      LET first == config_desc[a].bFirstInterface
          group == first..first + config_desc[a].bInterfaceCount - 1
      IN  /\ \E i \in Of("CDC_UNION") : config_desc[i].control = first
                                        /\ config_desc[i].subordinate \in group
          /\ \E i \in Of("CDC_CALL") : config_desc[i].data \in group \ {first}

\* What the device says of itself in s_config_desc adds up, and is what dev_config
\* and usb_handle_buff_status are prepared for.
TablesAgree == Counts /\ Registered /\ Associated
=============================================================================
