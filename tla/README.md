# Verification of the Pico JTAG probe

TLA+ models, TLC runs and TLAPS proofs for the firmware of the probe (`src/src`, C on an RP2040, no
operating system) and for the DLL that stands in for J-Link's on the host (`src/dll/src`, C on
Windows).  Paths below are relative to `src/`.

## 1. The system

```
 program ── JLINKARM_* ──> DLL ── COM port ──> EP3 OUT ─> cdc_rx ring ─> protocol_feed ─> handler ─> jtag_bb ─> target
                            ^                                                              |
                            └──────────── COM port <── EP3 IN <── cdc_send <───────────────┘
 terminal ── COM port ──> EP4 OUT ─> ring ─> UART            UART ─> ring ─> uart_cdc_send ─> EP4 IN
```

Two contexts run in the firmware: the main loop (`src/main.c`), which never returns, and interrupts
(USB, UART), which run to completion and may come between any two instructions of the main loop.
Nothing masks them.  On the host, one thread of the caller is in the DLL.

| Component | State it keeps | Operations | Talks to |
|---|---|---|---|
| CDC receive ring (`src/cdc/cdc_rx.c`) | `s_rx_buf`, `s_rx_head`, `s_rx_tail` | push (USB interrupt), drain (main loop), init (bus reset) | USB device, parser |
| Protocol parser (`src/cdc/pico_protocol.c:569-680`) | state, header, counter, checksum, time of the last byte, payload | feed (main loop), reset (bus reset) | ring, handlers |
| Command handlers (`pico_protocol.c`) | none of their own | one per command; each answers once | JTAG, board, `cdc_send` |
| JTAG pins and commands (`src/jtag/`) | pins, clock, the target behind them | set TMS, write TMS, shift, reset, IDCODE, nTRST | handlers |
| Bulk IN pipes (`src/usb/usb_device.c`) | busy flags, toggles, `buffer_control`, `configured` | `cdc_send`, `uart_cdc_send` (main loop), completion, bus reset, control requests (interrupt) | host |
| Bulk OUT pipes | toggles, `buffer_control` | arming, completion, re-arming by control requests | rings |
| EP0 (`usb_device.c:140-520`, `:625-680`) | transfer in progress, pending address, pending line coding | SETUP, IN and OUT completions, bus reset | host |
| Descriptors (`src/usb/usb_descriptors.c`) | tables, the serial number | read by EP0 and by the set-up of the endpoints | EP0 |
| UART bridge and driver (`src/uart/`) | two rings of the receive ring's pattern | interrupt fills, main loop drains | EP4, UART |
| Main loop and watchdog (`src/main.c`) | watchdog timer | waiting for enumeration, loop | all |
| Transport (`dll/src/pico_transport.c`) | the COM port with its two buffers | open, close, `pico_transact` | firmware |
| TAP tracker, raw JTAG calls (`dll/src/jtag_tap_track.c`, `jtag_chain.c`, `jlink_api.c`) | `s_state`, device list, position | StoreRaw, StoreGetRaw, Reset, GetId, GetIdChain, ... | transport |
| Scan chain (`jlink_api.c:418-548`, `jtag_chain.c:185-300`) | device list, position | bypass padding, detection | the chain of the target |
| DLL session (`jlink_api.c:40-300`) | open flag, handles, detection cache, serial number, speed | OpenEx, Close, GetList, SelectByUSBSN, SetSpeed, GetSpeed | COM detection, transport |
| COM detection (`dll/src/com_detect.c`) | none | finds the command port by PING, the bridge port by its name | Windows, the probes |
| Board, CRC | constants, registers | - | - |

### What is hard

* **Interrupts in the middle of a statement.**  `s_rx_tail = (s_rx_tail + 1) & MASK` is a load and a
  store, and a bus reset between them zeroes the variable; the same holds of every static of the parser,
  of `s_tx_tail` and of `next_pid`.
* **Two owners of one endpoint.**  The main loop arms EP3/EP4 IN, while bus resets, SET_CONFIGURATION,
  CLEAR_FEATURE and SET_CONTROL_LINE_STATE rewrite its toggle, its busy flag and its buffer.
* **Giving up.**  `cdc_send` gives up after 50 ms with the packet still armed; `pico_transact` gives up
  on a command the firmware still executes.  What comes later belongs to a past transfer.
* **Two pictures of one thing.**  The DLL follows the target's TAP by what it sends; the TMS pin keeps its
  level between commands; commands fail half-way.
* **The order of a chain.**  Which end of a list is TDI, and what is shifted first.
* **An interrupt that reads its causes twice.**  `isr_usbctrl` takes the status word, serves SETUP, and then
  reads BUFF_STATUS again: the host goes on between the two, and gives transfers up at any time.
* **One loop for everything.**  Commands, answers nobody reads, reset pulses of seconds and a slow UART share
  the main loop with a watchdog of two seconds.
* **Things that go away.**  A probe is unplugged, the program killed, the list of probes remembered, all
  between any two steps of `JLINKARM_OpenEx`.

PROJECT.json lists each hazard at its line with the properties that cover it.

### What makes each part correct

| Part | It is correct if |
|---|---|
| Ring | it is a bounded first-in first-out queue that drops the newest bytes, whatever the interleaving, and serves every byte |
| Parser | it writes inside its payload buffer, executes a frame exactly as received, refuses an oversized one once, drops the rest, and recovers from a reset in the middle of a byte |
| Bulk IN | the host has every armed packet once and in order, a sender always returns, nothing of before a bus reset is delivered after it |
| Transport | a call returns the answer to its own command; an answer is not used twice |
| Raw calls | the TAP goes where the caller's word leads, and the tracker is where the TAP is |
| EP0 | a transfer that nothing cuts into ends with what was asked for; address and baud rate are those of the request that brought them; a transfer ends |
| Descriptors | the tables written as bytes and those written as C agree |
| UART bridge, bulk OUT | the host is never refused for good; every byte comes out once and in order, or was dropped at a full ring or flushed; none stays inside |
| Main loop | no command starves the watchdog by itself; a reset pulse lasts what was asked |
| DLL session | ports are held exactly as long as there are handles to them; a probe is not listed on old evidence; the clock read back is the one set |
| Scan chain | padding makes one device of many look like a chain of one; the chain is counted and measured right |

## 2. The modules

`ByteQueue` and `FrameRecogniser` are the abstract specifications; the others are written from the
code.  Fault definitions (a comment "Fault:" above them) are plausible wrong versions of the definition
after them; nothing in a specification uses them.

### SpscRing: the receive ring (cdc_rx.c)

`head`, `tail`, `buf` are `s_rx_head`, `s_rx_tail`, `s_rx_buf`; `access`, `reg`, `cur` are the main loop's
place in `cdc_rx_task`, the index in its register and the local `b`.  `Receive` is `cdc_rx_push` with
a whole packet, `BusReset` is `cdc_rx_init` from the interrupt; `ReadTail`, `Compare`, `ReadIndex`,
`Fetch`, `ReadForIncrement`, `Store`, `Fed` are the accesses of one turn of the loop.  The indices are
`volatile`, so that this is the order of the accesses.  Every cell carries the session (`epoch`) it was
filled in, and `raced` remembers that a bus reset struck between the first access to a byte and the
comparison that ends the loop: both are history and steer nothing.

### ProtocolParser: protocol_feed (pico_protocol.c)

One action per statement, with the load and the store of `s_crc = crc8_byte(s_crc, byte)`,
`s_len |= ...` and `s_recv++` apart.  `Reset` is `protocol_reset`, enabled in every state.  The parser's
statics are not `volatile`: where the code uses what it has just loaded or stored, the build may use the
register or read the variable again, and the model allows both (`\E l \in {r, len}`).  So it is with
`s_state`: `Check` loads it for the test of line 600, `Judge` is that test, and `Switch` goes by the value
loaded or by a fresh one.  Stores are taken to happen in program order.  The checksum is a table given as a
constant.  The 64-bit time stamp is written in one step; what a reset leaves of it lies between the two.

`race` is history.  A reset strikes when it comes after a state in the middle of a frame has been loaded
(`Strikes`).  If the time stamp of that byte is still to be stored, the next byte will not find the parser
stalled ("stuck"); if it has been, the reset has cleared it and the next byte puts the parser right
("struck").

### BulkIn: cdc_send and uart_cdc_send (usb_device.c)

The two functions have the same text; `uart` tells which one a behaviour is about.  A message is a number
of chunks, a packet a number that grows.  `Spin` ... `Arm` are the accesses of one turn of the loop and of
`usb_start_transfer`; `Poll` is the host taking a packet, with its own toggle; `Complete` the completion
interrupt; `usb_bus_reset`, `SetConfiguration`, `ClearHalt`, `LineStateCdc`, `CloseUart` what those events do
to this endpoint, the buffer status the same interrupt serves before them included.  The 50 ms timeout
may happen whenever the flag is set.  `base` is the last packet of before the bus reset, and `struck`
remembers that the reset came between the test of `configured` and the arming: history both.

### UsbDescriptors, UsbControl, Enumeration: enumeration and line codings (usb_descriptors.c, usb_device.c)

`UsbDescriptors` has the configuration descriptor as the sequence of its parts and the endpoint table of
`dev_config`; `TablesAgree` says what each has to take from the other.  In `UsbControl` the device is one
record, and the handlers are functions from it to it.  `isr_usbctrl` is two steps, `Enter` (the status
word is read, SETUP served, EP0's completions dropped) and `Serve` (BUFF_STATUS is read again, then
BUS_RESET served), and the host acts between them.  The host runs one transfer at a time: `HostSetup`,
`HostIn`, `HostOut`, `HostStalled`; it gives one up (`Abort`, while the interrupt is idle: its timeouts are
thousands of times longer) and resets the bus whenever it likes.  The controller takes EP0 OUT back at a
SETUP packet and latches it, and may or may not take EP0 IN back.  `clean`, `tidy` and `overtaken` are
history: whether this transfer, any since the bus reset, any at all since the last served reset has met the
remains of the one before.  No answer is an exact multiple of 64 bytes shorter than what was asked, so that
the code's lack of a zero-length packet is never met; `SET_LINE_CODING` is sent with a `wLength` of 7.
`Enumeration` puts the two together: GET_DESCRIPTOR answers from the tables.

### UartBridge: from EP4 OUT to the UART and back (uart_bridge.c, uart_driver.c, usb_device.c)

A behaviour is about one direction (`side`).  The rings have the text of `cdc_rx.c`, so that here they are
the queue `SpscRing` implements.  `uart_data_out_handler` is a completion; `ServeSetup` what
SET_CONFIGURATION, CLEAR_FEATURE and the closing of the port do to the endpoint, whatever it is doing;
`HostPacket` a packet with its toggle, whose acknowledgement may be lost.  `Look` ... `ToHost` are the main loop.
`s_tx_tail` is reset by `usb_bus_reset`, which may come between its two loads and its store: taking a byte is
`Look`, `Copy` and `Advance`, and `struck` remembers such a reset, after which the queue is whatever the cells
from a wrong tail to the head hold.  `s_rx_tail` of `uart_driver.c` is reset by nothing and is not `volatile`;
`kept` is how many cells `uart_driver_recv` has not given back yet.

### MainLoop: the loop and its watchdog (main.c, pico_protocol.c, jtag_bb.c, uart_driver.c)

Time is counted in ticks of 50 ms, and each wait is rounded up, so that the model waits longer than the
code.  `gap` is the time since the watchdog was fed, `unfed` the part of it spent among commands that wait
for nothing and answers that wait for the host: nothing is fed there.  `dispatch` has every command, by what it
waits for; `jtag_bb_write_read` is one piece between two feedings, `SliceDone` one slice of a reset pulse.
`Bite` restarts the firmware.

### DllSession: opening, listing, the clock (jlink_api.c, com_detect.c)

`OpenEx` and a search for the list take several steps (`Find`, `OpenCom`, `GetVersion`, `Diagnose`,
`OpenUart`; `Search`, `OpenForSerial`, `ReadSerial`), and between any two of them a probe may be plugged in or
out, time may pass, and the process may be killed and started again (`Restart`).  A handle is the probe
behind it; Windows lets one handle at a time open a port, and a handle to a probe that has gone stays
(`gone`).  `pico_transact` succeeds or fails, and then the probe may owe the command (`owing`), which it
executes, or drops, later.  A late RESP_OK of such a command may be taken for the answer to the PING of a search
(`Detects`).  `age` and `took` are `GetTickCount()` less the two times the code keeps, modulo its width.
History: `calm` (opened on a quiet probe, no call failed since), `set`, `alone`, `heard`, `round`.

### TapFsm, JtagProbe, JtagRaw: from a TMS word to the target's TAP

`TapFsm` holds the DLL's table `next_state` and, written separately from the standard's diagram, the
target.  `JtagProbe` gives each firmware command as its effect on the target's TAP, the TMS pin and nTRST.
`JtagRaw` composes them with the DLL: a call is a script of commands that may fail at any of them, with the
command executed or lost.  `JTAG_GetId` and `JTAG_GetIdChain` ignore what their commands return, so any
subset may be missing.  From the fifth clock at one level on the TAP does not move, so longer runs are
taken as five.  A command executed after the DLL gave up on it still precedes the next one and is taken
to be executed at once.  `g_tap_state` is written and never read, and left out.

A shift raises TMS for its last bit and never lowers it, so that its zeros are at the level the call
before has left: `Clocked` is the word the TAP sees.  `trust` is history, what the calls so far entitle a caller to:
"homed" after `JLINKARM_Reset`, "agree" after five ones (or a zero after "homed"), "slipped" when since then a
successful call has clocked ones for zeros, "none" after a failure or a call that moves the TAP behind the
tracker's back.

### ScanChain: what is shifted through the chain (jlink_api.c, jtag_chain.c)

An action is a whole scan on the registers of the devices; a register is the sequence of its bits
from TDI to TDO.  `PadBits`, `Padded`, `Extracted` are the padding of `JLINKARM_JTAG_StoreGetRaw`;
`Counted` and `total_ir_len` are the two loops of `jtag_scan_chain`.  Devices are numbered from TDO; the
caller may list them from TDO or from TDI, and give their lengths or not.  Left out: the fallback for padded words
of more than 4096 bytes, and a chain whose TDO is stuck.

### PicoTransport: pico_transact against dispatch (pico_transport.c, pico_protocol.c)

The DLL reads header, payload and checksum (`ReadHeader`, `ReadPayload`, `ReadCrc`, each may time out);
the firmware accepts a frame, executes it and answers (`Accept`, `Answer`), may lose it (`Lose`: the ring
was full, or a broken frame swallowed it), and may stop sending after a packet (`Sent`).  The bytes of a
response carry the call they answer, as history, so that `ReadCrc` can say when a checksum agrees; checksum
collisions and payload bytes equal to the start byte are left out.

### MCFirmware, MCDll and the other MC modules

An MC module gives a specification its constants.  `MCFirmware` puts three parts that share no variable into
one instance, `MainLoop`, `SpscRing` and `BulkIn`, and `MCDll` two, `PicoTransport` and `ScanChain`: `part` says which
one a behaviour is about, and the others stay as they start.  This saves runs and composes nothing: a property of
one part is checked on every behaviour of that part.

## 3. The runs

| Run | Instance | Distinct states | It shows |
|---|---|---|---|
| `firmware`, ring | 4 cells, packets of 1-2 bytes, 2 byte values, 1 bus reset | 30 586 | the ring is the queue of `ByteQueue` (`QueueStep`) while no reset strikes a byte half-served; after one that does, stale bytes are gone when the ring is drained (`FreshUnlessRaced`, with `RingInv` as the invariant the proofs use); a queued byte is served (`EveryByteServed`); `Push`'s closed form is what the byte-by-byte loop computes (`PushIsTheLoop`) |
| `firmware`, pipe | messages of 1-2 packets, 4 packets, 1 bus reset, either endpoint | 118 353 | `Delivered` once and in order between set-up and the first disturbance; `BusyIsLive`: the flag is never set with nothing to clear it; `Phantoms`: one packet at most outlives a bus reset, and only one that struck the main loop in the four statements before the arming; `SendReturns` |
| `firmware`, loop | the true durations; three clocks, three scan lengths, three pulses | 37 259 | `BitesOnlyUnfed`: the watchdog bites only if 17 of its 40 ticks went by with nothing to feed it; `PulseAsAsked` |
| `parser` | bytes of 3 values, payloads up to 2, announced lengths up to 8, 3 ticks, resets anywhere | 1 236 559 | `PayloadInBounds` whatever resets do; `RoomForByte`, the comment's `s_recv < s_len <= MAX_PAYLOAD`, while none has struck; `RaceHeals`: after one that has struck a byte already stamped, the next byte restarts the parser once the device has been up longer than the timeout; `Recognises`: until one strikes, and again once it is healed, each statement is a step of `FrameRecogniser`; `ParserInv` is the invariant the proofs use |
| `ep0` | the real tables, 12 requests, EP0 packets of 64, three baud rates | 385 367 | `RightResult`: what starts clean ends right; `AddressHeard`; `BaudAsOrdered`: the baud rate is never that of a transfer given up, with `BaudInv` as the invariant the proofs use; `ConfigurationRead`: the configuration arrives, its header alone or the whole of it, and the tables agree; `TransferEnds` |
| `uart` | rings of 3, packets and chunks of 2, 5 bytes, 1 bus reset, either direction | 329 371 | `Accounted`: while calm, out once and in order, or dropped or flushed; `OutInv`: the endpoint is armed or about to be, and while calm with the host's toggle; `Drained` |
| `session` | two probes (symmetric), a cache valid for 1 tick, tick counter of 3, one owed command | 1 471 544 | `HandlesInv`, `ListFresh`, `ClockAsSet` |
| `raw` | all words up to 3 bits, the synchronising words, one over-long word, `SHIFT_DATA` limited to 32 bits, 1 or 2 devices | 13 560 | `RawWalk`: shift, exit shift and bit-banging take the TAP where the bits clocked lead, from either level of TMS; `Agree`: five ones make tracker and TAP agree, and successful calls keep it so until one shifts zeros with TMS high; `Home`: Reset, GetId, GetIdChain end in Run-Test/Idle |
| `dll`, chain | three devices with IR of 1, 2, 3 bits, DR of 2, IDCODE of 3, lists from either end | 20 480 | `TransparentPadding` for a caller who counts from TDO; `ChainMeasured` |
| `dll`, transport | 4 calls, 2 openings, an answer of 7 bytes in packets of 5 and 2 | 63 531 | `OwnAnswerWhileClean`, `OnceInOrder`, `AlignedUnlessCut`, `CallReturns` |
| `bulk_in_close` | 2 packets | violation | `CleanClose`: closing the serial port resets the device's toggle alone |
| `transport_late` | 3 calls | violation | `OwnAnswer`: after a call that gave up on a slow command every call takes the answer before its own |
| `chain_from_tdi` | as `dll`, chain | violation | `PaddingFromTDI`: to a caller who counts from TDI, the order of the comment at `jlink_api.c:424-433`, the padding is on the wrong side |
| `raw_slip` | as `raw` | violation | `TrackerFollows`: five ones, then a zero by a shift that finds TMS high; both calls succeed, the TAP stays in Test-Logic-Reset and the tracker says Run-Test/Idle |
| `uart_slow` | as `uart`, no bus reset | violation | `SlowUartDropsNothing`: bytes the host has been acknowledged are dropped at the full ring, which `uart_bridge.c:9` says is over |

The five violations are the findings of PROJECT.json, each with the line of the repository that says
otherwise.

### What the passing properties leave out, on purpose

Each of these is a state the code really reaches; a property is stated so that it says exactly when.

* A bus reset between the load and the store of `s_rx_tail` brings bytes of the old session back, until the ring is
  drained (`raced` in `SpscRing`, `cdc_rx.c:65`).
* A bus reset between `protocol_feed`'s load of `s_state` and its store of the time stamp (`pico_protocol.c:600-604`)
  may leave the case of the old state running on counters that are zero, with a fresh stamp: the next byte does
  not put the parser right (`race = "stuck"` in `ProtocolParser`).  It is right again when what it takes for a frame
  is over, or after a silence of `PARSER_TIMEOUT_US`.
* A bus reset between the loads and the store of `s_tx_tail` brings old bytes out to the UART, or loses new ones
  (`struck`, `calm` in `UartBridge`, `uart_bridge.c:72-75`): `Accounted` makes no claim after it.
* A reset or a request between the load and the store of `next_pid` brings the old toggle back (`calm` in `BulkIn`,
  `usb_device.c:126`), and a `cdc_send` that gives up lets the next one write over a packet still armed
  (`usb_device.c:568`): `Delivered` ends at either.
* A bus reset between the test of `configured` and the arming leaves a packet for the next session (`struck` in
  `BulkIn`, `usb_device.c:578`).
* A SETUP packet that arrives between the two halves of `isr_usbctrl` has the completions of the transfer
  before it served after it (`overtaken` in `UsbControl`, `usb_device.c:643`): the filter of line 638 has run by
  then.  A baud rate may then be taken from a transfer that was given up.
* A `SET_ADDRESS` that was given up leaves its address pending, and the next completion on EP0 IN applies it (`tidy` in
  `UsbControl`, `usb_device.c:470`).
* A shift of zeros with TMS high clocks ones (`trust = "slipped"` in `JtagRaw`, `jtag_bb.c:117-126`): the run
  `raw_slip`.  `Agree` speaks again after five ones.
* After a call that failed, and after GetId, GetIdChain, nTRST or another program's use of the probe, the tracker may
  be anywhere against the TAP (`trust = "none"`): `Agree` speaks again after five ones.  `Home` says where GetId and
  GetIdChain end if none of their commands is lost; they do not look whether one is.
* After `JLINKARM_Reset` the tracker says Test-Logic-Reset and the TAP is in Run-Test/Idle (`trust` in `JtagRaw`,
  `jlink_api.c:318`): `Agree` says so, and that a zero puts it right.
* A caller who lists and addresses devices from TDI has the padding on the wrong side of the target: the run
  `chain_from_tdi`.
* Bytes are dropped at the bridge's full ring, because the endpoint is armed again whether or not they fitted (`gone`
  in `UartBridge`): the run `uart_slow`.
* The length of an OUT packet is read from `buffer_control` when its completion is served: a request that has
  armed the endpoint meanwhile makes it the length of a full packet (`Received`, `calm` in `UartBridge`).
* The watchdog bites when quick commands, or answers nobody reads, keep `cdc_rx_task` busy for most of two
  seconds (`unfed` in `MainLoop`); and below about 160 baud, which `SET_LINE_CODING` accepts, 32 bytes for the UART
  outlast it (`UartPiece`, `uart_driver.c:83`).
* `EMU_GetList` says one probe while the session is open, connected or not; its cache outlives 3 s only if
  `GetTickCount` comes round; a probe whose port another program holds is not found.  The serial number is a
  hash of the firmware's version, so that two probes with the same firmware have the same one.
* `PICO_UART_SetBaud` (`jlink_api.c:719`) never takes effect: `dispatch` has no such command and refuses it, where
  `pico_transport.h:35` promises RESP_OK (`CallFails` in `DllSession`).
* The clock read back is not the one set when kHz times 1000 does not fit 32 bits, or after `SET_CLOCK` was refused
  (`fits`, `calm` in `DllSession`, `jlink_api.c:286`).
* With two probes connected the command port of one and the bridge port of the other may be opened
  (`alone` in `DllSession`).

### Why the bounds are enough

A ring of four cells holds three bytes, so packets of two fill it,
overflow it and wrap; one reset gives two sessions, and the code never compares sessions.  Two payload
bytes give the empty, the partial and the full payload, and lengths up to eight the refused one; three
byte values separate the start byte, the lengths and a checksum that is none of them.  Two packets per
message with four in all let a message be given up before, between and after its packets, on both sides of
a reset.  Words of three bits contain every class of `classify_tms`, and the synchronising words reach
every other TAP state; the over-long word is the refused one.  Three devices of different lengths tell the
first, the middle and the last position apart.  Four calls allow a failure, the two calls that suffer from
it and one more after reopening.

EP0 needs no bound: its state is finite with the requests, which are one of each kind the device treats
differently, with the configuration descriptor of 141 bytes as the answer of three packets.  Five bytes in packets of
up to two fill a ring of three, overflow it and leave two for the session after the reset.  The durations of
the main loop are the code's; the lengths are of one piece, of just more than one and the longest, the
pulses the default of 10 ms, one that ends inside a slice and one that is cut to 5 s.  A list that is valid for one tick of a counter of
three goes stale, and comes round, in a few steps; of two frequencies one fits and the other wraps round to
a clock that looks right; one command owed is one more than the code expects.

### Fairness

The ring and the pipes of `firmware` assume weak fairness of the main loop only, which runs on a processor of
its own and never blocks: interrupts are finite, and no step of it waits except the spin on the busy flag,
whose timeout is a step of its own.  The host's polling is not fair: `SendReturns` holds though the host
never reads.  `uart` assumes the same of the main loop and that the interrupt is served (a completion, a SETUP
packet); the host and the UART may stop sending.  `ep0` assumes that the interrupt runs when it has something to
serve, and ends, and that the host goes on with a transfer it has begun (tokens are repeated by the
controller, not by a program); giving up and bus resets are not fair.  The transport of `dll` assumes that the DLL's thread
and the firmware's main loop run; the port
delivers nothing by assumption, and `CallReturns` rests on `ReadTotalTimeoutConstant`.  Nothing is assumed of
callers: a program may stop calling, which is why that run does not check deadlock.

## 4. The proofs

`FirmwareProofs` proves about `SpscRing`, for every size of ring (at least 2), every packet length, every
set of bytes and any number of resets (assumptions `SizeAssumption`, `PacketAssumption`,
`EpochAssumption`):

* `RingTypeCorrect`: `RingSpec => []RingTypeOK`.
* `RingInvariant`: `RingSpec => []RingInv`.  `FreshUnlessRaced` is not inductive: that `Store` removes one byte
  needs the register to hold `tail` still, and that the queue is not empty.  `RingInv` adds `LoopHolds` (what
  the main loop knows between its accesses while nothing has raced with it) and `RepairedAtExit` (the
  comparison that ends the loop after a race finds the queue empty or fresh), and these with `RingTypeOK`
  are inductive.  There is one step per action.
* `FreshUnlessRacedHolds`: the consequence.
* `RingImplementsQueue`: `RingSpec => QueueStep`, the refinement of `ByteQueue` step by step: a push is `Put`
  (`PushIsPut`), the store of the index is `Take` (`StoreIsTake`), a bus reset is `Flush`, the other steps
  stutter.  The arithmetic of the ring is in `IndexArithmetic`, `PushArithmetic` and `TakeArithmetic`.
* `PushIsTheLoopHolds`: `RingSpec => PushIsTheLoop`: what the model takes as one step is what the loop of
  `cdc_rx_push` does byte by byte.  `After` is the ring after the first bytes of a packet, `OneMoreByte` takes it
  one byte further, and `LoopIs` that the fold over the packet is this recursion.

It also proves about `MainLoop`, for all clocks, lengths, runs and pulses (`LoopAssumption`, which has the
one bound on the UART's rate):

* `LoopInvariant`: `Spec => []LoopInv`, types with `GapInv` (how far `gap` may be ahead of `unfed` in each
  phase), `PulseInv` (what has passed of a pulse and what is to come are what was asked) and `WorkInv`.
* `WatchdogFed`: `Spec => []BitesOnlyUnfed`, and `PulseExact`: `Spec => PulseAsAsked`: a bite in the middle of
  a pulse would cut it short, and `GapInv` says there is none.

And about `BulkIn`, for every number of packets, chunks and bus resets (`BoundsAssumption`):

* `PipeTypeCorrect`: `PipeSpec => []PipeTypeOK`, with `Room`: a message stays within the bound on packets.
* `BusyIsLiveHolds`: `PipeSpec => []BusyIsLive`, inductive with the types.
* `DeliveredHolds`: `PipeSpec => []Delivered`.  It needs `Toggles`: while `calm`, the packet in the buffer has the
  toggle the host expects, the next one the other, and the main loop is not past the test of the busy flag while
  a packet or a completion is there.
* `PhantomsHold`: `PipeSpec => []Phantoms`.  It needs `PhantomInv`: a packet of before the reset is in the buffer, or
  copied and about to be armed, only if the reset struck and the host has nothing yet.

`ProtocolParserProofs` proves about `ProtocolParser`, for every radix, start byte, payload size, checksum table
and timeout (`RadixAssumption`, `StartAssumption`, `PayloadAssumption`, `CrcAssumption`, `TimeAssumption`):

* `ParserInvariant`: `Spec => []ParserInv`, with the consequences `ParserTypeCorrect`, `WritesInBounds`
  (`PayloadInBounds`) and `RoomWhenReceiving` (`RoomForByte`).  `PayloadInBounds` is far from inductive: that
  the index fits when it is used follows from what the byte before left behind, which follows from the length
  stored two bytes earlier, with a reset possible at each step.  `Promise` says what `state` guarantees between
  two bytes, `LengthCase` and `PayloadCase` what their cases guarantee from one statement to the next, `Places`
  that a reset is the only thing that can change `state` under a case.
* `ParserImplementsRecogniser`: `Spec => Recognises`, the refinement of `FrameRecogniser`.  `FrameInv` adds,
  while no race is pending, that the byte in hand is where it belongs, that the length has its first byte only
  until the second comes, and that the counter is at the length when the checksum is due.  The start byte is
  `Open` (`WaitStartOpens`), the store of the checksum `More` (`CrcStoreTakes`), the refusal `Refuse`, the last
  byte `Execute` or `Drop` (`RecvCrcDecides`, `FrameIsReceived`), resets and stalls `Drop`; the other
  statements show nothing (`QuietStep`).

* `RaceHealsHolds`: `Spec => RaceHeals`, from `TypeOK` and `StampCleared`: nothing sets the time stamp between
  a reset that struck after it was stored and the next byte.  A reset that strikes before is another value of `race`,
  and nothing is claimed of the next byte.

`UsbControlProofs` proves about `UsbControl`, for every set of requests and every length of the items
(`ControlAssumption`) that fits into `ep0_pending_buf` (`RoomAssumption`: the longest is the configuration
descriptor, 141 bytes of 192):

* `ControlTypeCorrect`: `Spec => []TypeOK`; what is armed on EP0 IN lies within `ep0_pending_buf`.
* `BaudInvariant`: `Spec => []BaudInv`.  That a completed data stage belongs to the line coding that waits for it
  needs that a SETUP packet not yet served finds nothing left of the transfer before (`NothingLeft`), that the
  buffer then holds what the host wrote for this request (`Waiting`), and that a bus reset is served in the
  interrupt that saw it (`ResetServed`).
* `BaudCorrect`: `Spec => BaudAsOrdered`.
* `TransferInvariant`: `Spec => []ControlInv`.  `RightResult` speaks of the end of a transfer; `InTransfer` says
  how it gets there.  A reading is `AtSetup`, then by turns `Sending` and `Taken`, then `Answered`; a line coding
  is `Awaited`, `Written`, `Acked`; any other request `Acked`.  Each phase ties the host's toggle and count to the
  device's toggle, item and offset and to the completion that is latched, so that a packet or a completion can
  only be the one the phase is about.  `Resulted` keeps what has ended right until the next SETUP.
  `AddressInv`: the device has the host's address, or the completion is latched with which it takes it;
  `AfterReset`, that the host keeps silent until a bus reset is served, is what lets the reset take the address away.
* `RightResultHolds`: `Spec => []RightResult`, and `AddressHeardHolds`: `Spec => []AddressHeard`.
* `ConfigurationReadHolds`: `Spec => []ConfigurationRead`, for every set of requests over the tables as they are
  (`TablesAssumption`: the item "config" is `s_config_desc`).  It is `RightResult` with `TablesDoAgree`:
  `LengthAddsUp` (the 21 parts have 141 bytes, in whatever order a fold takes them: `SumsOfSets`), `Counted`,
  `EntriesAgree` and `GroupsAgree`.

`DllProofs` proves about `DllSession`, for any probes, frequencies, time to live and width of the tick
counter (`SessionAssumption`):

* `HandlesHold`: `Spec => []HandlesInv`.  `SessionInv` adds `PortInv` (a probe is in hand exactly while the call
  that found it runs), `AloneInv` (the one probe about stays the one) and `Finite`, that the
  probes connected can be counted.
* `ListFreshHolds`: `Spec => ListFresh`.  `FreshInv`: the cache is no younger than the answer it was filled
  with, and neither is the time at which the present search began.
* `ClockAsSetHolds`: `Spec => ClockAsSet`.  `ClockInv`: in a calm session whose probe is still there nothing is
  owed and the probe's clock is the one last asked for, if that fits (`ClockThere`).

It also proves about `ScanChain`, for chains of any number of devices, any IR lengths and IDCODEs and any length of the
data registers (`ChainAssumption`, and `IdCodeAssumption`: the bit of an IDCODE next to TDO is a one, and an IDCODE is
not all ones, as IEEE 1149.1 has it):

* `ChainTypeCorrect`: `ChainSpec => []ChainTypeOK`: a scan leaves every register with its own number of bits.
* `PaddingIsTransparent`: `ChainSpec => []TransparentPadding`, for a caller who counts from TDO; the order of the comment
  in the code is the run `chain_from_tdi`.  `Offsets` says where in the chain the register of each
  device begins, `InPlace` and `Framed` that a word with a padding of those lengths on either side meets the
  addressed device's register and no other, and `Paddings` that `PadBits` sums to those lengths: `SumOf` is a
  fold, shown to be the partial sums of the list (`SumIs`).
* `ChainIsMeasured`: `ChainSpec => []ChainMeasured`.  Reading the captured IDCODEs bit by bit runs through the chain
  from TDO (`IdCodesAre`, `AllIdentified`); the preload of ones comes back ahead of the one zero, whose place is the
  sum of the IR lengths.

`UartBridgeProofs` proves about `UartBridge`, for every size of ring, packet and chunk, and every number of bytes
and USB sessions (`BridgeAssumption`):

* `BridgeInvariant`: `Spec => []BridgeInv`.  `OutArmed` and `InStep` are inductive with the types and `SideInv`;
  `Accounted` is not.  That a completion puts into the ring what the host sent needs `PacketInv`: while
  `calm`, the packet in the buffer holds the newest bytes, and `ep.len` is its length.  `Flow` says
  `Accounted` in the form in which it is kept, with what is missing bounded by the bytes sent, and `KeptInv` that
  cells are kept only within `uart_driver_recv`.
* Every action is one of four moves on the flow: the next bytes join it (`FlowGrows`: `HostPacket`, the UART's
  interrupt), the newest are dropped (`FlowDrops`: a full ring, and the queue at a bus reset), bytes are
  handed on within it (`FlowCarried`: the main loop), or nothing.  That a packet joins it once is `TakenOnce`: the
  endpoint has the toggle of the next packet, so that what it does not take is a repetition.
* `OutInvHolds`: `Spec => []OutInv`, and `AccountedHolds`: `Spec => []Accounted`.

`PicoTransportProofs` proves about `PicoTransport`, for every length of the data and of a cut, and every number of
calls and openings (`TransportAssumption`):

* `TransportInvariant`: `Spec => []TransportInv`.  `OnceInOrder` is about one step; what it needs is `Pipeline`: from
  the header in hand over the bytes received and the response being made to the frames sent, everything is
  in the order of the calls and newer than the last answer used.  `OneCall` says that on a port opened clean it
  all belongs to the call in hand; `FramesInv` that without a cut what was received is whole responses from
  the byte that is due, and that nothing is read from a port that is closed.
* `TransportTypeCorrect`, `AlignedHolds` (`AlignedUnlessCut`), and of the steps `AnswersOnceInOrder`
  (`Spec => OnceInOrder`) and `OwnAnswerHolds` (`Spec => OwnAnswerWhileClean`).

`JtagRawProofs` proves about `JtagProbe` and `JtagRaw`, for every set of words of any length, every number of devices,
every IR length and every limit of a shift (`WordsAssumption`, `MaxShiftAssumption`):

* The walks along words and scripts are functions by recursion on their length (`Computed`).
* `SameTable`: the DLL's `next_state` is the diagram of the standard, edge by edge, though the two are written
  in different ways.  So the tracker's walk and the target's are both along the `Path` of the word (`TargetWalk`,
  `TrackerWalk`), and after five ones in a row the two agree wherever they started (`Synchronised`).
* `Arrives`: a raw call that succeeds, of any of the classes of `classify_tms` and from either level of TMS, takes the
  TAP to the end of the path of the bits it clocks, `Clocked`, and leaves TMS at the last of them.  `PulsesLevel` and
  `LevelStays` justify taking more than five clocks at one level for five.  `PaddedWordIs`: a padded word is a word of
  the same class, so that `Arrives` covers it.
* `RawInvariant`: `Spec => []RawInv`.  `Agree` alone is not inductive: a word agrees with its path only while
  nTRST is high, so `RawInv` adds that it is high as long as the caller is entitled to agreement.  That the readers of
  words, which the tracker does not hear of, leave a shifting TAP alone needs TMS low there (`IntoShift`).  There is one
  step per call.  `RawTypeCorrect` (`TypeOK`) and `AgreeHolds` (`Agree`) are the consequences.
* `RawWalkHolds`: `Spec => []RawWalk`, and `HomeHolds`: `Spec => []Home`: the scripts of `JLINKARM_Reset`,
  `jtag_read_idcode` and `jtag_scan_chain`, whose length depends on the chain, end in Run-Test/Idle from every state.

`Induction` has the lemmas these proofs share.  Words, chains and packets have no bound, and the induction theorems over
operators cannot be used, but `WFMin`, that a nonempty set of numbers has a least element, can: `SetInduction` and
`UpTo` state induction for sets, `Recursion` that a function by primitive recursion up to a bound exists,
`FromStart` that there is one only, `Computed` that a recursive function of a model is such a function.
`FoldExists` does the same for folds that take the largest index first, `SumsOfSets` for sums in any order, and
`Flattened` says where the elements of a sequence of sequences are when it is flattened.

Only model-checked, because no backend proves liveness: `EveryByteServed`, `SendReturns`, `TransferEnds`, `Drained` and
`CallReturns`.  Every invariant and every action property of the runs is proved.

## 5. Not modelled

| Part | Why |
|---|---|
| Board, LEDs, ADC | register accesses without state the rest depends on |
| The search of the registry and the bytes of PING (`dll/src/com_detect.c`) | what matters of it, which ports are tried and what a try leaves behind, is in `DllSession` |
| The PING that the search by description sends into bridge ports | nothing answers it, and what the UART's target makes of it is not the repository's |
| CRC-8 | a table in the parser's model, so that the proofs hold for every table; that the firmware's table is the DLL's polynomial is arithmetic on constants |
| Padded words above 4096 bytes, a chain whose TDO is stuck | fallbacks of the scan chain that leave its state alone |
| Setters of one variable, getters of constants, logging in the DLL | nothing to go wrong in an order |
| JTAG commands composed with late answers (`jtag_chain.c:103`) | needs `JtagRaw` and `PicoTransport` in one model; `OwnAnswer` shows when an answer of another call comes |
| `dll/build64`, the case model, the build files | generated, or no program |

## 6. What could come next

1. `JtagRaw` with `PicoTransport`: what late answers do to the buffers of `jtag_shift_data`.
2. What the bridge's ring holds after a bus reset in the middle of a byte: `SpscRing` shows it for the command ring,
   `UartBridge` has any queue there.
