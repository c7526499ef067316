------------------------------- MODULE SpscRing -------------------------------
(***************************************************************************)
(* The byte ring between the USB interrupt and the main loop, as cdc_rx.c  *)
(* has it (uart_bridge.c and uart_driver.c repeat the pattern).  The       *)
(* interrupt handler runs to completion: one action each.  The main loop   *)
(* can be interrupted between any two accesses to the shared indices, so   *)
(* `while (tail != head) { b = buf[tail]; tail = tail + 1; feed(b); }'     *)
(* is one action per access.                                               *)
(*                                                                         *)
(* epoch, and the epoch kept in every cell, are history: the number of the *)
(* USB session in which the byte was received.  raced is history too: a    *)
(* bus reset struck the main loop while it was dealing with a byte.        *)
(***************************************************************************)
EXTENDS Naturals, SequencesExt

CONSTANTS Size,        \* cells of the ring, CDC_RX_BUF_SIZE
          Byte,        \* the byte values told apart
          MaxPacket,   \* bytes of an OUT packet (64 in the device)
          MaxEpoch     \* bound: sessions considered

ASSUME SizeAssumption == Size \in Nat /\ Size >= 2
ASSUME PacketAssumption == MaxPacket \in Nat \ {0}
ASSUME ByteAssumption == Byte # {}
ASSUME EpochAssumption == MaxEpoch \in Nat \ {0}

VARIABLES head,        \* s_rx_head, written by the interrupt
          tail,        \* s_rx_tail, written by the main loop and by the reset
          buf,         \* s_rx_buf
          access,      \* the next access of the main loop
          reg,         \* the index the main loop holds in a register
          cur,         \* local b
          out,         \* argument of the last protocol_feed call
          epoch, raced

ringVars == <<head, tail, buf, access, reg, cur, out, epoch, raced>>

Index == 0..(Size - 1)
Cell == [epoch : 0..MaxEpoch, byte : Byte]
Access == {"idle", "tail", "cmp", "index", "fetch", "inc", "store", "feed"}

RingTypeOK == /\ head \in Index
              /\ tail \in Index
              /\ buf \in [Index -> Cell]
              /\ access \in Access
              /\ reg \in Index
              /\ cur \in Cell
              /\ out \in Cell
              /\ epoch \in 1..MaxEpoch
              /\ raced \in BOOLEAN

\* i & MASK for the sums the code forms (all below 2 * Size).
Wrap(i) == IF i < Size THEN i ELSE i - Size
\* How far k lies after i, going round.
Dist(i, k) == IF i <= k THEN k - i ELSE k + Size - i

Occupancy == Dist(tail, head)

\* Fault: head may catch up with tail.
FreeNoGap == Size - Occupancy

Free == Size - 1 - Occupancy

RingInit == /\ head = 0 /\ tail = 0
            /\ \E z \in Byte : /\ buf = [i \in Index |-> [epoch |-> 0, byte |-> z]]
                               /\ cur = [epoch |-> 0, byte |-> z]
                               /\ out = [epoch |-> 0, byte |-> z]
            /\ access = "idle" /\ reg = 0
            /\ epoch = 1 /\ raced = FALSE

----------------------------------------------------------------------------
(* The interrupt *)

\* How many of n bytes the loop of cdc_rx_push stores: it drops from the
\* moment next_head would meet tail, and tail stands still meanwhile.
Accepted(n) == IF n <= Free THEN n ELSE Free

Push(p) ==
    LET n == Accepted(Len(p)) IN
    /\ buf' = [k \in Index |-> IF Dist(head, k) < n
                               THEN [epoch |-> epoch, byte |-> p[Dist(head, k) + 1]]
                               ELSE buf[k]]
    /\ head' = Wrap(head + n)
    /\ UNCHANGED <<tail, access, reg, cur, out, epoch, raced>>

\* One turn of the loop in cdc_rx_push on ring = <<head, buf>>.
PushByte(ring, b) ==
    IF Wrap(ring[1] + 1) = tail THEN ring
    ELSE <<Wrap(ring[1] + 1),
           [ring[2] EXCEPT ![ring[1]] = [epoch |-> epoch, byte |-> b]]>>

Packet == UNION {[1..n -> Byte] : n \in 1..MaxPacket}

Receive == \E p \in Packet : Push(p)

\* Fault: the reset forgets the consumer's index.
BusResetHeadOnly == /\ epoch < MaxEpoch
                    /\ head' = 0
                    /\ epoch' = epoch + 1
                    /\ raced' = (access \notin {"idle", "tail"})
                    /\ UNCHANGED <<tail, buf, access, reg, cur, out>>

\* cdc_rx_init as usb_bus_reset calls it, from the interrupt.
BusReset == /\ epoch < MaxEpoch
            /\ head' = 0
            /\ tail' = 0
            /\ epoch' = epoch + 1
            /\ raced' = (access \notin {"idle", "tail"})
            /\ UNCHANGED <<buf, access, reg, cur, out>>

----------------------------------------------------------------------------
(* The main loop *)

Call == /\ access = "idle"
        /\ access' = "tail"
        /\ UNCHANGED <<head, tail, buf, reg, cur, out, epoch, raced>>

ReadTail == /\ access = "tail"
            /\ reg' = tail
            /\ access' = "cmp"
            /\ UNCHANGED <<head, tail, buf, cur, out, epoch, raced>>

\* Fault: `<' for `!=', which misses the bytes that have wrapped.
CompareLess == /\ access = "cmp"
               /\ access' = IF reg < head THEN "index" ELSE "idle"
               /\ raced' = (raced /\ reg < head)
               /\ UNCHANGED <<head, tail, buf, reg, cur, out, epoch>>

Compare == /\ access = "cmp"
           /\ \/ /\ reg # head
                 /\ access' = "index"
                 /\ raced' = raced
              \/ /\ reg = head
                 /\ access' = "idle"
                 /\ raced' = FALSE
           /\ UNCHANGED <<head, tail, buf, reg, cur, out, epoch>>

ReadIndex == /\ access = "index"
             /\ reg' = tail
             /\ access' = "fetch"
             /\ UNCHANGED <<head, tail, buf, cur, out, epoch, raced>>

Fetch == /\ access = "fetch"
         /\ cur' = buf[reg]
         /\ access' = "inc"
         /\ UNCHANGED <<head, tail, buf, reg, out, epoch, raced>>

ReadForIncrement == /\ access = "inc"
                    /\ reg' = tail
                    /\ access' = "store"
                    /\ UNCHANGED <<head, tail, buf, cur, out, epoch, raced>>

\* The byte is the parser's from here on.
Store == /\ access = "store"
         /\ tail' = Wrap(reg + 1)
         /\ out' = cur
         /\ access' = "feed"
         /\ UNCHANGED <<head, buf, reg, cur, epoch, raced>>

\* protocol_feed returns.
Fed == /\ access = "feed"
       /\ access' = "tail"
       /\ UNCHANGED <<head, tail, buf, reg, cur, out, epoch, raced>>

Task == \/ Call \/ ReadTail \/ Compare \/ ReadIndex
        \/ Fetch \/ ReadForIncrement \/ Store \/ Fed

RingNext == Receive \/ BusReset \/ Task

RingSpec == RingInit /\ [][RingNext]_ringVars

\* The main loop never stops calling cdc_rx_task, and interrupts are finite.
FairRingSpec == RingSpec /\ WF_ringVars(Task)

----------------------------------------------------------------------------
(* Properties *)

InQueue(k) == Dist(tail, k) < Occupancy

\* Every queued byte was received since the last bus reset: what the flush in
\* usb_bus_reset is for.
QueueFresh == \A k \in Index : InQueue(k) => buf[k].epoch = epoch

\* Unless a reset struck in the middle of a byte, the queue holds only bytes
\* of this session; the damage of such a reset ends when the ring is drained.
FreshUnlessRaced == ~raced => QueueFresh

\* What the main loop knows between its accesses while no reset disturbs it:
\* the index in its register is still tail, the byte it goes for is still there.
LoopHolds ==
    ~raced => /\ access \in {"cmp", "fetch", "store"} => reg = tail
              /\ access \in {"index", "fetch", "inc", "store"} => tail # head
              /\ access \in {"inc", "store"} => cur = buf[tail]

\* The comparison that ends the loop never leaves stale bytes behind.
RepairedAtExit == raced /\ access = "cmp" => (reg = tail \/ QueueFresh)

\* The inductive invariant behind FreshUnlessRaced and QueueStep.
RingInv == RingTypeOK /\ FreshUnlessRaced /\ LoopHolds /\ RepairedAtExit

\* The bytes between the two indices, oldest first.
Queue == [i \in 1..Occupancy |-> buf[Wrap(tail + (i - 1))]]

Abs == INSTANCE ByteQueue WITH Capacity <- Size - 1, Item <- Cell,
                               q <- Queue, out <- out

\* Every step that no racing reset has disturbed is a step of the bounded
\* queue or changes nothing the queue shows: no byte is lost, duplicated or
\* reordered, whatever the interleaving of interrupt and main loop.
QueueStep == [][raced' \/ raced \/ Abs!Next \/ UNCHANGED <<Queue, out>>]_ringVars

\* The closed form Push is what the loop of cdc_rx_push computes byte by byte.
PushIsTheLoop ==
    [][\A p \in Packet :
         Push(p) => <<head', buf'>> = FoldLeft(PushByte, <<head, buf>>, p)]_ringVars

\* A byte in the ring reaches the parser, or a reset takes it away.
EveryByteServed == (tail # head) ~> (access = "feed" \/ tail = head)
=============================================================================
