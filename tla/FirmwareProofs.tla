---------------------------- MODULE FirmwareProofs ----------------------------
(***************************************************************************)
(* Proofs about the firmware's main loop and its two sides: MainLoop, for  *)
(* whatever clocks, lengths, runs and pulses the host asks for (how long   *)
(* the watchdog can go unfed, and that a reset pulse lasts as long as was  *)
(* asked); SpscRing, the ring its bytes come through, for every ring size, *)
(* packet size and number of bus resets; and BulkIn, the pipes its answers *)
(* go out by, for every number of packets, messages and bus resets.        *)
(***************************************************************************)
EXTENDS MainLoop, SpscRing, BulkIn, Induction

-------------------------------------------------------------------------------
(* The main loop and its watchdog.                                         *)

\* The ends of a sequence, and one put in front of it.
LEMMA SeqEnds ==
    ASSUME NEW S, NEW s \in Seq(S), s # << >>
    PROVE  Head(s) \in S /\ Tail(s) \in Seq(S)
  OBVIOUS

LEMMA SeqFront ==
    ASSUME NEW S, NEW s \in Seq(S), NEW e \in S
    PROVE  <<e>> \o s \in Seq(S) /\ <<e>> \o s # << >>
<1>1. <<e>> \in Seq(S) /\ Len(<<e>>) = 1
  OBVIOUS
<1>2. Len(<<e>> \o s) = 1 + Len(s) /\ Len(s) \in Nat
  BY <1>1
<1>3. QED
  BY <1>1, <1>2

\* No call, and a call less.
LEMMA CallsEnds == /\ << >> \in Calls
                   /\ \A s \in Calls : s # << >> => Head(s) \in 1..MaxBits /\ Tail(s) \in Calls
<1>1. << >> \in Calls
  BY DEF Calls
<1>2. ASSUME NEW s \in Calls, s # << >> PROVE Head(s) \in 1..MaxBits /\ Tail(s) \in Calls
  BY <1>2, SeqEnds DEF Calls
<1>3. QED
  BY <1>1, <1>2

\* The durations in ticks.
LEMMA Durations == Window = 40 /\ SendWait = 1 /\ Slice = 2 /\ Piece = 21 /\ MaxPulse = 100
  BY DEF MaxPulse, Window, SendWait, Slice, Piece, FeedBits, Ticks, TickUs

\* The smaller of two numbers is one of them.
LEMMA SmallerOfTwo ==
    ASSUME NEW a \in Nat \ {0}, NEW b \in Nat \ {0}
    PROVE  Smaller(a, b) \in 1..b /\ Smaller(a, b) <= a
  BY DEF Smaller

\* half_period_us: between 1 and 500 microseconds.
LEMMA HalfPeriod == khz \in Nat \ {0} => half_period_us \in 1..500
<1>1. SUFFICES ASSUME khz \in Nat \ {0} PROVE half_period_us \in 1..500
  OBVIOUS
<1>2. 500 \div khz \in 0..500
  BY <1>1
<1>3. QED
  BY <1>1, <1>2 DEF half_period_us

\* At most FeedBits bits are clocked between two feedings.
LEMMA ClockBound ==
    ASSUME khz \in Nat \ {0}, NEW n \in 1..MaxBits
    PROVE  Clock(n) \in Nat /\ Clock(n) <= Piece
<1> DEFINE Half == 1..500
           Bits == 1..FeedBits
<1>1. half_period_us \in Half
  BY HalfPeriod
<1>2. Smaller(n, FeedBits) \in Bits
  <2>1. n \in Nat \ {0} /\ FeedBits \in Nat \ {0}
    BY DEF FeedBits
  <2>2. QED
    BY <2>1, SmallerOfTwo
<1>3. ASSUME NEW h \in Half, NEW m \in Bits
      PROVE  Ticks(2 * h * m) \in Nat /\ Ticks(2 * h * m) <= Piece
  <2>1. h * m \in Nat /\ h * m <= 500 * m
    BY DEF FeedBits
  <2>2. 2 * h * m = 2 * (h * m)
    BY DEF FeedBits
  <2> DEFINE us == 2 * h * m
  <2>3. us \in Nat /\ us <= 1024000
    BY <2>1, <2>2 DEF FeedBits
  <2> HIDE DEF us
  <2>4. Ticks(us) \in Nat /\ Ticks(us) <= 21
    BY <2>3, SMT DEF Ticks, TickUs
  <2>5. QED
    BY <2>4, Durations DEF us
<1> HIDE DEF Half, Bits
<1>4. QED
  BY <1>1, <1>2, <1>3, Zenon DEF Clock

\* A pulse is between one tick and those of five seconds.
LEMMA PulseBound ==
    ASSUME NEW ms \in Nat
    PROVE  Ticks(1000 * (IF ms = 0 THEN 10 ELSE Smaller(ms, 5000))) \in 1..MaxPulse
  BY DEF MaxPulse, Ticks, TickUs, Smaller

\* What Answer leaves behind satisfies the invariant.
LEMMA AnswerKeeps ==
    ASSUME LoopInv, pc = "rx", NEW n \in Nat, Answer(n), khz' \in Nat \ {0}
    PROVE  LoopInv'
  BY Durations DEF LoopInv, TypeOK, GapInv, PulseInv, WorkInv, Answer, Packets, history

\* So does Shift.
LEMMA ShiftKeeps ==
    ASSUME LoopInv, pc = "rx", NEW s \in Calls, s # << >>, NEW n \in Nat, Shift(s, n)
    PROVE  LoopInv'
<1>1. Head(s) \in 1..MaxBits
  BY CallsEnds
<1>2. Clock(Head(s)) \in Nat /\ Clock(Head(s)) <= Piece
  BY <1>1, ClockBound DEF LoopInv, TypeOK
<1>3. Packets(n) \in Nat \ {0}
  BY DEF Packets
<1>4. QED
  BY <1>2, <1>3, Durations DEF LoopInv, TypeOK, GapInv, PulseInv, WorkInv, Shift, history

\* So does every handler.
LEMMA DispatchKeeps == LoopInv /\ dispatch => LoopInv'
<1> SUFFICES ASSUME LoopInv, dispatch PROVE LoopInv'
  OBVIOUS
<1> USE DEF dispatch
<1>k. khz \in Nat \ {0} /\ pc = "rx"
  BY DEF LoopInv, TypeOK
<1>1. ASSUME NEW c \in DOMAIN DataOf, Quick(c) PROVE LoopInv'
  <2>1. DataOf[c] \in Nat
    BY <1>1 DEF DataOf
  <2>2. QED
    BY <1>1, <1>k, <2>1, AnswerKeeps DEF Quick
<1>2. CASE send_resp_error
  BY <1>2, <1>k, AnswerKeeps DEF send_resp_error
<1>3. ASSUME NEW hz \in Hz, handle_set_clock(hz) PROVE LoopInv'
  <2>1. hz \in Nat
    BY LoopAssumption
  <2>2. CASE hz < 1000
    BY <1>3, <1>k, <2>2, AnswerKeeps DEF handle_set_clock, send_resp_error
  <2>3. CASE ~(hz < 1000)
    <3>1. hz \div 1000 \in Nat \ {0}
      BY <2>1, <2>3
    <3>2. QED
      BY <1>3, <1>k, <2>3, <3>1, AnswerKeeps DEF handle_set_clock
  <2>4. QED
    BY <2>2, <2>3
<1>4. CASE handle_reset_tap
  <2>1. <<5, 1>> \in Calls /\ <<5, 1>> # << >>
    BY DEF MaxBits, Calls
  <2>2. QED
    BY <1>4, <1>k, <2>1, ShiftKeeps DEF handle_reset_tap
<1>5. ASSUME NEW runs \in Runs, handle_write_tms(runs) PROVE LoopInv'
  <2>1. runs \in Calls
    BY LoopAssumption
  <2>2. CASE runs = << >>
    BY <1>5, <1>k, <2>2, AnswerKeeps DEF handle_write_tms
  <2>3. CASE runs # << >>
    BY <1>5, <1>k, <2>1, <2>3, ShiftKeeps DEF handle_write_tms
  <2>4. QED
    BY <2>2, <2>3
<1>6. ASSUME NEW n \in Scans, NEW exit_shift \in BOOLEAN, handle_shift_data(n, exit_shift)
      PROVE  LoopInv'
  <2> DEFINE s == IF ~exit_shift THEN <<n>> ELSE IF n = 1 THEN <<1>> ELSE <<n - 1, 1>>
  <2>1. n \in 1..MaxBits
    BY LoopAssumption
  <2>2. s \in Calls /\ s # << >>
    <3> DEFINE S == 1..MaxBits
    <3>1. n \in S /\ 1 \in S /\ (n # 1 => n - 1 \in S)
      BY <2>1 DEF MaxBits
    <3> HIDE DEF S
    <3>2. s \in Seq(S) /\ s # << >>
      BY <3>1
    <3>3. QED
      BY <3>2 DEF S, Calls
  <2>3. (n + 7) \div 8 \in Nat
    BY <2>1 DEF MaxBits
  <2>4. Shift(s, (n + 7) \div 8)
    BY <1>6 DEF handle_shift_data
  <2>5. QED
    <3> HIDE DEF s
    <3> QED BY <1>k, <2>2, <2>3, <2>4, ShiftKeeps
<1>7. ASSUME NEW ms \in ResetMs, handle_reset_hard(ms) PROVE LoopInv'
  <2> DEFINE t == Ticks(1000 * (IF ms = 0 THEN 10 ELSE Smaller(ms, 5000)))
  <2>1. t \in 1..MaxPulse
    <3>1. ms \in Nat
      BY LoopAssumption
    <3>2. QED
      BY <3>1, PulseBound
  <2>2. /\ pc' = "reset" /\ nrst' = 0 /\ gap' = 0 /\ unfed' = 0
        /\ left' = Smaller(t, Slice) /\ rest' = t - Smaller(t, Slice)
        /\ lowFor' = 0 /\ asked' = t
        /\ UNCHANGED <<calls, packets, khz>>
    BY <1>7 DEF handle_reset_hard, watchdog_update
  <2>3. QED
    <3> HIDE DEF t
    <3> QED BY <2>1, <2>2, Durations DEF LoopInv, TypeOK, GapInv, PulseInv, WorkInv, Smaller
<1>8. QED
  BY <1>1, <1>2, <1>3, <1>4, <1>5, <1>6, <1>7

\* A call of jtag_bb_write_read goes on, or the next begins, or the answer.
LEMMA ShiftStepKeeps == LoopInv /\ jtag_bb_write_read => LoopInv'
<1> SUFFICES ASSUME LoopInv, jtag_bb_write_read PROVE LoopInv'
  OBVIOUS
<1> DEFINE n == Head(calls) - Smaller(Head(calls), FeedBits)
           s == IF n = 0 THEN Tail(calls) ELSE <<n>> \o Tail(calls)
<1>1. Head(calls) \in 1..MaxBits /\ Tail(calls) \in Calls
  <2>1. calls \in Calls /\ calls # << >>
    BY DEF LoopInv, TypeOK, WorkInv, jtag_bb_write_read
  <2>2. QED
    BY <2>1, CallsEnds
<1>2. n \in 0..MaxBits
  <2>1. Head(calls) \in Nat \ {0} /\ FeedBits \in Nat \ {0}
    BY <1>1 DEF FeedBits
  <2>2. Smaller(Head(calls), FeedBits) \in 1..FeedBits /\ Smaller(Head(calls), FeedBits) <= Head(calls)
    BY <2>1, SmallerOfTwo
  <2> DEFINE h == Head(calls)
             f == Smaller(h, FeedBits)
  <2>3. h \in 1..MaxBits /\ f \in 1..FeedBits /\ f <= h
    BY <1>1, <2>2
  <2> HIDE DEF h, f
  <2>4. h - f \in 0..MaxBits
    BY <2>3, SMT DEF MaxBits, FeedBits
  <2>5. QED
    BY <2>4 DEF h, f
<1>3. s \in Calls
  <2> HIDE DEF n
  <2>1. CASE n = 0
    BY <1>1, <2>1
  <2>2. CASE n # 0
    <3>1. n \in 1..MaxBits
      BY <1>2, <2>2
    <3>2. QED
      BY <1>1, <2>2, <3>1, SeqFront DEF Calls
  <2>3. QED
    BY <2>1, <2>2
<1>4. /\ pc = "shift" /\ gap' = 0 /\ unfed' = 0 /\ calls' = s
      /\ IF s = << >> THEN pc' = "answer" /\ left' = SendWait
                      ELSE pc' = pc /\ left' = Clock(Head(s))
      /\ UNCHANGED <<rest, packets, khz, nrst, lowFor, asked>>
  BY DEF jtag_bb_write_read, watchdog_update
<1> HIDE DEF s
<1>5. CASE s = << >>
  BY <1>3, <1>4, <1>5, Durations DEF LoopInv, TypeOK, GapInv, PulseInv, WorkInv
<1>6. CASE s # << >>
  <2>1. Head(s) \in 1..MaxBits
    BY <1>3, <1>6, CallsEnds
  <2>2. Clock(Head(s)) \in Nat /\ Clock(Head(s)) <= Piece
    BY <2>1, ClockBound DEF LoopInv, TypeOK
  <2>3. QED
    BY <1>3, <1>4, <1>6, <2>2, Durations DEF LoopInv, TypeOK, GapInv, PulseInv, WorkInv
<1>7. QED
  BY <1>5, <1>6

\* LoopInv is inductive.
LEMMA LoopInit == Init => LoopInv
  BY Durations, CallsEnds DEF Init, LoopInv, TypeOK, GapInv, PulseInv, WorkInv

LEMMA LoopStep == LoopInv /\ [Next]_vars => LoopInv'
<1> SUFFICES ASSUME LoopInv, [Next]_vars PROVE LoopInv'
  OBVIOUS
<1> USE DEF LoopInv, TypeOK, GapInv, PulseInv, WorkInv, Alive, watchdog_update, work, history
<1>1. CASE Enumerated
  BY <1>1, Durations DEF Enumerated
<1>2. CASE Top
  BY <1>2, Durations DEF Top
<1>3. CASE dispatch
  BY <1>3, DispatchKeeps
<1>4. CASE jtag_bb_write_read
  BY <1>4, ShiftStepKeeps
<1>5. CASE SliceDone
  <2>1. CASE rest > 0
    BY <1>5, <2>1, Durations DEF SliceDone, Smaller
  <2>2. CASE ~(rest > 0)
    BY <1>5, <2>2, Durations DEF SliceDone, Packets
  <2>3. QED
    BY <2>1, <2>2
<1>6. CASE cdc_send
  <2>1. PICK p \in {packets - 1, 0} :
          /\ packets' = p
          /\ IF p = 0 THEN pc' = "rx" /\ left' = 0 ELSE pc' = pc /\ left' = SendWait
    BY <1>6 DEF cdc_send
  <2>2. p \in Nat
    BY <1>6, <2>1 DEF cdc_send
  <2>3. QED
    BY <1>6, <2>1, <2>2, Durations DEF cdc_send
<1>7. CASE uart_bridge_task
  BY <1>7, Durations DEF uart_bridge_task
<1>8. CASE uart_driver_send
  <2>1. UartPiece \in Nat /\ UartPiece <= 23
    BY LoopAssumption, Durations
  <2>2. CASE packets = 0
    BY <1>8, <2>2, Durations DEF uart_driver_send
  <2>3. CASE packets # 0
    BY <1>8, <2>1, <2>3, Durations DEF uart_driver_send
  <2>4. QED
    BY <2>2, <2>3
<1>9. CASE uart_cdc_send
  BY <1>9, Durations DEF uart_cdc_send
<1>10. CASE Tick
  <2>1. CASE pc = "rx"
    BY <1>10, <2>1, Durations DEF Tick
  <2>2. CASE pc \in {"answer", "usb"}
    BY <1>10, <2>2, Durations DEF Tick
  <2>3. CASE pc \in {"shift", "reset", "uart"}
    BY <1>10, <2>3, Durations DEF Tick
  <2>4. ~(pc \in {"enumerate", "top"})
    BY <1>10 DEF Tick
  <2>5. QED
    BY <2>1, <2>2, <2>3, <2>4
<1>11. CASE Bite
  BY <1>11, Durations, CallsEnds DEF Bite
<1>12. CASE UNCHANGED vars
  BY <1>12 DEF vars
<1>13. QED
  BY <1>1, <1>2, <1>3, <1>4, <1>5, <1>6, <1>7, <1>8, <1>9, <1>10, <1>11, <1>12 DEF Next

\* What is waited for, how long the watchdog has not been fed, and the reset
\* pulse hang together in every reachable state.
THEOREM LoopInvariant == Spec => []LoopInv
  BY LoopInit, LoopStep, PTL DEF Spec

\* No shift, pulse or serial chunk starves the watchdog by itself, whatever its
\* length and the clock.
THEOREM WatchdogFed == Spec => []BitesOnlyUnfed
<1>1. LoopInv => BitesOnlyUnfed
  BY Durations DEF LoopInv, TypeOK, GapInv, BitesOnlyUnfed
<1>2. QED
  BY LoopInvariant, <1>1, PTL

\* The reset pulse lasts as long as was asked: the watchdog never bites in it.
THEOREM PulseExact == Spec => PulseAsAsked
<1>1. LoopInv /\ [Next]_vars => (nrst = 0 /\ nrst' = 1 => lowFor = asked /\ asked \in 1..MaxPulse)
  <2> SUFFICES ASSUME LoopInv, [Next]_vars, nrst = 0, nrst' = 1
               PROVE  lowFor = asked /\ asked \in 1..MaxPulse
    OBVIOUS
  <2>1. /\ pc = "reset" /\ lowFor + left + rest = asked /\ asked \in 1..MaxPulse
        /\ gap <= Slice
    BY Durations DEF LoopInv, TypeOK, GapInv, PulseInv
  <2>2. SliceDone
    <3>1. ~Bite
      BY <2>1, Durations DEF Bite
    <3>2. ~dispatch /\ ~Enumerated /\ ~Top /\ ~jtag_bb_write_read /\ ~cdc_send
      BY <2>1 DEF dispatch, Enumerated, Top, jtag_bb_write_read, cdc_send
    <3>3. ~uart_bridge_task /\ ~uart_driver_send /\ ~uart_cdc_send /\ ~Tick
      BY <2>1 DEF uart_bridge_task, uart_driver_send, uart_cdc_send, Tick
    <3>4. nrst' # nrst
      OBVIOUS
    <3>5. QED
      BY <3>1, <3>2, <3>3, <3>4 DEF Next, vars
  <2>3. left = 0 /\ rest = 0
    BY <2>2 DEF SliceDone, LoopInv, TypeOK
  <2>4. QED
    BY <2>1, <2>3 DEF LoopInv, TypeOK
<1>2. QED
  BY LoopInvariant, <1>1, PTL DEF Spec, PulseAsAsked

-------------------------------------------------------------------------------
(* The ring.                                                               *)

\* The index arithmetic of the ring stays inside the ring.
LEMMA IndexArithmetic ==
    /\ \A i \in Index, n \in Index : Wrap(i + n) \in Index
    /\ \A i, k \in Index : Dist(i, k) \in Index
    /\ \A i, k \in Index : Wrap(i + Dist(i, k)) = k
    /\ \A i, n \in Index : Dist(i, Wrap(i + n)) = n
  BY SizeAssumption, SMT DEF Index, Wrap, Dist

\* A packet is accepted whole, or as far as there is room; never beyond the
\* cell that keeps head and tail apart.
LEMMA AcceptedRange ==
    ASSUME RingTypeOK, NEW n \in Nat
    PROVE  /\ Occupancy \in Index
           /\ Accepted(n) \in Index
           /\ Accepted(n) <= n
           /\ Occupancy + Accepted(n) \in Index
  BY SizeAssumption, SMT DEF RingTypeOK, Index, Occupancy, Dist, Accepted, Free

\* Every packet is a non-empty sequence of bytes.
LEMMA PacketShape ==
    ASSUME NEW p \in Packet
    PROVE  /\ Len(p) \in Nat
           /\ \A i \in 1..Len(p) : p[i] \in Byte
  BY PacketAssumption DEF Packet

\* The ring starts empty and well-typed.
LEMMA RingTypeAtInit == RingInit => RingTypeOK
<1> SUFFICES ASSUME RingInit PROVE RingTypeOK
  OBVIOUS
<1>1. PICK z \in Byte : /\ buf = [i \in Index |-> [epoch |-> 0, byte |-> z]]
                        /\ cur = [epoch |-> 0, byte |-> z]
                        /\ out = [epoch |-> 0, byte |-> z]
  BY DEF RingInit
<1>2. [epoch |-> 0, byte |-> z] \in Cell
  BY EpochAssumption DEF Cell
<1>3. 0 \in Index /\ 1 \in 1..MaxEpoch
  BY SizeAssumption, EpochAssumption DEF Index
<1> QED
  BY <1>1, <1>2, <1>3 DEF RingInit, RingTypeOK, Access

\* Every access of the main loop and every interrupt keeps the types.
LEMMA RingTypeStep == RingTypeOK /\ [RingNext]_ringVars => RingTypeOK'
<1> SUFFICES ASSUME RingTypeOK, [RingNext]_ringVars PROVE RingTypeOK'
  OBVIOUS
<1> USE DEF RingTypeOK
<1>1. CASE Receive
  <2>1. PICK p \in Packet : Push(p)
    BY <1>1 DEF Receive
  <2> DEFINE n == Accepted(Len(p))
  <2>2. n \in Index /\ n <= Len(p)
    BY <2>1, PacketShape, AcceptedRange
  <2>3. head' \in Index
    BY <2>1, <2>2, IndexArithmetic DEF Push
  <2>4. buf' \in [Index -> Cell]
    <3>1. ASSUME NEW k \in Index, Dist(head, k) < n
          PROVE  [epoch |-> epoch, byte |-> p[Dist(head, k) + 1]] \in Cell
      <4>1. Dist(head, k) + 1 \in 1..Len(p)
        <5>1. Dist(head, k) \in 0..(Size - 1)
          BY IndexArithmetic DEF Index
        <5>2. Len(p) \in Nat
          BY PacketShape
        <5>3. n \in 0..(Size - 1) /\ n <= Len(p)
          BY <2>2 DEF Index
        <5> QED
          BY <3>1, <5>1, <5>2, <5>3, SizeAssumption
      <4>2. p[Dist(head, k) + 1] \in Byte
        BY <4>1, PacketShape
      <4> QED
        BY <4>2, EpochAssumption DEF Cell
    <3> QED
      BY <2>1, <3>1 DEF Push
  <2> QED
    BY <2>1, <2>3, <2>4 DEF Push
<1>2. CASE BusReset
  BY <1>2, SizeAssumption, EpochAssumption, SMT DEF BusReset, Index
<1>3. CASE Task
  <2>1. CASE Store
    <3>1. 1 \in Index
      BY SizeAssumption, SMT DEF Index
    <3> QED
      BY <2>1, <3>1, IndexArithmetic DEF Store, Access
  <2>2. CASE Fetch
    BY <2>2 DEF Fetch, Access
  <2> QED
    BY <1>3, <2>1, <2>2
    DEF Task, Call, ReadTail, Compare, ReadIndex, ReadForIncrement, Fed, Access
<1>4. CASE UNCHANGED ringVars
  BY <1>4 DEF ringVars
<1> QED
  BY <1>1, <1>2, <1>3, <1>4 DEF RingNext

\* Indices, cells and registers keep their types through every interleaving
\* of the interrupt with the main loop, racing resets included.
THEOREM RingTypeCorrect == RingSpec => []RingTypeOK
  BY RingTypeAtInit, RingTypeStep, PTL DEF RingSpec

\* No cell lies before the first.
LEMMA NothingBeforeItself == \A t, k \in Index : ~(Dist(t, k) < Dist(t, t))
  BY SizeAssumption, SMT DEF Index, Dist

\* Storing n bytes after head lengthens the queue by n and moves nothing in it.
LEMMA PushArithmetic ==
    ASSUME NEW t \in Index, NEW h \in Index, NEW n \in Index,
           Dist(t, h) + n \in Index
    PROVE  /\ Dist(t, Wrap(h + n)) = Dist(t, h) + n
           /\ \A k \in Index :
                /\ Dist(t, k) < Dist(t, h) => ~(Dist(h, k) < n)
                /\ Dist(t, k) < Dist(t, h) + n /\ ~(Dist(h, k) < n)
                     => Dist(t, k) < Dist(t, h)
  BY SizeAssumption, SMT DEF Index, Wrap, Dist

\* Taking the oldest byte shortens the queue by one and moves nothing in it.
LEMMA TakeArithmetic ==
    ASSUME NEW t \in Index, NEW h \in Index, t # h
    PROVE  /\ Wrap(t + 1) \in Index
           /\ Dist(t, h) > 0
           /\ Dist(Wrap(t + 1), h) = Dist(t, h) - 1
           /\ \A k \in Index : Dist(Wrap(t + 1), k) < Dist(t, h) - 1
                                 => Dist(t, k) < Dist(t, h)
  BY SizeAssumption, SMT DEF Index, Wrap, Dist

\* An arriving packet carries the number of the session it arrives in.
LEMMA PushKeepsFresh ==
    ASSUME RingTypeOK, QueueFresh, NEW p \in Packet, Push(p)
    PROVE  QueueFresh'
<1> DEFINE n == Accepted(Len(p))
<1>1. n \in Index /\ Dist(tail, head) + n \in Index
  BY PacketShape, AcceptedRange DEF Occupancy
<1>2. Dist(tail', head') = Dist(tail, head) + n /\ tail' = tail /\ epoch' = epoch
  BY <1>1, PushArithmetic DEF Push, RingTypeOK
<1> SUFFICES ASSUME NEW k \in Index, Dist(tail, k) < Dist(tail, head) + n
             PROVE  buf'[k].epoch = epoch
  BY <1>2 DEF QueueFresh, InQueue, Occupancy
<1>3. CASE Dist(head, k) < n
  BY <1>3 DEF Push
<1>4. CASE ~(Dist(head, k) < n)
  <2>1. Dist(tail, k) < Dist(tail, head)
    BY <1>1, <1>4, PushArithmetic DEF RingTypeOK
  <2>2. buf'[k] = buf[k]
    BY <1>4 DEF Push
  <2> QED
    BY <2>1, <2>2 DEF QueueFresh, InQueue, Occupancy
<1> QED
  BY <1>3, <1>4

\* An empty ring is fresh.
LEMMA EmptyIsFresh ==
    ASSUME RingTypeOK, tail = head
    PROVE  QueueFresh
<1>2. \A k \in Index : ~InQueue(k)
  BY SizeAssumption, SMT DEF RingTypeOK, Index, InQueue, Occupancy, Dist
<1> QED
  BY <1>2 DEF QueueFresh

\* The inductive invariant: what the main loop holds between two accesses
\* stays true under every interrupt, and only a reset in the middle of a byte
\* can leave stale bytes behind, until the ring is found empty.
THEOREM RingInvariant == RingSpec => []RingInv
<1>1. RingInit => RingInv
  <2> SUFFICES ASSUME RingInit PROVE RingInv
    OBVIOUS
  <2>1. RingTypeOK
    BY RingTypeAtInit
  <2>2. QueueFresh
    BY <2>1, EmptyIsFresh DEF RingInit
  <2> QED
    BY <2>1, <2>2 DEF RingInit, RingInv, FreshUnlessRaced, LoopHolds, RepairedAtExit
<1>2. RingInv /\ [RingNext]_ringVars => RingInv'
  <2> SUFFICES ASSUME RingInv, [RingNext]_ringVars PROVE RingInv'
    OBVIOUS
  <2>1. RingTypeOK /\ RingTypeOK'
    BY RingTypeStep DEF RingInv
  <2>2. CASE Receive
    <3>1. PICK p \in Packet : Push(p)
      BY <2>2 DEF Receive
    <3>2. QueueFresh => QueueFresh'
      BY <2>1, <3>1, PushKeepsFresh
    <3>3. FreshUnlessRaced' /\ RepairedAtExit'
      BY <3>1, <3>2 DEF RingInv, FreshUnlessRaced, RepairedAtExit, Push
    <3>4. LoopHolds'
      <4> SUFFICES ASSUME ~raced PROVE LoopHolds'
        BY <3>1 DEF LoopHolds, Push
      <4> DEFINE n == Accepted(Len(p))
      <4>1. n \in Index /\ Dist(tail, head) + n \in Index
        BY <2>1, PacketShape, AcceptedRange DEF Occupancy
      <4>2. Dist(tail, head') = Dist(tail, head) + n
        BY <2>1, <3>1, <4>1, PushArithmetic DEF Push, RingTypeOK
      <4>3. tail # head => tail # head' /\ buf'[tail] = buf[tail]
        <5> SUFFICES ASSUME tail # head PROVE tail # head' /\ buf'[tail] = buf[tail]
          OBVIOUS
        <5>1. /\ Dist(tail, tail) = 0
              /\ Dist(tail, head) > 0
          BY <2>1, SizeAssumption, SMT DEF RingTypeOK, Index, Dist
        <5>2. ~(Dist(head, tail) < n)
          BY <2>1, <4>1, <5>1, PushArithmetic DEF RingTypeOK
        <5>3. buf'[tail] = buf[tail]
          BY <2>1, <3>1, <5>2 DEF Push, RingTypeOK
        <5>4. Dist(tail, head') # 0
          <6>1. n \in Nat /\ Dist(tail, head) \in Nat
            BY <2>1, <4>1, SizeAssumption, SMT DEF RingTypeOK, Index, Dist
          <6> QED
            BY <4>2, <5>1, <6>1
        <5> QED
          BY <5>1, <5>3, <5>4
      <4> QED
        BY <3>1, <4>3 DEF RingInv, LoopHolds, Push
    <3> QED
      BY <2>1, <3>3, <3>4 DEF RingInv
  <2>3. CASE BusReset
    <3>1. QueueFresh'
      <4>1. tail' = head'
        BY <2>3 DEF BusReset
      <4>2. \A k \in Index : ~(Dist(tail', k) < Dist(tail', head'))
        BY <2>1, <4>1, NothingBeforeItself DEF RingTypeOK
      <4> QED
        BY <4>2 DEF QueueFresh, InQueue, Occupancy
    <3> QED
      BY <2>1, <2>3, <3>1
      DEF RingInv, BusReset, FreshUnlessRaced, LoopHolds, RepairedAtExit, RingTypeOK, Access
  <2>4. CASE Compare
    <3>1. CASE reg # head
      BY <2>1, <2>4, <3>1
      DEF RingInv, Compare, FreshUnlessRaced, LoopHolds, RepairedAtExit,
          QueueFresh, InQueue, Occupancy
    <3>2. CASE reg = head
      <4>1. QueueFresh
        BY <2>1, <2>4, <3>2, EmptyIsFresh
        DEF RingInv, Compare, FreshUnlessRaced, RepairedAtExit
      <4> QED
        BY <2>1, <2>4, <3>2, <4>1
        DEF RingInv, Compare, FreshUnlessRaced, LoopHolds, RepairedAtExit,
            QueueFresh, InQueue, Occupancy
    <3> QED
      BY <3>1, <3>2
  <2>5. CASE Store
    <3>1. FreshUnlessRaced'
      <4> SUFFICES ASSUME ~raced PROVE QueueFresh'
        BY <2>5 DEF FreshUnlessRaced, Store
      <4>1. tail # head /\ tail' = Wrap(tail + 1) /\ head' = head /\ QueueFresh
        BY <2>5 DEF RingInv, FreshUnlessRaced, LoopHolds, Store
      <4>2. \A k \in Index : Dist(tail', k) < Dist(tail', head')
                               => Dist(tail, k) < Dist(tail, head)
        BY <2>1, <4>1, TakeArithmetic DEF RingTypeOK
      <4> QED
        BY <2>5, <4>1, <4>2 DEF QueueFresh, InQueue, Occupancy, Store
    <3> QED
      BY <2>1, <2>5, <3>1 DEF RingInv, Store, LoopHolds, RepairedAtExit
  <2>6. CASE Call \/ ReadTail \/ ReadIndex \/ Fetch \/ ReadForIncrement \/ Fed
    <3>1. QueueFresh' <=> QueueFresh
      BY <2>6 DEF Call, ReadTail, ReadIndex, Fetch, ReadForIncrement, Fed,
                  QueueFresh, InQueue, Occupancy
    <3> QED
      BY <2>1, <2>6, <3>1
      DEF Call, ReadTail, ReadIndex, Fetch, ReadForIncrement, Fed,
          RingInv, FreshUnlessRaced, LoopHolds, RepairedAtExit
  <2>7. CASE UNCHANGED ringVars
    BY <2>1, <2>7
    DEF ringVars, RingInv, FreshUnlessRaced, LoopHolds, RepairedAtExit,
        QueueFresh, InQueue, Occupancy
  <2> QED
    BY <2>2, <2>3, <2>4, <2>5, <2>6, <2>7 DEF RingNext, Task
<1> QED
  BY <1>1, <1>2, PTL DEF RingSpec

\* The parser only ever waits on bytes of the session in progress, unless a
\* bus reset struck while the main loop was between two accesses.
THEOREM FreshUnlessRacedHolds == RingSpec => []FreshUnlessRaced
<1>1. RingInv => FreshUnlessRaced
  BY DEF RingInv
<1> QED
  BY <1>1, RingInvariant, PTL

\* The queue read off the ring is a sequence of cells as long as the ring is full.
LEMMA QueueIsSequence ==
    ASSUME RingTypeOK
    PROVE  /\ Queue \in Seq(Cell)
           /\ Len(Queue) = Occupancy
           /\ Occupancy \in Nat
           /\ \A i \in 1..Occupancy : Queue[i] = buf[Wrap(tail + (i - 1))]
<1>1. Occupancy \in 0..(Size - 1)
  BY SizeAssumption, SMT DEF RingTypeOK, Index, Occupancy, Dist
<1>2. \A i \in 1..Occupancy : Wrap(tail + (i - 1)) \in Index
  BY <1>1, SizeAssumption, SMT DEF RingTypeOK, Index, Wrap
<1>3. \A i \in 1..Occupancy : buf[Wrap(tail + (i - 1))] \in Cell
  BY <1>2 DEF RingTypeOK
<1> QED
  BY <1>1, <1>3 DEF Queue

\* A packet is one Put of the abstract queue.
LEMMA PushIsPut ==
    ASSUME RingTypeOK, RingTypeOK', NEW p \in Packet, Push(p)
    PROVE  Abs!Next
<1> DEFINE len == Len(p)
           n == Accepted(len)
           d == [i \in 1..len |-> [epoch |-> epoch, byte |-> p[i]]]
<1>1. len \in 0..MaxPacket /\ p \in [1..len -> Byte]
  BY PacketAssumption DEF Packet
<1>2. d \in [1..len -> Cell] /\ d \in Seq(Cell) /\ Len(d) = len
  <2>1. len \in Nat
    BY <1>1, PacketAssumption
  <2>2. d \in [1..len -> Cell]
    BY <1>1, EpochAssumption DEF RingTypeOK, Cell
  <2> QED
    BY <2>1, <2>2, IsASeq, LenProperties
<1>3. /\ n \in 0..(Size - 1) /\ n <= len
      /\ n \in Index /\ Dist(tail, head) + n \in Index
  BY <1>1, PacketAssumption, AcceptedRange DEF Index, Occupancy
<1>4. Occupancy' = Occupancy + n
  BY <1>3, PushArithmetic DEF RingTypeOK, Push, Occupancy
<1>5. /\ Queue \in Seq(Cell) /\ Len(Queue) = Occupancy /\ Occupancy \in Nat
      /\ \A i \in 1..Occupancy : Queue[i] = buf[Wrap(tail + (i - 1))]
  BY QueueIsSequence
<1>6. /\ Queue' \in Seq(Cell) /\ Len(Queue') = Occupancy'
      /\ \A i \in 1..Occupancy' : Queue'[i] = buf'[Wrap(tail' + (i - 1))]
  <2>1. Occupancy' \in 0..(Size - 1)
    BY <1>3, <1>4 DEF Occupancy, Index
  <2>2. \A i \in 1..Occupancy' : Wrap(tail' + (i - 1)) \in Index
    <3>1. tail' \in Index
      BY DEF RingTypeOK
    <3>2. \A i \in 1..Occupancy' : i - 1 \in Index
      BY <2>1, SizeAssumption DEF Index
    <3> QED
      BY <3>1, <3>2, IndexArithmetic
  <2>3. \A i \in 1..Occupancy' : buf'[Wrap(tail' + (i - 1))] \in Cell
    BY <2>2 DEF RingTypeOK
  <2> QED
    BY <2>1, <2>3 DEF Queue
<1>7. Abs!Room(len) = n
  BY <1>1, <1>5, PacketAssumption, SizeAssumption, SMT
  DEF Abs!Room, Accepted, Free, RingTypeOK, Index, Occupancy, Dist
<1>8. /\ SubSeq(d, 1, n) \in Seq(Cell)
      /\ Len(SubSeq(d, 1, n)) = n
      /\ \A i \in 1..n : SubSeq(d, 1, n)[i] = d[i]
  <2> HIDE DEF d
  <2>1. \A i \in 1..n : d[i] \in Cell
    BY <1>1, <1>2, <1>3
  <2>2. n \in Nat /\ n <= Len(d)
    BY <1>2, <1>3
  <2>3. SubSeq(d, 1, n) = [i \in 1..n |-> d[i]]
    BY <2>2
  <2>4. SubSeq(d, 1, n) \in [1..n -> Cell]
    BY <2>1, <2>3
  <2>5. SubSeq(d, 1, n) \in Seq(Cell)
    BY <2>1, <2>2, <2>3
  <2>6. Len(SubSeq(d, 1, n)) = n
    BY <2>2, <2>3
  <2> QED
    BY <2>3, <2>5, <2>6
<1>9. Queue' = Queue \o SubSeq(d, 1, n)
  <2> DEFINE r == Queue \o SubSeq(d, 1, n)
  <2>1. /\ r \in Seq(Cell)
        /\ Len(r) = Occupancy + n
        /\ \A i \in 1..(Occupancy + n) :
             r[i] = IF i <= Occupancy THEN Queue[i] ELSE SubSeq(d, 1, n)[i - Occupancy]
    <3> HIDE DEF d
    <3> QED
      BY <1>3, <1>5, <1>8, ConcatProperties
  <2>2. ASSUME NEW i \in 1..(Occupancy + n)
        PROVE  Queue'[i] = r[i]
    <3> DEFINE k == Wrap(tail + (i - 1))
    <3>1. /\ Queue'[i] = buf'[k]
      BY <1>4, <1>6 DEF Push
    <3>2. /\ k \in Index
          /\ Dist(head, k) < n <=> i > Occupancy
          /\ i > Occupancy => Dist(head, k) + 1 = i - Occupancy
      BY <1>3, SizeAssumption, SMTT(20) DEF RingTypeOK, Index, Wrap, Occupancy, Dist
    <3>3. CASE i <= Occupancy
      <4>1. buf'[k] = buf[k]
        BY <1>3, <1>5, <3>2, <3>3 DEF Push
      <4> QED
        BY <1>5, <2>1, <3>1, <3>3, <4>1
    <3>4. CASE i > Occupancy
      <4>1. i - Occupancy \in 1..n /\ i - Occupancy \in 1..len
        BY <1>1, <1>3, <1>5, <3>4
      <4>2. buf'[k] = [epoch |-> epoch, byte |-> p[i - Occupancy]]
        BY <3>2, <3>4 DEF Push
      <4>3. d[i - Occupancy] = [epoch |-> epoch, byte |-> p[i - Occupancy]]
        BY <4>1
      <4>4. r[i] = d[i - Occupancy]
        BY SMTT(20), <1>5, <1>8, <2>1, <3>4, <4>1
      <4> QED
        BY <3>1, <4>2, <4>3, <4>4
    <3> QED
      BY <1>3, <1>5, <3>3, <3>4
  <2> QED
    BY <1>4, <1>5, <1>6, <2>1, <2>2, SeqEqual
<1> QED
  <2>1. Abs!Put(d)
    BY <1>2, <1>7, <1>9 DEF Abs!Put, Push
  <2> QED
    BY <1>1, <1>2, <2>1 DEF Abs!Next

\* Advancing tail past the byte just read is one Take of the abstract queue.
LEMMA StoreIsTake ==
    ASSUME RingTypeOK, RingTypeOK', LoopHolds, ~raced, Store
    PROVE  Abs!Next
<1>1. tail # head /\ reg = tail /\ cur = buf[tail]
  BY DEF LoopHolds, Store
<1>2. tail' = Wrap(tail + 1) /\ head' = head /\ buf' = buf /\ out' = cur
  BY <1>1 DEF Store
<1>3. Occupancy > 0 /\ Occupancy' = Occupancy - 1
  BY <1>1, <1>2, TakeArithmetic DEF RingTypeOK, Occupancy
<1>4. /\ Queue \in Seq(Cell) /\ Len(Queue) = Occupancy /\ Occupancy \in 0..(Size - 1)
      /\ \A i \in 1..Occupancy : Queue[i] = buf[Wrap(tail + (i - 1))]
  BY QueueIsSequence, SizeAssumption, SMT DEF RingTypeOK, Index, Occupancy, Dist
<1>5. /\ Queue' \in Seq(Cell) /\ Len(Queue') = Occupancy'
      /\ \A i \in 1..Occupancy' : Queue'[i] = buf[Wrap(tail' + (i - 1))]
  <2>1. Occupancy' \in 0..(Size - 1)
    BY <1>3, <1>4, SizeAssumption
  <2>2. \A i \in 1..Occupancy' : i - 1 \in Index
    BY <2>1, SizeAssumption DEF Index
  <2>3. \A i \in 1..Occupancy' : buf[Wrap(tail' + (i - 1))] \in Cell
    BY <2>2, IndexArithmetic DEF RingTypeOK
  <2> QED
    BY <1>2, <2>1, <2>3 DEF Queue
<1>6. Queue # << >> /\ Head(Queue) = out'
  <2>1. Queue # << >>
    BY <1>3, <1>4, EmptySeq
  <2>2. Head(Queue) = Queue[1]
    BY <1>4, <2>1
  <2>3. Wrap(tail + (1 - 1)) = tail
    BY SizeAssumption, SMT DEF RingTypeOK, Index, Wrap
  <2>4. Queue[1] = buf[tail]
    BY <1>3, <1>4, <2>3
  <2> QED
    BY <1>1, <1>2, <2>1, <2>2, <2>4
<1>7. Queue' = Tail(Queue)
  <2>1. /\ Tail(Queue) \in Seq(Cell)
        /\ Len(Tail(Queue)) = Occupancy'
        /\ \A i \in 1..Occupancy' : Tail(Queue)[i] = Queue[i + 1]
    BY <1>3, <1>4, <1>6, HeadTailProperties
  <2>2. ASSUME NEW i \in 1..Occupancy'
        PROVE  Queue'[i] = Tail(Queue)[i]
    <3>1. i + 1 \in 1..Occupancy
      BY <1>3, <1>4
    <3>2. Wrap(tail + ((i + 1) - 1)) = Wrap(tail' + (i - 1))
      BY <1>2, <1>3, <1>4, SizeAssumption, SMT DEF RingTypeOK, Index, Wrap
    <3> QED
      BY <1>4, <1>5, <2>1, <3>1, <3>2
  <2> QED
    BY <1>5, <2>1, <2>2, SeqEqual
<1> QED
  BY <1>6, <1>7 DEF Abs!Next, Abs!Take

\* A reset is a Flush.
LEMMA ResetIsFlush ==
    ASSUME BusReset
    PROVE  Abs!Next
<1>1. Occupancy' = 0
  BY SMT DEF BusReset, Occupancy, Dist
<1>2. Queue' = << >>
  BY <1>1 DEF Queue
<1> QED
  BY <1>2 DEF BusReset, Abs!Next, Abs!Flush

\* The ring implements the bounded queue: between racing resets each
\* interrupt is one Put or Flush of the abstract queue, the store of tail is
\* its Take, and every other access of the main loop changes nothing it shows.
THEOREM RingImplementsQueue == RingSpec => QueueStep
<1>1. RingInv /\ RingInv' /\ [RingNext]_ringVars
        => [raced' \/ raced \/ Abs!Next \/ UNCHANGED <<Queue, out>>]_ringVars
  <2> SUFFICES ASSUME RingInv, RingInv', RingNext, ~raced, ~raced'
               PROVE  Abs!Next \/ UNCHANGED <<Queue, out>>
    OBVIOUS
  <2>1. RingTypeOK /\ RingTypeOK' /\ LoopHolds
    BY DEF RingInv
  <2>2. CASE Receive
    BY <2>1, <2>2, PushIsPut DEF Receive
  <2>3. CASE BusReset
    BY <2>3, ResetIsFlush
  <2>4. CASE Store
    BY <2>1, <2>4, StoreIsTake
  <2>5. CASE Call \/ ReadTail \/ Compare \/ ReadIndex \/ Fetch \/ ReadForIncrement \/ Fed
    <3>1. UNCHANGED <<head, tail, buf, out>>
      BY <2>5 DEF Call, ReadTail, Compare, ReadIndex, Fetch, ReadForIncrement, Fed
    <3> QED
      BY <3>1 DEF Queue, Occupancy
  <2> QED
    BY <2>2, <2>3, <2>4, <2>5 DEF RingNext, Task
<1> QED
  BY <1>1, RingInvariant, PTL DEF RingSpec, QueueStep

\* The ring after the first k bytes of a packet.
After(p, k) == <<Wrap(head + Accepted(k)),
                 [i \in Index |-> IF Dist(head, i) < Accepted(k)
                                  THEN [epoch |-> epoch, byte |-> p[Dist(head, i) + 1]]
                                  ELSE buf[i]]>>

\* One more byte takes it from k to k + 1.
LEMMA OneMoreByte ==
    ASSUME RingTypeOK, NEW p, NEW k \in Nat
    PROVE  PushByte(After(p, k), p[k + 1]) = After(p, k + 1)
<1> DEFINE n == Accepted(k)
           at == Wrap(head + n)
           cells(m) == [i \in Index |-> IF Dist(head, i) < m
                                        THEN [epoch |-> epoch, byte |-> p[Dist(head, i) + 1]]
                                        ELSE buf[i]]
<1>1. n \in Index /\ n <= k /\ Occupancy + n \in Index /\ head \in Index /\ tail \in Index
  BY AcceptedRange DEF RingTypeOK
<1>2. at \in Index /\ Dist(head, at) = n
  BY <1>1, IndexArithmetic
<1>3. After(p, k)[1] = at /\ After(p, k)[2] = cells(n) /\ After(p, k) = <<at, cells(n)>>
  BY DEF After
<1>4. CASE k < Free
  <2>1. n = k /\ Accepted(k + 1) = k + 1 /\ Wrap(at + 1) # tail /\ Wrap(at + 1) = Wrap(head + (k + 1))
    BY <1>1, <1>4, SizeAssumption, SMT DEF Accepted, Free, Occupancy, Wrap, Dist, Index
  <2>2. [cells(n) EXCEPT ![at] = [epoch |-> epoch, byte |-> p[k + 1]]] = cells(k + 1)
    <3>1. ASSUME NEW i \in Index
          PROVE  [cells(n) EXCEPT ![at] = [epoch |-> epoch, byte |-> p[k + 1]]][i] = cells(k + 1)[i]
      <4>1. CASE i = at
        <5>1. Dist(head, i) = k /\ k < k + 1
          BY <1>2, <2>1, <4>1
        <5> QED
          BY <4>1, <5>1
      <4>2. CASE i # at
        <5>1. Dist(head, i) \in Index /\ Wrap(head + Dist(head, i)) = i
          BY <1>1, IndexArithmetic
        <5>3. Dist(head, i) # n
          BY <4>2, <5>1
        <5>2. Dist(head, i) < k + 1 <=> Dist(head, i) < n
          <6>1. Dist(head, i) \in Nat /\ n = k
            BY <2>1, <5>1 DEF Index
          <6> HIDE DEF n
          <6> QED
            BY <5>3, <6>1
        <5> QED
          BY <4>2, <5>2
      <4> QED
        BY <4>1, <4>2
    <3> QED
      BY <3>1
  <2>3. After(p, k + 1) = <<Wrap(at + 1), cells(k + 1)>>
    BY <2>1 DEF After
  <2> HIDE DEF cells, at, n
  <2> QED
    BY <1>3, <2>1, <2>2, <2>3, Zenon DEF PushByte
<1>5. CASE ~(k < Free)
  <2>1. Accepted(k + 1) = n /\ Wrap(at + 1) = tail
    BY <1>1, <1>5, SizeAssumption, SMT DEF Accepted, Free, Occupancy, Wrap, Dist, Index
  <2>2. After(p, k + 1) = After(p, k)
    BY <2>1, Zenon DEF After
  <2> QED
    BY <1>3, <2>1, <2>2, Zenon DEF PushByte
<1> QED
  BY <1>4, <1>5

\* The loop leaves the ring as after all bytes.
LEMMA LoopIs ==
    ASSUME RingTypeOK, NEW n \in Nat, NEW p \in [1..n -> Byte]
    PROVE  FoldLeft(PushByte, <<head, buf>>, p) = After(p, n)
<1> DEFINE iter[t \in SUBSET DOMAIN p] == IF t = {} THEN <<head, buf>>
                                          ELSE LET x == Max(t) IN PushByte(iter[t \ {x}], p[x])
           V == Index \X [Index -> Cell]
           step == [k \in 1..n |-> [x \in V |-> PushByte(x, p[k])]]
<1>1. FoldLeft(PushByte, <<head, buf>>, p) = iter[DOMAIN p]
  BY Zenon DEF FoldLeft, MapThenFoldSet
<1>2. DOMAIN p = 1..n
  OBVIOUS
<1>3. ASSUME NEW x \in V, NEW b \in Byte PROVE PushByte(x, b) \in V
  <2>1. PICK h \in Index, c \in [Index -> Cell] : x = <<h, c>>
    OBVIOUS
  <2>2. x[1] = h /\ x[2] = c
    BY <2>1
  <2>3. Wrap(h + 1) \in Index
    BY SizeAssumption DEF Index, Wrap
  <2>4. [epoch |-> epoch, byte |-> b] \in Cell
    BY EpochAssumption DEF RingTypeOK, Cell
  <2>5. [c EXCEPT ![h] = [epoch |-> epoch, byte |-> b]] \in [Index -> Cell]
    BY <2>4
  <2> QED
    BY <2>2, <2>3, <2>5 DEF PushByte
<1>4. step \in [1..n -> [V -> V]]
  <2>1. \A k \in 1..n : p[k] \in Byte
    OBVIOUS
  <2> HIDE DEF V
  <2> QED
    BY <1>3, <2>1
<1>5. <<head, buf>> \in V
  BY DEF RingTypeOK
<1> HIDE DEF V
<1>6. PICK f \in [SUBSET (1..n) -> V] : Fold(f, SUBSET (1..n), <<head, buf>>, step)
  <2> HIDE DEF step
  <2> QED
    BY <1>4, <1>5, FoldExists
<1>7. ASSUME NEW t \in SUBSET (1..n)
      PROVE  f[t] = IF t = {} THEN <<head, buf>> ELSE LET x == Max(t) IN PushByte(f[t \ {x}], p[x])
  <2>1. CASE t = {}
    BY <1>6, <2>1 DEF Fold
  <2>2. CASE t # {}
    <3>1. Max(t) \in 1..n
      BY <2>2, MaxIn
    <3>2. PICK x \in 1..n : x = Max(t)
      BY <3>1
    <3>3. f[t] = step[x][f[t \ {x}]]
      <4> HIDE DEF step
      <4> QED
        BY <1>6, <2>2, <3>2 DEF Fold
    <3>4. f[t \ {x}] \in V
      BY <1>6
    <3>5. f[t] = PushByte(f[t \ {x}], p[x])
      BY <3>3, <3>4
    <3> QED
      BY <2>2, <3>2, <3>5
  <2> QED
    BY <2>1, <2>2
<1>8. f = [t \in SUBSET DOMAIN p |-> IF t = {} THEN <<head, buf>>
                                     ELSE LET x == Max(t) IN PushByte(f[t \ {x}], p[x])]
  <2>1. f = [t \in SUBSET (1..n) |-> f[t]]
    BY <1>6
  <2> QED
    BY <1>2, <1>7, <2>1
<1>9. iter = [t \in SUBSET DOMAIN p |-> IF t = {} THEN <<head, buf>>
                                        ELSE LET x == Max(t) IN PushByte(iter[t \ {x}], p[x])]
  <2>1. \E h : h = [t \in SUBSET DOMAIN p |-> IF t = {} THEN <<head, buf>>
                                              ELSE LET x == Max(t) IN PushByte(h[t \ {x}], p[x])]
    BY <1>8
  <2> QED
    BY <2>1, Zenon
<1> HIDE DEF iter, step
<1> DEFINE G == {k \in 0..n : iter[1..k] = After(p, k)}
<1>10. 0 \in G
  <2>1. 1..0 = {} /\ {} \in SUBSET DOMAIN p /\ 0 \in 0..n
    OBVIOUS
  <2>2. iter[1..0] = <<head, buf>>
    BY <1>9, <2>1
  <2>3. Accepted(0) = 0 /\ Wrap(head + 0) = head /\ \A i \in Index : ~(Dist(head, i) < 0)
    BY SizeAssumption, SMT DEF RingTypeOK, Accepted, Free, Occupancy, Wrap, Dist, Index
  <2>4. [i \in Index |-> IF Dist(head, i) < 0
                         THEN [epoch |-> epoch, byte |-> p[Dist(head, i) + 1]] ELSE buf[i]] = buf
    BY <2>3 DEF RingTypeOK
  <2>5. After(p, 0) = <<head, buf>>
    BY <2>3, <2>4 DEF After
  <2> QED
    BY <2>1, <2>2, <2>5
<1>11. ASSUME NEW k \in 0..(n - 1), k \in G PROVE k + 1 \in G
  <2>1. PICK m \in 1..n : m = k + 1
    OBVIOUS
  <2>e. m \in Nat \ {0} /\ 1..m \in SUBSET (1..n) /\ m \in 1..m /\ m - 1 = k /\ k \in Nat
    BY <2>1
  <2>2. m \in Nat \ {0} /\ 1..m \in SUBSET DOMAIN p /\ 1..m # {} /\ k \in Nat
    BY <1>2, <2>e
  <2>3. Max(1..m) = m /\ (1..m) \ {m} = 1..k
    BY <2>e, MaxTo
  <2>4. iter[1..m] = PushByte(iter[1..k], p[m])
    BY <1>9, <2>2, <2>3
  <2>5. PushByte(After(p, k), p[k + 1]) = After(p, k + 1)
    BY <2>2, OneMoreByte
  <2>6. iter[1..k] = After(p, k)
    BY <1>11
  <2>7. iter[1..m] = After(p, m)
    BY <2>1, <2>4, <2>5, <2>6
  <2>8. m \in 0..n
    OBVIOUS
  <2> QED
    BY <2>1, <2>7, <2>8
<1>12. 0..n \subseteq G
  <2> HIDE DEF G
  <2> QED
    BY <1>10, <1>11, UpTo
<1>13. n \in 0..n
  OBVIOUS
<1> QED
  BY <1>1, <1>2, <1>12, <1>13

\* cdc_rx_push byte by byte does to the ring what Push does at once: as many
\* bytes stored as there is room for, in the cells after head, and no others.
THEOREM PushIsTheLoopHolds == RingSpec => PushIsTheLoop
<1>1. ASSUME RingTypeOK, NEW p \in Packet, Push(p)
      PROVE  <<head', buf'>> = FoldLeft(PushByte, <<head, buf>>, p)
  <2>1. PICK n \in Nat : p \in [1..n -> Byte] /\ Len(p) = n
    BY PacketAssumption DEF Packet
  <2>2. <<head', buf'>> = After(p, n)
    BY <1>1, <2>1 DEF Push, After
  <2>3. FoldLeft(PushByte, <<head, buf>>, p) = After(p, n)
    BY <1>1, <2>1, LoopIs, Zenon
  <2> QED
    BY <2>2, <2>3, Zenon
<1>2. RingTypeOK /\ [RingNext]_ringVars
        => [\A p \in Packet : Push(p) => <<head', buf'>> = FoldLeft(PushByte, <<head, buf>>, p)]_ringVars
  BY <1>1, Zenon
<1> QED
  BY <1>2, RingTypeCorrect, PTL DEF RingSpec, PushIsTheLoop

-------------------------------------------------------------------------------
(* The pipes to the host, EP3 IN and EP4 IN.                               *)

USE BoundsAssumption

\* While nothing has cut in: the toggle of the packet in the buffer is the one
\* the host expects, and the next packet is not touched before it is taken.
Toggles == calm =>
    /\ avail => busy /\ pid = hostPid /\ next_pid = Flip(hostPid)
                /\ place \notin Arming \union {"guard"}
    /\ latch => busy /\ ~avail /\ place \notin Arming \union {"guard"}
    /\ ~avail /\ place \notin {"disarm", "arm"} => next_pid = hostPid
    /\ place = "pid_flip" => toggle = hostPid
    /\ place \in {"disarm", "arm"} => toggle = hostPid /\ next_pid = Flip(hostPid)
    /\ place \in Arming \ {"claim"} => busy

\* The packets of the message still to send are within the bound.
Room == /\ place \in {"spin", "expire", "guard", "claim", "copy"}
             => chunks >= 1 /\ sent + chunks <= MaxPackets
        /\ place \in {"pid_load", "pid_flip", "disarm", "arm"}
             => chunks >= 1 /\ sent + chunks <= MaxPackets + 1

PipeInv == PipeTypeOK /\ Room /\ Delivered /\ Toggles

\* cdc_send has copied a packet into the buffer and not yet armed it.
Copied == place \in {"pid_load", "pid_flip", "disarm", "arm"}

\* Packets of before the last bus reset: the host has one at most, as its first, and
\* one is in the buffer, or about to be armed, only if the host has nothing yet.
PhantomInv ==
    /\ base <= sent
    /\ \A i \in 1..Len(got) : got[i] > base \/ (i = 1 /\ struck)
    /\ dpram <= base /\ (avail \/ Copied) => struck /\ got = << >>
    /\ dpram <= base /\ Copied => ~avail

\* What steps start from, or fall back to.
LEMMA Zeros == /\ 0 \in Numbers /\ 0 \in 0..MaxChunks /\ 0 \in 0..MaxResets
               /\ << >> \in Seq(Numbers)
  BY EmptySeq DEF Numbers

\* The pipe starts empty.
LEMMA PipeAtInit == PipeInit => PipeInv /\ BusyIsLive
<1> SUFFICES ASSUME PipeInit PROVE PipeInv /\ BusyIsLive
  OBVIOUS
<1>1. PipeTypeOK
  BY Zeros DEF PipeInit, PipeTypeOK, Pc
<1>2. Room /\ Delivered /\ Toggles /\ BusyIsLive
  BY DEF PipeInit, Room, Delivered, Toggles, BusyIsLive
<1> QED
  BY <1>1, <1>2 DEF PipeInv

\* The variables keep their types.
LEMMA PipeTypeStep == PipeTypeOK /\ Room /\ [PipeNext]_pipeVars => PipeTypeOK'
<1> SUFFICES ASSUME PipeTypeOK, Room, [PipeNext]_pipeVars PROVE PipeTypeOK'
  OBVIOUS
<1> USE Zeros DEF PipeTypeOK, Room, Pc, device, main, host, pipeHistory, Return, Flip
<1>1. ASSUME NEW n \in 1..MaxChunks, Send(n) PROVE PipeTypeOK'
  BY <1>1 DEF Send
<1>2. CASE Spin
  BY <1>2 DEF Spin
<1>3. CASE Expire
  BY <1>3 DEF Expire
<1>4. CASE GiveUp
  BY <1>4 DEF GiveUp
<1>5. CASE Guard
  BY <1>5 DEF Guard
<1>6. CASE Claim
  BY <1>6 DEF Claim
<1>7. CASE Copy
  <2>1. sent' \in Numbers /\ dpram' \in Numbers
    BY <1>7 DEF Copy, Numbers
  <2> QED
    BY <1>7, <2>1 DEF Copy
<1>8. CASE PidLoad
  BY <1>8 DEF PidLoad
<1>9. CASE PidFlip
  BY <1>9 DEF PidFlip
<1>10. CASE Disarm
  BY <1>10 DEF Disarm
<1>11. CASE Arm
  <2>1. armed' \in Seq(Numbers)
    BY <1>11, AppendProperties DEF Arm
  <2>2. chunks' \in 0..MaxChunks
    BY <1>11 DEF Arm
  <2> QED
    BY <1>11, <2>1, <2>2 DEF Arm
<1>12. CASE Poll
  <2>1. got' \in Seq(Numbers)
    <3>1. Append(got, dpram) \in Seq(Numbers)
      BY AppendProperties
    <3> QED
      BY <1>12, <3>1 DEF Poll
  <2>2. hostPid' \in {0, 1}
    BY <1>12 DEF Poll
  <2> QED
    BY <1>12, <2>1, <2>2 DEF Poll
<1>13. CASE Complete
  BY <1>13 DEF Complete
<1>14. CASE usb_bus_reset
  <2>1. resets' \in 0..MaxResets
    BY <1>14 DEF usb_bus_reset
  <2> QED
    BY <1>14, <2>1 DEF usb_bus_reset
<1>15. CASE SetConfiguration
  BY <1>15 DEF SetConfiguration
<1>16. CASE ClearHalt
  BY <1>16 DEF ClearHalt
<1>17. CASE LineStateCdc
  BY <1>17 DEF LineStateCdc
<1>18. CASE CloseUart
  BY <1>18 DEF CloseUart
<1>19. CASE UNCHANGED pipeVars
  BY <1>19 DEF pipeVars
<1> QED
  BY <1>1, <1>2, <1>3, <1>4, <1>5, <1>6, <1>7, <1>8, <1>9, <1>10, <1>11, <1>12, <1>13, <1>14, <1>15, <1>16, <1>17, <1>18, <1>19 DEF PipeNext, Main, Interrupt

\* A message stays within the bound.
LEMMA RoomStep == PipeTypeOK /\ Room /\ [PipeNext]_pipeVars => Room'
<1> SUFFICES ASSUME PipeTypeOK, Room, [PipeNext]_pipeVars PROVE Room'
  OBVIOUS
<1> USE DEF PipeTypeOK, Room, Numbers, device, main, host, pipeHistory, Return
<1>1. ASSUME NEW n \in 1..MaxChunks, Send(n) PROVE Room'
  BY <1>1 DEF Send
<1>2. CASE Spin
  BY <1>2 DEF Spin
<1>3. CASE Expire
  BY <1>3 DEF Expire
<1>4. CASE GiveUp
  BY <1>4 DEF GiveUp
<1>5. CASE Guard
  BY <1>5 DEF Guard
<1>6. CASE Claim
  BY <1>6 DEF Claim
<1>7. CASE Copy
  BY <1>7 DEF Copy
<1>8. CASE PidLoad
  BY <1>8 DEF PidLoad
<1>9. CASE PidFlip
  BY <1>9 DEF PidFlip
<1>10. CASE Disarm
  BY <1>10 DEF Disarm
<1>11. CASE Arm
  BY <1>11 DEF Arm
<1>12. CASE Poll
  BY <1>12 DEF Poll
<1>13. CASE Complete
  BY <1>13 DEF Complete
<1>14. CASE usb_bus_reset
  BY <1>14 DEF usb_bus_reset
<1>15. CASE SetConfiguration
  BY <1>15 DEF SetConfiguration
<1>16. CASE ClearHalt
  BY <1>16 DEF ClearHalt
<1>17. CASE LineStateCdc
  BY <1>17 DEF LineStateCdc
<1>18. CASE CloseUart
  BY <1>18 DEF CloseUart
<1>19. CASE UNCHANGED pipeVars
  BY <1>19 DEF pipeVars
<1> QED
  BY <1>1, <1>2, <1>3, <1>4, <1>5, <1>6, <1>7, <1>8, <1>9, <1>10, <1>11, <1>12, <1>13, <1>14, <1>15, <1>16, <1>17, <1>18, <1>19 DEF PipeNext, Main, Interrupt

\* Toggles and buffer stay together.
LEMMA TogglesStep == PipeInv /\ [PipeNext]_pipeVars => Toggles'
<1> SUFFICES ASSUME PipeInv, [PipeNext]_pipeVars PROVE Toggles'
  OBVIOUS
<1> USE DEF PipeInv, PipeTypeOK, Toggles, Pc, Arming, Quiet, device, main, host, pipeHistory, Return, Flip
<1>1. ASSUME NEW n \in 1..MaxChunks, Send(n) PROVE Toggles'
  BY <1>1 DEF Send
<1>2. CASE Spin
  BY <1>2 DEF Spin
<1>3. CASE Expire
  BY <1>3 DEF Expire
<1>4. CASE GiveUp
  BY <1>4 DEF GiveUp
<1>5. CASE Guard
  BY <1>5 DEF Guard
<1>6. CASE Claim
  BY <1>6 DEF Claim
<1>7. CASE Copy
  BY <1>7 DEF Copy
<1>8. CASE PidLoad
  BY <1>8 DEF PidLoad
<1>9. CASE PidFlip
  BY <1>9 DEF PidFlip
<1>10. CASE Disarm
  BY <1>10 DEF Disarm
<1>11. CASE Arm
  BY <1>11 DEF Arm
<1>12. CASE Poll
  BY <1>12 DEF Poll
<1>13. CASE Complete
  BY <1>13 DEF Complete
<1>14. CASE usb_bus_reset
  BY <1>14 DEF usb_bus_reset
<1>15. CASE SetConfiguration
  BY <1>15 DEF SetConfiguration
<1>16. CASE ClearHalt
  BY <1>16 DEF ClearHalt
<1>17. CASE LineStateCdc
  BY <1>17 DEF LineStateCdc
<1>18. CASE CloseUart
  BY <1>18 DEF CloseUart
<1>19. CASE UNCHANGED pipeVars
  BY <1>19 DEF pipeVars
<1> QED
  BY <1>1, <1>2, <1>3, <1>4, <1>5, <1>6, <1>7, <1>8, <1>9, <1>10, <1>11, <1>12, <1>13, <1>14, <1>15, <1>16, <1>17, <1>18, <1>19 DEF PipeNext, Main, Interrupt

\* What has been armed is what has been accepted, and the packet in the buffer.
LEMMA DeliveredStep == PipeInv /\ [PipeNext]_pipeVars => Delivered'
<1> SUFFICES ASSUME PipeInv, [PipeNext]_pipeVars PROVE Delivered'
  OBVIOUS
<1> USE DEF PipeInv, PipeTypeOK, Toggles, Delivered, Arming, Quiet, device, main, host, pipeHistory, Return
<1>1. ASSUME NEW n \in 1..MaxChunks, Send(n) PROVE Delivered'
  BY <1>1 DEF Send
<1>2. CASE Spin
  BY <1>2 DEF Spin
<1>3. CASE Expire
  BY <1>3 DEF Expire
<1>4. CASE GiveUp
  BY <1>4 DEF GiveUp
<1>5. CASE Guard
  BY <1>5 DEF Guard
<1>6. CASE Claim
  BY <1>6 DEF Claim
<1>7. CASE Copy
  BY <1>7 DEF Copy
<1>8. CASE PidLoad
  BY <1>8 DEF PidLoad
<1>9. CASE PidFlip
  BY <1>9 DEF PidFlip
<1>10. CASE Disarm
  BY <1>10 DEF Disarm
<1>11. CASE Arm
  BY <1>11 DEF Arm
<1>12. CASE Poll
  <2>1. Append(got, dpram) = got \o <<dpram>> /\ got \o << >> = got
    BY AppendIsConcat, ConcatEmptySeq
  <2>2. calm' => calm /\ pid = hostPid /\ avail
    BY <1>12 DEF Poll
  <2>3. calm' => armed = got \o <<dpram>>
    BY <2>2
  <2>4. calm' => armed' = armed /\ got' = Append(got, dpram) /\ ~avail'
    BY <1>12, <2>2 DEF Poll
  <2>5. Append(got, dpram) \o << >> = Append(got, dpram)
    BY AppendProperties, ConcatEmptySeq
  <2> QED
    BY <2>1, <2>3, <2>4, <2>5
<1>13. CASE Complete
  BY <1>13 DEF Complete
<1>14. CASE usb_bus_reset
  BY <1>14 DEF usb_bus_reset
<1>15. CASE SetConfiguration
  BY <1>15 DEF SetConfiguration
<1>16. CASE ClearHalt
  BY <1>16 DEF ClearHalt
<1>17. CASE LineStateCdc
  BY <1>17 DEF LineStateCdc
<1>18. CASE CloseUart
  BY <1>18 DEF CloseUart
<1>19. CASE UNCHANGED pipeVars
  BY <1>19 DEF pipeVars
<1> QED
  BY <1>1, <1>2, <1>3, <1>4, <1>5, <1>6, <1>7, <1>8, <1>9, <1>10, <1>11, <1>12, <1>13, <1>14, <1>15, <1>16, <1>17, <1>18, <1>19 DEF PipeNext, Main, Interrupt

\* The flag is set only while something will clear it.
LEMMA BusyStep == BusyIsLive /\ PipeTypeOK /\ [PipeNext]_pipeVars => BusyIsLive'
<1> SUFFICES ASSUME BusyIsLive, PipeTypeOK, [PipeNext]_pipeVars PROVE BusyIsLive'
  OBVIOUS
<1> USE DEF BusyIsLive, PipeTypeOK, Arming, device, main, host, pipeHistory, Return
<1>1. ASSUME NEW n \in 1..MaxChunks, Send(n) PROVE BusyIsLive'
  BY <1>1 DEF Send
<1>2. CASE Spin
  BY <1>2 DEF Spin
<1>3. CASE Expire
  BY <1>3 DEF Expire
<1>4. CASE GiveUp
  BY <1>4 DEF GiveUp
<1>5. CASE Guard
  BY <1>5 DEF Guard
<1>6. CASE Claim
  BY <1>6 DEF Claim
<1>7. CASE Copy
  BY <1>7 DEF Copy
<1>8. CASE PidLoad
  BY <1>8 DEF PidLoad
<1>9. CASE PidFlip
  BY <1>9 DEF PidFlip
<1>10. CASE Disarm
  BY <1>10 DEF Disarm
<1>11. CASE Arm
  BY <1>11 DEF Arm
<1>12. CASE Poll
  BY <1>12 DEF Poll
<1>13. CASE Complete
  BY <1>13 DEF Complete
<1>14. CASE usb_bus_reset
  BY <1>14 DEF usb_bus_reset
<1>15. CASE SetConfiguration
  BY <1>15 DEF SetConfiguration
<1>16. CASE ClearHalt
  BY <1>16 DEF ClearHalt
<1>17. CASE LineStateCdc
  BY <1>17 DEF LineStateCdc
<1>18. CASE CloseUart
  BY <1>18 DEF CloseUart
<1>19. CASE UNCHANGED pipeVars
  BY <1>19 DEF pipeVars
<1> QED
  BY <1>1, <1>2, <1>3, <1>4, <1>5, <1>6, <1>7, <1>8, <1>9, <1>10, <1>11, <1>12, <1>13, <1>14, <1>15, <1>16, <1>17, <1>18, <1>19 DEF PipeNext, Main, Interrupt

\* Packets of before a bus reset stay where PhantomInv has them.
LEMMA PhantomStep == PipeTypeOK /\ PhantomInv /\ [PipeNext]_pipeVars => PhantomInv'
<1> SUFFICES ASSUME PipeTypeOK, PhantomInv, [PipeNext]_pipeVars PROVE PhantomInv'
  OBVIOUS
<1> USE DEF PipeTypeOK, PhantomInv, Copied, Arming, Numbers, device, main, host, pipeHistory, Return
<1>1. ASSUME NEW n \in 1..MaxChunks, Send(n) PROVE PhantomInv'
  BY <1>1 DEF Send
<1>2. CASE Spin
  BY <1>2 DEF Spin
<1>3. CASE Expire
  BY <1>3 DEF Expire
<1>4. CASE GiveUp
  BY <1>4 DEF GiveUp
<1>5. CASE Guard
  BY <1>5 DEF Guard
<1>6. CASE Claim
  BY <1>6 DEF Claim
<1>7. CASE Copy
  BY <1>7 DEF Copy
<1>8. CASE PidLoad
  BY <1>8 DEF PidLoad
<1>9. CASE PidFlip
  BY <1>9 DEF PidFlip
<1>10. CASE Disarm
  BY <1>10 DEF Disarm
<1>11. CASE Arm
  BY <1>11 DEF Arm
<1>12. CASE Poll
  <2>1. CASE pid = hostPid
    <3>1. got' = Append(got, dpram) /\ base' = base /\ struck' = struck
      BY <1>12, <2>1 DEF Poll
    <3>2. /\ Len(got') = Len(got) + 1 /\ got'[Len(got) + 1] = dpram
          /\ \A i \in 1..Len(got) : got'[i] = got[i]
      BY <3>1, AppendProperties
    <3>3. dpram > base \/ (got = << >> /\ struck)
      BY <1>12 DEF Poll
    <3>4. Len(got) \in Nat /\ (got = << >> => Len(got) = 0)
      BY LenProperties, EmptySeq
    <3>5. \A i \in 1..Len(got') : got'[i] > base' \/ (i = 1 /\ struck')
      BY <3>1, <3>2, <3>3, <3>4
    <3> QED
      BY <1>12, <3>5 DEF Poll
  <2>2. CASE pid # hostPid
    BY <1>12, <2>2 DEF Poll
  <2> QED
    BY <2>1, <2>2
<1>13. CASE Complete
  BY <1>13 DEF Complete
<1>14. CASE usb_bus_reset
  <2>1. got' = << >> /\ Len(got') = 0
    BY <1>14, EmptySeq DEF usb_bus_reset
  <2>2. Copied' => struck'
    BY <1>14 DEF usb_bus_reset
  <2>3. base' = sent /\ sent' = sent /\ sent \in Nat
    BY <1>14 DEF usb_bus_reset
  <2>4. avail' = FALSE
    BY <1>14 DEF usb_bus_reset
  <2>5. base' <= sent'
    BY <2>3
  <2> HIDE DEF Copied, PipeTypeOK
  <2> QED
    BY <2>1, <2>2, <2>4, <2>5
<1>15. CASE SetConfiguration
  <2>1. got' = << >> /\ Len(got') = 0
    BY <1>15, EmptySeq DEF SetConfiguration
  <2> QED
    BY <1>15, <2>1 DEF SetConfiguration
<1>16. CASE ClearHalt
  BY <1>16 DEF ClearHalt
<1>17. CASE LineStateCdc
  BY <1>17 DEF LineStateCdc
<1>18. CASE CloseUart
  BY <1>18 DEF CloseUart
<1>19. CASE UNCHANGED pipeVars
  BY <1>19 DEF pipeVars
<1> QED
  BY <1>1, <1>2, <1>3, <1>4, <1>5, <1>6, <1>7, <1>8, <1>9, <1>10, <1>11, <1>12, <1>13, <1>14, <1>15, <1>16, <1>17, <1>18, <1>19 DEF PipeNext, Main, Interrupt

\* The variables of either pipe keep their types.
THEOREM PipeTypeCorrect == PipeSpec => []PipeTypeOK
<1>1. PipeInit => PipeTypeOK /\ Room
  BY PipeAtInit DEF PipeInv
<1> QED
  BY <1>1, PipeTypeStep, RoomStep, PTL DEF PipeSpec

\* cdc_send and uart_cdc_send never wait for a flag that nothing will clear: when it is
\* set the host can take a packet, or a completion is to be served.
THEOREM BusyIsLiveHolds == PipeSpec => []BusyIsLive
  BY PipeAtInit, BusyStep, PipeTypeCorrect, PTL DEF PipeSpec

\* Until something cuts into a transfer the host has every packet once and in order.
THEOREM DeliveredHolds == PipeSpec => []Delivered
<1>1. PipeSpec => []PipeInv
  <2>1. PipeInv /\ [PipeNext]_pipeVars => PipeInv'
    BY PipeTypeStep, RoomStep, TogglesStep, DeliveredStep DEF PipeInv
  <2> QED
    BY <2>1, PipeAtInit, PTL DEF PipeSpec
<1>2. PipeInv => Delivered
  BY DEF PipeInv
<1> QED
  BY <1>1, <1>2, PTL

\* A packet of before a bus reset reaches the host after it only if the reset struck
\* between the test of configured and the arming, and then as the first packet alone.
THEOREM PhantomsHold == PipeSpec => []Phantoms
<1>1. PipeInit => PhantomInv
  BY EmptySeq DEF PipeInit, PhantomInv, Copied
<1>2. PipeSpec => []PhantomInv
  BY <1>1, PhantomStep, PipeTypeCorrect, PTL DEF PipeSpec
<1>3. PipeTypeOK /\ PhantomInv => Phantoms
  BY LenProperties DEF PipeTypeOK, PhantomInv, Phantoms, Numbers
<1> QED
  BY <1>2, <1>3, PipeTypeCorrect, PTL
===============================================================================
