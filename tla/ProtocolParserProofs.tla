------------------------- MODULE ProtocolParserProofs -------------------------
(***************************************************************************)
(* For every radix, payload size, checksum and timeout, whatever           *)
(* protocol_reset does in between: protocol_feed writes inside s_payload.  *)
(* The invariant follows one byte through the switch: what state promises  *)
(* before it, what its case relies on, what it leaves behind.              *)
(*                                                                         *)
(* And the parser implements FrameRecogniser while no reset has struck it  *)
(* in the middle of a byte: every statement is a step of the recogniser or *)
(* changes nothing it shows.  FrameInv adds to ParserInv what the          *)
(* variables say of the bytes received.                                    *)
(***************************************************************************)
EXTENDS ProtocolParser, SequenceTheorems, TLAPS

USE RadixAssumption, StartAssumption, PayloadAssumption, TimeAssumption

\* A length is made of two bytes.
LEMMA TwoBytes ==
    /\ Byte \subseteq Nat /\ Lengths \subseteq Nat /\ 0 \in Byte /\ 0 \in Lengths
    /\ \A b \in Byte : b \in Lengths
    /\ \A n \in Nat, b \in Byte : (n % Radix) + Radix * b \in Lengths
<1> USE DEF Byte, Lengths
<1>1. Radix <= Radix * Radix
  BY SMT
<1>2. ASSUME NEW n \in Nat, NEW b \in Byte
      PROVE  (n % Radix) + Radix * b \in Lengths
  <2>1. n % Radix \in 0..(Radix - 1)
    BY SMT
  <2>2. Radix * b <= Radix * (Radix - 1)
    BY <1>2, SMT
  <2>3. Radix * (Radix - 1) = Radix * Radix - Radix
    BY SMT
  <2>4. Radix * b \in Nat
    BY <1>2, SMT
  <2>5. Radix * Radix \in Nat
    BY SMT
  <2> QED
    BY <2>1, <2>2, <2>3, <2>4, <2>5, SMT
<1> QED
  BY <1>1, <1>2, SMT

\* The checksum of a byte is a byte.
LEMMA CrcByte == \A s, b \in Byte : Crc[<<s, b>>] \in Byte
  BY CrcAssumption

\* The payload handed to dispatch() is bytes from s_payload.
LEMMA ReceivedFrame ==
    ASSUME TypeOK, len <= MaxPayload
    PROVE  [kind |-> "frame", frame |-> Received] \in Verdict
<1>1. len \in Nat /\ cmd \in Byte
  BY TwoBytes DEF TypeOK
<1>2. \A i \in 1..len : payload[i - 1] \in Byte
  BY <1>1 DEF TypeOK, Payload
<1>3. [i \in 1..len |-> payload[i - 1]] \in Seq(Byte)
  BY <1>1, <1>2
<1> QED
  BY <1>1, <1>3 DEF Received, Verdict

\* The states a byte can lead to.
LEMMA NextState ==
    ASSUME TypeOK, Places, SetState
    PROVE  /\ state' \in States \ {"start"}
           /\ state' = "payload" => branch = "len_hi" /\ \E l \in {r, len} : l # 0
           /\ state' = "crc" => branch \in {"len_hi", "payload"}
<1>1. branch \in {"start", "cmd", "len_lo", "len_hi", "payload"}
  BY DEF TypeOK, States, Places, SetState
<1>2. state' \in Following
  BY DEF SetState
<1>3. CASE branch = "len_hi"
  <2>1. state' \in {IF l = 0 THEN "crc" ELSE "payload" : l \in {r, len}}
    BY <1>2, <1>3 DEF Following
  <2> QED
    BY <1>3, <2>1 DEF States
<1>4. CASE branch # "len_hi"
  BY <1>1, <1>2, <1>4 DEF Following, States
<1> QED
  BY <1>3, <1>4

\* The parser starts at rest.
LEMMA ParserAtInit == Init => ParserInv
<1> SUFFICES ASSUME Init PROVE ParserInv
  OBVIOUS
<1>1. TypeOK
  BY TwoBytes DEF Init, TypeOK, States, Pc, Payload, Verdict
<1>2. Places /\ Promise /\ LengthCase /\ PayloadCase
  BY DEF Init, Places, Promise, Fits, Between, Loaded, LengthCase, PayloadCase
<1> QED
  BY <1>1, <1>2 DEF ParserInv

\* The registers and variables keep their types.
LEMMA ParserTypeStep == ParserInv /\ [Next]_vars => TypeOK'
<1> SUFFICES ASSUME ParserInv, [Next]_vars PROVE TypeOK'
  OBVIOUS
<1> USE TwoBytes DEF ParserInv, TypeOK, parser, locals, Goto, Return, In, States, Pc
<1>1. CASE Tick
  BY <1>1 DEF Tick
<1>2. CASE Reset
  BY <1>2 DEF Reset, Strikes
<1>3. ASSUME NEW b \in Byte, Feed(b) PROVE TypeOK'
  BY <1>3 DEF Feed
<1>4. CASE Check
  BY <1>4 DEF Check
<1>26. CASE Judge
  BY <1>26 DEF Judge, Stalled
<1>5. CASE Stamp
  BY <1>5 DEF Stamp
<1>6. CASE Switch
  BY <1>6 DEF Switch
<1>7. CASE WaitStart
  <2>1. crc' \in Byte
    BY <1>7, CrcByte DEF WaitStart
  <2> QED
    BY <1>7, <2>1 DEF WaitStart
<1>8. CASE WaitCmd
  BY <1>8 DEF WaitCmd
<1>9. CASE WaitLenLo
  BY <1>9 DEF WaitLenLo
<1>10. CASE LoadLen
  BY <1>10 DEF LoadLen
<1>11. CASE StoreLen
  BY <1>11 DEF StoreLen
<1>12. CASE LoadRecv
  BY <1>12 DEF LoadRecv
<1>13. CASE StorePayload
  <2>1. payload' \in Payload
    BY <1>13 DEF StorePayload, Payload
  <2> QED
    BY <1>13, <2>1 DEF StorePayload
<1>14. CASE CrcLoad
  BY <1>14 DEF CrcLoad
<1>15. CASE CrcStore
  <2>1. crc' \in Byte
    BY <1>15, CrcByte DEF CrcStore
  <2>2. pc' \in {"test", "count", "state"}
    BY <1>15 DEF CrcStore
  <2> QED
    BY <1>15, <2>1, <2>2 DEF CrcStore
<1>16. CASE TestLen
  BY <1>16 DEF TestLen
<1>17. CASE SendError
  <2>1. verdict' \in Verdict
    BY <1>17 DEF SendError, Verdict
  <2> QED
    BY <1>17, <2>1 DEF SendError
<1>18. CASE ClearRecv
  BY <1>18 DEF ClearRecv
<1>19. CASE CountByte
  <2>1. branch = "payload" /\ r < MaxPayload /\ recv <= r
    BY <1>19 DEF CountByte, Places, PayloadCase
  <2>2. recv' \in 0..MaxPayload
    BY <1>19, <2>1 DEF CountByte
  <2> QED
    BY <1>19, <2>2 DEF CountByte
<1>20. CASE TestFull
  BY <1>20 DEF TestFull
<1>21. CASE RecvCrc
  <2>1. len <= MaxPayload
    BY <1>21 DEF RecvCrc, Promise, Fits
  <2>2. verdict' \in Verdict
    BY <1>21, <2>1, ReceivedFrame DEF RecvCrc
  <2> QED
    BY <1>21, <2>2 DEF RecvCrc
<1>22. CASE Handled
  BY <1>22 DEF Handled
<1>23. CASE SetState
  <2>1. state' \in States
    BY <1>23, NextState
  <2> QED
    BY <1>23, <2>1 DEF SetState
<1>24. CASE Restart
  <2>1. verdict' \in Verdict
    BY <1>24 DEF Restart, Verdict
  <2> QED
    BY <1>24, <2>1 DEF Restart
<1>25. CASE UNCHANGED vars
  BY <1>25 DEF vars
<1> QED
  BY <1>1, <1>2, <1>3, <1>4, <1>5, <1>6, <1>7, <1>8, <1>9, <1>10, <1>11, <1>12, <1>13, <1>14, <1>15, <1>16, <1>17, <1>18, <1>19, <1>20, <1>21, <1>22, <1>23, <1>24, <1>25, <1>26 DEF Next, Step

\* Each statement leaves to the next what that one relies on.
LEMMA ParserPromiseStep ==
    ParserInv /\ [Next]_vars => (Places /\ Promise /\ LengthCase /\ PayloadCase)'
<1> DEFINE Kept == Places /\ Promise /\ LengthCase /\ PayloadCase
<1> SUFFICES ASSUME ParserInv, [Next]_vars PROVE Kept'
  OBVIOUS
<1> USE TwoBytes DEF ParserInv, TypeOK, Places, Promise, Fits, Between, Loaded, LengthCase, PayloadCase,
                     parser, locals, Goto, Return, In, States, Pc
<1>1. CASE Tick
  BY <1>1 DEF Tick
<1>2. CASE Reset
  BY <1>2 DEF Reset, Strikes
<1>3. ASSUME NEW b \in Byte, Feed(b) PROVE Kept'
  BY <1>3 DEF Feed
<1>4. CASE Check
  BY <1>4 DEF Check
<1>26. CASE Judge
  BY <1>26 DEF Judge, Stalled
<1>5. CASE Stamp
  BY <1>5 DEF Stamp
<1>6. CASE Switch
  BY <1>6 DEF Switch
<1>7. CASE WaitStart
  BY <1>7 DEF WaitStart
<1>8. CASE WaitCmd
  BY <1>8 DEF WaitCmd
<1>9. CASE WaitLenLo
  BY <1>9 DEF WaitLenLo
<1>10. CASE LoadLen
  BY <1>10 DEF LoadLen
<1>11. CASE StoreLen
  BY <1>11 DEF StoreLen
<1>12. CASE LoadRecv
  BY <1>12 DEF LoadRecv
<1>13. CASE StorePayload
  BY <1>13 DEF StorePayload
<1>14. CASE CrcLoad
  BY <1>14 DEF CrcLoad
<1>15. CASE CrcStore
  BY <1>15 DEF CrcStore
<1>16. CASE TestLen
  BY <1>16 DEF TestLen
<1>17. CASE SendError
  BY <1>17 DEF SendError
<1>18. CASE ClearRecv
  BY <1>18 DEF ClearRecv
<1>19. CASE CountByte
  BY <1>19 DEF CountByte
<1>20. CASE TestFull
  BY <1>20 DEF TestFull
<1>21. CASE RecvCrc
  BY <1>21 DEF RecvCrc
<1>22. CASE Handled
  BY <1>22 DEF Handled
<1>23. CASE SetState
  <2>1. /\ state' # "start"
        /\ state' = "payload" => branch = "len_hi" /\ (r # 0 \/ len # 0)
        /\ state' = "crc" => branch \in {"len_hi", "payload"}
    BY <1>23, NextState
  <2> QED
    BY <1>23, <2>1 DEF SetState
<1>24. CASE Restart
  BY <1>24 DEF Restart
<1>25. CASE UNCHANGED vars
  BY <1>25 DEF vars
<1> QED
  BY <1>1, <1>2, <1>3, <1>4, <1>5, <1>6, <1>7, <1>8, <1>9, <1>10, <1>11, <1>12, <1>13, <1>14, <1>15, <1>16, <1>17, <1>18, <1>19, <1>20, <1>21, <1>22, <1>23, <1>24, <1>25, <1>26 DEF Next, Step

\* ParserInv holds of every behaviour: protocol_feed and protocol_reset keep, each at
\* every moment, what the other relies on.
THEOREM ParserInvariant == Spec => []ParserInv
<1>1. ParserInv /\ [Next]_vars => ParserInv'
  BY ParserTypeStep, ParserPromiseStep DEF ParserInv
<1> QED
  BY <1>1, ParserAtInit, PTL DEF Spec

\* The variables of the parser keep their types: s_recv never passes MAX_PAYLOAD, and
\* what is handed to dispatch() is a frame.
THEOREM ParserTypeCorrect == Spec => []TypeOK
<1>1. ParserInv => TypeOK
  BY DEF ParserInv
<1> QED
  BY <1>1, ParserInvariant, PTL

\* Whatever the resets, a byte of the payload is written inside s_payload.
THEOREM WritesInBounds == Spec => []PayloadInBounds
<1>1. ParserInv => PayloadInBounds
  BY DEF ParserInv, PayloadCase, PayloadInBounds, In
<1> QED
  BY <1>1, ParserInvariant, PTL

\* While no reset has left the parser out of step, a byte of the payload arrives
\* only when the announced length, which fits, leaves room for it.
THEOREM RoomWhenReceiving == Spec => []RoomForByte
<1>1. ParserInv => RoomForByte
  BY DEF ParserInv, Promise, Fits, RoomForByte, In
<1> QED
  BY <1>1, ParserInvariant, PTL

\* A reset that struck has left no time stamp, and the next byte has not set one yet.
StampCleared == race = "struck" => last = 0 /\ pc # "stamp"

\* Until the next byte comes, nothing sets the time stamp a reset has cleared.
LEMMA StampStaysCleared == Spec => []StampCleared
<1>1. Init => StampCleared
  BY DEF Init, StampCleared
<1>2. StampCleared /\ [Next]_vars => StampCleared'
  BY SMT DEF StampCleared, Next, Step, vars, parser, locals, Goto, Return, In, Tick, Reset, Strikes,
             Feed, Check, Judge, Stamp, Switch, WaitStart, WaitCmd, WaitLenLo, LoadLen, StoreLen, LoadRecv,
             StorePayload, CrcLoad, CrcStore, TestLen, SendError, ClearRecv, CountByte, TestFull,
             RecvCrc, Handled, SetState, Restart
<1> QED
  BY <1>1, <1>2, PTL DEF Spec

\* Once the device has been up longer than the timeout, the byte after a reset that
\* struck restarts the parser, whatever state the struck byte left.
THEOREM RaceHealsHolds == Spec => RaceHeals
<1>1. ParserInv /\ StampCleared /\ [Next]_vars
        => [Judge /\ race = "struck" /\ t > Timeout => state' = "start" /\ branch' = "start"]_vars
  <2> SUFFICES ASSUME ParserInv, StampCleared, Judge, race = "struck", t > Timeout
               PROVE  state' = "start" /\ branch' = "start"
    OBVIOUS
  <2>1. t \in Nat /\ last = 0
    BY DEF ParserInv, TypeOK, StampCleared
  <2>2. branch # "start" => Stalled
    BY <2>1, SMT DEF Stalled
  <2>3. branch = "start" => state = "start"
    BY DEF ParserInv, Places, Loaded, Judge
  <2> QED
    BY <2>2, <2>3 DEF Judge
<1> QED
  BY <1>1, ParserInvariant, StampStaysCleared, PTL DEF Spec, RaceHeals

---------------------------------------------------------------------------
(* The recogniser                                                          *)

\* s_len holds its first byte only.
LengthLow == /\ Between /\ state = "len_hi" => len < Radix
             /\ branch = "len_hi" /\ pc = "body" => len < Radix
             /\ branch = "len_hi" /\ pc = "put" => len < Radix /\ r = len
             /\ branch = "len_lo" /\ pc = "state" => len < Radix

\* The byte in hand has been stored, and is in the checksum last.
InHand == /\ pc \in {"crc_load", "crc_store"} =>
               /\ branch = "cmd" => cmd = byte
               /\ branch = "len_lo" => len = byte
               /\ branch = "len_hi" => len \div Radix = byte
               /\ branch = "payload" => payload[recv] = byte
          /\ pc = "crc_store" => c = crc
          /\ pc = "count" => payload[recv] = byte

\* The frame is refused for its length, its checksum is due after its last byte.
AllTaken == /\ pc = "error" => len > MaxPayload
            /\ pc = "full" => recv <= len
            /\ pc = "state" /\ branch = "payload" => recv = len
            /\ Between /\ state = "crc" => recv = len
            /\ pc = "body" /\ branch = "crc" => recv = len

\* What ParserInv leaves open, as long as no reset has come between.
FrameInv == race = "none" => /\ Loaded => state = branch
                             /\ LengthLow /\ InHand /\ AllTaken

\* A length, taken apart into bytes and put together again.
LEMMA LengthBytes ==
    /\ \A n \in Byte : n % Radix = n
    /\ \A n \in Nat : n % Radix \in Byte /\ n \div Radix \in Nat
    /\ \A n \in Nat : (n % Radix) + Radix * (n \div Radix) = n
    /\ \A n, b \in Byte : /\ (n + Radix * b) % Radix = n
                          /\ (n + Radix * b) \div Radix = b
<1> USE DEF Byte
<1>1. \A n \in Byte : n % Radix = n
  BY SMT
<1>2. \A n \in Nat : n % Radix \in Byte /\ n \div Radix \in Nat
  BY SMT
<1>3. \A n \in Nat : (n % Radix) + Radix * (n \div Radix) = n
  BY SMT
<1>4. ASSUME NEW n \in Byte, NEW b \in Byte
      PROVE  (n + Radix * b) % Radix = n /\ (n + Radix * b) \div Radix = b
  <2> DEFINE m == n + Radix * b
  <2>1. m \in Nat
    BY SMT
  <2>2. (m % Radix) + Radix * (m \div Radix) = m /\ m % Radix \in 0..(Radix - 1)
    BY <2>1, <1>3, SMT
  <2> QED
    BY <2>1, <2>2, SMT
<1> QED
  BY <1>1, <1>2, <1>3, <1>4

\* Nothing has been received at the start.
LEMMA FrameAtInit == Init => FrameInv
  BY DEF Init, FrameInv, LengthLow, InHand, AllTaken, Between, Loaded

\* Every statement keeps what the variables say of the bytes received.
LEMMA FrameStep == ParserInv /\ FrameInv /\ [Next]_vars => FrameInv'
<1> SUFFICES ASSUME ParserInv, FrameInv, [Next]_vars PROVE FrameInv'
  OBVIOUS
<1> USE TwoBytes DEF ParserInv, TypeOK, Places, LengthCase, PayloadCase, FrameInv, LengthLow,
                     InHand, AllTaken, Between, Loaded, parser, locals, Goto, Return, In, States, Pc
<1>1. CASE Tick
  BY <1>1 DEF Tick
<1>2. CASE Reset
  BY <1>2 DEF Reset, Strikes
<1>3. ASSUME NEW b \in Byte, Feed(b) PROVE FrameInv'
  BY <1>3 DEF Feed
<1>4. CASE Check
  BY <1>4 DEF Check
<1>26. CASE Judge
  BY <1>26 DEF Judge, Stalled
<1>5. CASE Stamp
  BY <1>5 DEF Stamp
<1>6. CASE Switch
  BY <1>6 DEF Switch
<1>7. CASE WaitStart
  BY <1>7 DEF WaitStart
<1>8. CASE WaitCmd
  BY <1>8 DEF WaitCmd
<1>9. CASE WaitLenLo
  BY <1>9 DEF WaitLenLo
<1>10. CASE LoadLen
  BY <1>10 DEF LoadLen
<1>11. CASE StoreLen
  <2>1. race = "none" => len' \div Radix = byte
    <3>1. r \in Nat /\ r % Radix \in Byte
      BY LengthBytes
    <3> QED
      BY <1>11, <3>1, LengthBytes DEF StoreLen
  <2> HIDE DEF Byte
  <2> QED
    BY <1>11, <2>1 DEF StoreLen
<1>12. CASE LoadRecv
  BY <1>12 DEF LoadRecv
<1>13. CASE StorePayload
  <2>1. race = "none" => recv = r /\ r \in 0..(MaxPayload - 1)
    BY <1>13 DEF StorePayload
  <2>2. race = "none" => payload'[recv] = byte
    BY <1>13, <2>1 DEF StorePayload, Payload
  <2> QED
    BY <1>13, <2>2 DEF StorePayload
<1>14. CASE CrcLoad
  BY <1>14 DEF CrcLoad
<1>15. CASE CrcStore
  <2>1. pc' = IF branch = "len_hi" THEN "test" ELSE IF branch = "payload" THEN "count" ELSE "state"
    BY <1>15 DEF CrcStore
  <2>2. len \in Nat /\ \A b \in Byte : b < Radix
    BY DEF Byte
  <2> QED
    BY <1>15, <2>1, <2>2 DEF CrcStore
<1>16. CASE TestLen
  BY <1>16 DEF TestLen
<1>17. CASE SendError
  BY <1>17 DEF SendError
<1>18. CASE ClearRecv
  BY <1>18 DEF ClearRecv
<1>19. CASE CountByte
  BY <1>19 DEF CountByte
<1>20. CASE TestFull
  <2> SUFFICES ASSUME race = "none" PROVE FrameInv'
    BY <1>20 DEF TestFull
  <2>1. recv = r + 1 /\ recv <= len /\ branch = "payload" /\ state = "payload"
    BY <1>20 DEF TestFull
  <2>2. recv \in Nat /\ len \in Nat
    OBVIOUS
  <2>3. CASE pc' = "state"
    <3>1. recv >= len /\ UNCHANGED <<state, len, recv, branch>>
      BY <1>20, <2>1, <2>3 DEF TestFull
    <3> QED
      BY <2>1, <2>2, <2>3, <3>1
  <2>4. CASE pc' = "idle"
    <3>1. UNCHANGED <<state, len, recv>>
      BY <1>20 DEF TestFull
    <3> QED
      BY <2>1, <2>4, <3>1
  <2> QED
    BY <1>20, <2>3, <2>4 DEF TestFull
<1>21. CASE RecvCrc
  BY <1>21 DEF RecvCrc
<1>22. CASE Handled
  BY <1>22 DEF Handled
<1>23. CASE SetState
  <2>1. CASE branch = "len_hi"
    <3>1. race = "none" => /\ state' = IF len = 0 THEN "crc" ELSE "payload"
                           /\ recv = 0
      BY <1>23, <2>1 DEF SetState, Following
    <3> QED
      BY <1>23, <2>1, <3>1 DEF SetState
  <2>2. CASE branch # "len_hi"
    <3>1. branch \in {"start", "cmd", "len_lo", "payload"}
      BY <1>23, <2>2 DEF SetState
    <3>2. state' = CASE branch = "start" -> "cmd"
                     [] branch = "cmd" -> "len_lo"
                     [] branch = "len_lo" -> "len_hi"
                     [] branch = "payload" -> "crc"
      BY <1>23, <3>1 DEF SetState, Following
    <3> QED
      BY <1>23, <2>2, <3>1, <3>2 DEF SetState
  <2> QED
    BY <2>1, <2>2
<1>24. CASE Restart
  BY <1>24 DEF Restart
<1>25. CASE UNCHANGED vars
  BY <1>25 DEF vars
<1> QED
  BY <1>1, <1>2, <1>3, <1>4, <1>5, <1>6, <1>7, <1>8, <1>9, <1>10, <1>11, <1>12, <1>13, <1>14, <1>15, <1>16, <1>17, <1>18, <1>19, <1>20, <1>21, <1>22, <1>23, <1>24, <1>25, <1>26 DEF Next, Step

\* The frame in progress is a sequence of numbers, as long as what has been taken of it.
Shape == /\ Taken \in Nat
         /\ \A i \in 1..Taken : ByteAt(i) \in Nat
         /\ Pending \in Seq(Nat)
         /\ Len(Pending) = Taken
         /\ \A i \in 1..Taken : Pending[i] = ByteAt(i)

LEMMA PendingShape == ParserInv => Shape
<1> SUFFICES ASSUME ParserInv PROVE Shape
  OBVIOUS
<1>1. Taken \in Nat /\ Taken <= 4 + MaxPayload
  BY DEF ParserInv, TypeOK, Taken, Places, PayloadCase, States
<1>2. \A i \in 1..Taken : ByteAt(i) \in Nat
  <2>1. \A j \in 0..(MaxPayload - 1) : payload[j] \in Nat
    BY TwoBytes DEF ParserInv, TypeOK, Payload
  <2>2. cmd \in Nat /\ len \in Nat /\ Start \in Nat
    BY TwoBytes DEF ParserInv, TypeOK
  <2>3. len % Radix \in Nat /\ len \div Radix \in Nat
    BY <2>2, LengthBytes, TwoBytes
  <2> QED
    BY <1>1, <2>1, <2>2, <2>3 DEF ByteAt
<1> QED
  BY <1>1, <1>2, IsASeq, LenProperties DEF Pending, Shape

\* Nothing is shown of a step that takes no byte and leaves those taken alone.
LEMMA PendingSame ==
    ASSUME Taken' = Taken, \A i \in 1..Taken : ByteAt(i)' = ByteAt(i)
    PROVE  Pending' = Pending
  BY DEF Pending

\* A byte is taken at the end of the frame in progress.
LEMMA PendingGrows ==
    ASSUME ParserInv, ParserInv', Taken' = Taken + 1, NEW b \in Nat,
           \A i \in 1..Taken' : ByteAt(i)' = IF i <= Taken THEN ByteAt(i) ELSE b
    PROVE  Pending' = Append(Pending, b)
<1>1. Shape /\ Shape'
  BY PendingShape, PTL
<1> DEFINE p == Append(Pending, b)
<1>2. p \in Seq(Nat) /\ Len(p) = Taken + 1
  BY <1>1, AppendProperties DEF Shape
<1>3. \A i \in 1..(Taken + 1) : p[i] = IF i <= Taken THEN ByteAt(i) ELSE b
  BY <1>1, AppendProperties DEF Shape
<1>4. \A i \in 1..(Taken + 1) : Pending'[i] = p[i]
  BY <1>1, <1>3 DEF Shape
<1>5. Pending' \in Seq(Nat) /\ Len(Pending') = Taken + 1
  BY <1>1 DEF Shape
<1> HIDE DEF p
<1> QED
  BY <1>2, <1>4, <1>5, SeqEqual DEF p

\* Without a race there is one state to go on to.
LEMMA FollowingOne ==
    ASSUME branch \in States \ {"crc"}, branch = "len_hi" => r = len
    PROVE  Following = {IF branch = "start" THEN "cmd" ELSE IF branch = "cmd" THEN "len_lo"
                        ELSE IF branch = "len_lo" THEN "len_hi"
                        ELSE IF branch = "payload" THEN "crc"
                        ELSE IF len = 0 THEN "crc" ELSE "payload"}
<1>1. CASE branch = "len_hi"
  <2>1. {IF l = 0 THEN "crc" ELSE "payload" : l \in {r, len}} = {IF len = 0 THEN "crc" ELSE "payload"}
    BY <1>1
  <2> QED
    BY <1>1, <2>1 DEF Following
<1>2. CASE branch \in {"start", "cmd", "len_lo", "payload"}
  BY <1>2 DEF Following
<1> QED
  BY <1>1, <1>2 DEF States

\* Most statements take nothing: what they change is not yet, or no longer, part of
\* the frame in progress.
LEMMA QuietStep ==
    ASSUME ParserInv, FrameInv, race = "none", race' = "none",
           \/ \E b \in Byte : Feed(b)
           \/ Judge /\ ~Stalled
           \/ Tick \/ Check \/ Stamp \/ Switch \/ WaitCmd \/ WaitLenLo \/ LoadLen \/ StoreLen \/ LoadRecv
           \/ StorePayload \/ CrcLoad \/ TestLen \/ ClearRecv \/ CountByte \/ TestFull \/ Handled \/ SetState
    PROVE  UNCHANGED <<Pending, verdict, crc>>
<1> SUFFICES /\ UNCHANGED <<Taken, verdict, crc>>
             /\ \A i \in 1..Taken : ByteAt(i)' = ByteAt(i)
  BY PendingSame
<1> USE TwoBytes DEF ParserInv, TypeOK, Places, LengthCase, PayloadCase, FrameInv, LengthLow,
                     InHand, AllTaken, Between, Loaded, parser, locals, Goto, Return, In, States, Pc,
                     Taken, ByteAt
<1>1. CASE \E b \in Byte : Feed(b)
  BY <1>1 DEF Feed
<1>2. CASE Judge /\ ~Stalled
  BY <1>2 DEF Judge
<1>19. CASE Check
  BY <1>19 DEF Check
<1>3. CASE Tick
  BY <1>3 DEF Tick
<1>4. CASE Stamp
  BY <1>4 DEF Stamp
<1>5. CASE Switch
  BY <1>5 DEF Switch
<1>6. CASE WaitCmd
  BY <1>6 DEF WaitCmd
<1>7. CASE WaitLenLo
  BY <1>7 DEF WaitLenLo
<1>8. CASE LoadLen
  BY <1>8 DEF LoadLen
<1>9. CASE StoreLen
  <2>1. len' % Radix = len % Radix
    <3>1. r \in Nat /\ r % Radix \in Byte /\ r = len
      BY <1>9, LengthBytes DEF StoreLen
    <3> QED
      BY <1>9, <3>1, LengthBytes DEF StoreLen
  <2>2. Taken = 3 /\ Taken' = 3
    BY <1>9 DEF StoreLen
  <2> QED
    BY <1>9, <2>1, <2>2 DEF StoreLen
<1>10. CASE LoadRecv
  BY <1>10 DEF LoadRecv
<1>11. CASE StorePayload
  <2>1. Taken = 4 + recv /\ Taken' = 4 + recv /\ recv = r /\ r < MaxPayload
    BY <1>11 DEF StorePayload
  <2>2. \A j \in 0..(recv - 1) : payload'[j] = payload[j]
    BY <1>11, <2>1 DEF StorePayload, Payload
  <2> QED
    BY <1>11, <2>1, <2>2 DEF StorePayload
<1>12. CASE CrcLoad
  BY <1>12 DEF CrcLoad
<1>13. CASE TestLen
  BY <1>13 DEF TestLen
<1>14. CASE ClearRecv
  BY <1>14 DEF ClearRecv
<1>15. CASE CountByte
  BY <1>15 DEF CountByte
<1>16. CASE TestFull
  <2>1. /\ pc = "full" /\ pc' \in {"state", "idle"} /\ branch = "payload" /\ state = "payload"
        /\ UNCHANGED <<state, cmd, len, recv, crc, payload, verdict, race>>
        /\ pc' = "state" => UNCHANGED branch
    BY <1>16 DEF TestFull
  <2>2. Taken = 4 + recv
    BY <2>1
  <2>3. CASE pc' = "state"
    BY <2>1, <2>2, <2>3
  <2>4. CASE pc' = "idle"
    BY <2>1, <2>2, <2>4
  <2> QED
    BY <2>1, <2>3, <2>4
<1>17. CASE Handled
  BY <1>17 DEF Handled
<1>18. CASE SetState
  <2>1. /\ pc = "state" /\ pc' = "idle" /\ branch \in States \ {"crc"}
        /\ UNCHANGED <<cmd, len, recv, crc, payload, verdict, race>>
    BY <1>18 DEF SetState
  <2>2. state' = IF branch = "start" THEN "cmd" ELSE IF branch = "cmd" THEN "len_lo"
                 ELSE IF branch = "len_lo" THEN "len_hi" ELSE IF branch = "payload" THEN "crc"
                 ELSE IF len = 0 THEN "crc" ELSE "payload"
    BY <1>18, <2>1, FollowingOne DEF SetState
  <2>3. branch = "len_hi" => recv = 0
    BY <2>1
  <2>4. Taken' = Taken
    <3>1. CASE branch = "len_hi"
      BY <2>1, <2>2, <2>3, <3>1
    <3>2. CASE branch = "payload"
      BY <2>1, <2>2, <3>2
    <3>3. CASE branch \in {"start", "cmd", "len_lo"}
      BY <2>1, <2>2, <3>3
    <3> QED
      BY <2>1, <3>1, <3>2, <3>3
  <2> QED
    BY <2>1, <2>4
<1> QED
  BY <1>1, <1>2, <1>3, <1>4, <1>5, <1>6, <1>7, <1>8, <1>9, <1>10, <1>11, <1>12, <1>13, <1>14, <1>15, <1>16, <1>17, <1>18, <1>19

\* The recogniser reads from its bytes the length the parser holds.
LEMMA AbstractLength ==
    ASSUME ParserInv, Taken >= 4
    PROVE  Abs!Length = len
<1>1. Shape
  BY PendingShape
<1>2. Pending[3] = len % Radix /\ Pending[4] = len \div Radix
  <2>1. 3 \in 1..Taken /\ 4 \in 1..Taken
    BY <1>1 DEF Shape
  <2>2. ByteAt(3) = len % Radix /\ ByteAt(4) = len \div Radix
    BY DEF ByteAt
  <2> QED
    BY <1>1, <2>1, <2>2 DEF Shape
<1>3. len \in Nat
  BY TwoBytes DEF ParserInv, TypeOK
<1> QED
  BY <1>2, <1>3, LengthBytes DEF Abs!Length

\* Before the length is there the recogniser waits.
LEMMA HeaderUnfinished ==
    ASSUME Len(Pending) \in {1, 2, 3}
    PROVE  ~Abs!TooLong /\ ~Abs!Whole
<1>1. \A n \in {1, 2, 3} : n # 4 /\ ~(n >= 4)
  OBVIOUS
<1> QED
  BY <1>1, Zenon DEF Abs!TooLong, Abs!Whole

\* When nothing has been taken, nothing is pending.
LEMMA NothingPending == Taken = 0 => Pending = << >>
  BY DEF Pending

\* A start byte opens a frame.
LEMMA WaitStartOpens ==
    ASSUME ParserInv, ParserInv', FrameInv, race = "none", race' = "none", WaitStart
    PROVE  Abs!Open \/ UNCHANGED <<Pending, verdict, crc>>
<1> USE DEF WaitStart, In, FrameInv, Between, Loaded
<1>1. state = "start" /\ Taken = 0 /\ Pending = << >>
  BY NothingPending DEF Taken
<1>2. CASE byte = Start
  <2>1. pc' = "state" /\ branch' = "start" /\ verdict' = verdict /\ crc' = Crc[<<0, Start>>]
    BY <1>2 DEF Goto, locals
  <2>2. Taken' = 1
    BY <2>1 DEF Taken
  <2>3. Pending' = <<Start>>
    BY <2>2 DEF Pending, ByteAt
  <2> QED
    BY <1>1, <2>1, <2>3 DEF Abs!Open
<1>3. CASE byte # Start
  <2>1. pc' = "idle" /\ state' = "start" /\ UNCHANGED <<verdict, crc>>
    BY <1>1, <1>3 DEF Return
  <2>2. Taken' = 0
    BY <2>1 DEF Taken
  <2>3. Pending' = << >>
    BY <2>2 DEF Pending
  <2> QED
    BY <1>1, <2>1, <2>3
<1> QED
  BY <1>2, <1>3

\* A byte that has been stored goes into the checksum, and is one more of the frame.
LEMMA CrcStoreTakes ==
    ASSUME ParserInv, ParserInv', FrameInv, race = "none", race' = "none", CrcStore
    PROVE  Abs!More(byte)
<1> USE DEF CrcStore, ParserInv, TypeOK, Places, PayloadCase, FrameInv, InHand, Between, Loaded, States
<1>1. /\ state = branch /\ c = crc /\ byte \in Byte
      /\ branch \in {"cmd", "len_lo", "len_hi", "payload"}
      /\ UNCHANGED <<cmd, len, recv, payload, branch, verdict>>
      /\ crc' = Crc[<<crc, byte>>]
  BY DEF locals
<1>2. pc' = IF branch = "len_hi" THEN "test" ELSE IF branch = "payload" THEN "count" ELSE "state"
  BY <1>1 DEF Goto
<1>3. Taken = IF branch = "cmd" THEN 1 ELSE IF branch = "len_lo" THEN 2
              ELSE IF branch = "len_hi" THEN 3 ELSE 4 + recv
  BY <1>1 DEF Taken
<1>4. Taken' = Taken + 1
  <2>1. CASE branch = "cmd"
    BY <1>1, <1>2, <1>3, <2>1 DEF Taken
  <2>2. CASE branch = "len_lo"
    BY <1>1, <1>2, <1>3, <2>2 DEF Taken
  <2>3. CASE branch = "len_hi"
    BY <1>1, <1>2, <1>3, <2>3 DEF Taken
  <2>4. CASE branch = "payload"
    BY <1>1, <1>2, <1>3, <2>4 DEF Taken
  <2> QED
    BY <1>1, <2>1, <2>2, <2>3, <2>4
<1>5. \A i \in 1..Taken' : ByteAt(i)' = IF i <= Taken THEN ByteAt(i) ELSE byte
  <2>1. branch = "len_lo" => len % Radix = byte
    BY <1>1, LengthBytes
  <2>2. ASSUME NEW i \in 1..Taken' PROVE ByteAt(i)' = ByteAt(i)
    BY <1>1 DEF ByteAt
  <2>3. ASSUME NEW i \in 1..Taken', i = Taken + 1 PROVE ByteAt(i) = byte
    BY <1>1, <1>3, <2>1, <2>3 DEF ByteAt
  <2>4. \A i \in 1..Taken' : i <= Taken \/ i = Taken + 1
    BY <1>3, <1>4
  <2> QED
    BY <2>2, <2>3, <2>4
<1>6. Pending' = Append(Pending, byte)
  BY <1>1, <1>4, <1>5, TwoBytes, PendingGrows
<1>7. Pending # << >> /\ Len(Pending) = Taken
  <2>1. Taken \in Nat /\ Taken > 0
    BY <1>1, <1>3
  <2>2. Shape
    BY PendingShape
  <2>3. Len(Pending) = Taken
    BY <2>2 DEF Shape
  <2> QED
    BY <2>1, <2>3
<1>8. Len(Pending) >= 4 => branch = "payload" /\ Abs!Length = len
  BY <1>1, <1>3, <1>7, AbstractLength
<1>9. branch = "payload" => recv < len /\ len <= MaxPayload
  BY <1>1
<1>10. ~Abs!TooLong /\ ~Abs!Whole
  <2>1. recv \in Nat /\ len \in Nat
    BY TwoBytes
  <2>2. CASE branch = "payload"
    <3>1. Taken = 4 + recv
      BY <1>3, <2>2
    <3>2. Abs!Length = len
      <4>1. Len(Pending) = 4 + recv
        BY <1>7, <3>1
      <4>2. Len(Pending) >= 4
        BY SMTT(30), <2>1, <4>1
      <4> QED
        BY <1>8, <4>2
    <3>3. Len(Pending) = 4 + recv /\ recv < len /\ len <= MaxPayload
      BY SMTT(30), <1>7, <1>9, <2>2, <3>1
    <3>4. ~Abs!TooLong
      BY <2>1, <3>2, <3>3 DEF Abs!TooLong
    <3>5. ~Abs!Whole
      BY SMTT(20), <2>1, <3>2, <3>3 DEF Abs!Whole
    <3> QED
      BY <3>4, <3>5
  <2>3. CASE branch # "payload"
    <3>1. Len(Pending) \in {1, 2, 3}
      BY <1>1, <1>3, <1>7, <2>3
    <3> QED
      BY <3>1, HeaderUnfinished
  <2> QED
    BY <2>2, <2>3
<1> QED
  BY <1>1, <1>6, <1>7, <1>10 DEF Abs!More

\* A frame too long for s_payload is refused.
LEMMA SendErrorRefuses ==
    ASSUME ParserInv, FrameInv, race = "none", race' = "none", SendError
    PROVE  Abs!Refuse
<1>1. pc = "error" /\ branch = "len_hi" /\ len > MaxPayload
  BY DEF SendError, ParserInv, Places, FrameInv, AllTaken
<1>2. Taken = 4
  BY <1>1 DEF Taken
<1>3. Len(Pending) = 4 /\ Abs!Length = len
  BY <1>2, PendingShape, AbstractLength DEF Shape
<1>4. Taken' = 0
  BY DEF SendError, Goto, Taken
<1>5. Pending' = << >>
  BY <1>4 DEF Pending
<1> QED
  BY <1>1, <1>3, <1>5 DEF Abs!Refuse, Abs!TooLong, SendError

\* What is handed to dispatch() is what was received.
LEMMA FrameIsReceived ==
    ASSUME ParserInv, Taken = 4 + len
    PROVE  Abs!Frame = Received
<1>1. len \in Nat /\ Shape
  BY PendingShape, TwoBytes DEF ParserInv, TypeOK
<1>2. Abs!Length = len
  BY <1>1, AbstractLength
<1>3. Pending[2] = cmd
  <2>1. 2 \in 1..Taken /\ ByteAt(2) = cmd
    BY <1>1 DEF ByteAt
  <2> QED
    BY <1>1, <2>1 DEF Shape
<1> DEFINE p == SubSeq(Pending, 5, 4 + len)
           q == [i \in 1..len |-> payload[i - 1]]
<1>4. /\ p \in Seq(Nat) /\ Len(p) = len
      /\ \A i \in 1..len : p[i] = Pending[4 + i]
  <2>1. \A i \in 5..(4 + len) : Pending[i] \in Nat
    BY <1>1 DEF Shape
  <2>2. /\ p \in Seq(Nat)
        /\ Len(p) = IF 5 <= 4 + len THEN (4 + len) - 5 + 1 ELSE 0
        /\ \A i \in 1..((4 + len) - 5 + 1) : p[i] = Pending[5 + i - 1]
    BY <1>1, <2>1, SubSeqProperties
  <2>3. (4 + len) - 5 + 1 = len /\ \A i \in 1..len : 5 + i - 1 = 4 + i
    BY <1>1
  <2> HIDE DEF p
  <2> QED
    BY <1>1, <2>2, <2>3
<1>5. \A i \in 1..len : Pending[4 + i] = payload[i - 1] /\ payload[i - 1] \in Nat
  <2>1. ASSUME NEW i \in 1..len
        PROVE  Pending[4 + i] = payload[i - 1] /\ payload[i - 1] \in Nat
    <3>1. 4 + i \in 1..Taken /\ (4 + i) - 5 = i - 1
      BY <1>1
    <3>2. ByteAt(4 + i) = payload[i - 1]
      BY <1>1, <3>1 DEF ByteAt
    <3> QED
      BY <1>1, <3>1, <3>2 DEF Shape
  <2> QED
    BY <2>1
<1>6. q \in Seq(Nat) /\ Len(q) = len
  BY <1>1, <1>5, IsASeq, LenProperties
<1>7. p = q
  <2> HIDE DEF p
  <2>1. \A i \in 1..len : q[i] = payload[i - 1]
    OBVIOUS
  <2> HIDE DEF q
  <2> QED
    BY <1>1, <1>4, <1>5, <1>6, <2>1, SeqEqual
<1> QED
  BY <1>2, <1>3, <1>7 DEF Abs!Frame, Received

\* The last byte decides on the frame.
LEMMA RecvCrcDecides ==
    ASSUME ParserInv, FrameInv, race = "none", race' = "none", RecvCrc
    PROVE  Abs!Execute(byte) \/ Abs!Drop
<1>1. state = "crc" /\ recv = len /\ len \in Nat /\ pc = "body"
  BY TwoBytes DEF RecvCrc, In, ParserInv, TypeOK, FrameInv, AllTaken, Between, Loaded
<1>2. Taken = 4 + len
  BY <1>1 DEF Taken
<1>3. Len(Pending) = 4 + len /\ Abs!Length = len /\ Abs!Frame = Received
  BY <1>1, <1>2, PendingShape, AbstractLength, FrameIsReceived DEF Shape
<1>4. Taken' = 0
  BY DEF RecvCrc, Goto, Taken
<1>5. Pending' = << >>
  BY <1>4 DEF Pending
<1>6. CASE byte = crc
  BY <1>1, <1>3, <1>5, <1>6 DEF RecvCrc, Abs!Execute, Abs!Whole
<1>7. CASE byte # crc
  BY <1>5, <1>7 DEF RecvCrc, Abs!Drop
<1> QED
  BY <1>6, <1>7

\* A step without a race is a step of the recogniser, or shows nothing.
LEMMA RecogniserStep ==
    ASSUME ParserInv, ParserInv', FrameInv, Next, race = "none", race' = "none"
    PROVE  Abs!Next \/ UNCHANGED <<Pending, verdict, crc>>
<1>1. CASE Reset
  <2>1. pc' \in {"idle", "check", "judge", "stamp", "switch"} /\ state' = "start" /\ verdict' = verdict
    BY <1>1 DEF Reset, Strikes
  <2>2. Taken' = 0
    BY <2>1 DEF Taken
  <2>3. Pending' = << >>
    BY <2>2 DEF Pending
  <2> QED
    BY <2>1, <2>3 DEF Abs!Next, Abs!Drop
<1>2. CASE Judge /\ Stalled
  <2>1. pc' = "stamp" /\ state' = "start" /\ verdict' = verdict
    BY <1>2 DEF Judge, Goto
  <2>2. Taken' = 0
    BY <2>1 DEF Taken
  <2>3. Pending' = << >>
    BY <2>2 DEF Pending
  <2> QED
    BY <2>1, <2>3 DEF Abs!Next, Abs!Drop
<1>3. CASE WaitStart
  BY <1>3, WaitStartOpens DEF Abs!Next
<1>4. CASE CrcStore
  <2>1. byte \in Abs!Byte
    BY DEF ParserInv, TypeOK, Byte, Abs!Byte
  <2> QED
    BY <1>4, <2>1, CrcStoreTakes DEF Abs!Next
<1>5. CASE SendError
  BY <1>5, SendErrorRefuses DEF Abs!Next
<1>6. CASE RecvCrc
  <2>1. byte \in Abs!Byte
    BY DEF ParserInv, TypeOK, Byte, Abs!Byte
  <2> QED
    BY <1>6, <2>1, RecvCrcDecides DEF Abs!Next
<1>7. CASE Restart
  <2>1. Taken = 0
    BY <1>7 DEF Restart, Taken
  <2>2. Taken' = 0
    BY <1>7 DEF Restart, Return, Taken
  <2>3. Pending = << >> /\ Pending' = << >>
    BY <2>1, <2>2 DEF Pending
  <2> QED
    BY <1>7, <2>3 DEF Restart, Abs!Next, Abs!Done
<1>8. CASE ~(Reset \/ (Judge /\ Stalled) \/ WaitStart \/ CrcStore \/ SendError \/ RecvCrc \/ Restart)
  BY <1>8, QuietStep DEF Next, Step
<1> QED
  BY <1>1, <1>2, <1>3, <1>4, <1>5, <1>6, <1>7, <1>8

\* protocol_feed implements the frame recogniser: while no reset has struck it in the
\* middle of a byte, each of its statements is a step of the recogniser or shows nothing.
\* A frame is executed exactly as received, an oversized one is refused, nothing else
\* is executed, whatever the moment of the other resets.
THEOREM ParserImplementsRecogniser == Spec => Recognises
<1>1. ParserInv /\ ParserInv' /\ FrameInv /\ [Next]_vars
        => [race # "none" \/ race' # "none" \/ Abs!Next \/ UNCHANGED <<Pending, verdict, crc>>]_vars
  BY RecogniserStep
<1>2. Spec => []FrameInv
  BY FrameAtInit, FrameStep, ParserInvariant, PTL DEF Spec
<1> QED
  BY <1>1, <1>2, ParserInvariant, PTL DEF Spec, Recognises
=============================================================================
