--------------------------- MODULE FrameRecogniser ---------------------------
(***************************************************************************)
(* What the protocol parser promises (pico_protocol.c): the stream of      *)
(* bytes is cut into frames                                                *)
(*     Start  cmd  len_lo  len_hi  payload[0 .. len-1]  crc                *)
(* a frame whose checksum agrees is executed exactly as it was received,   *)
(* one announcing too long a payload is answered with an error at once,    *)
(* anything else is dropped without a trace.                               *)
(***************************************************************************)
EXTENDS Naturals, Sequences

CONSTANTS Radix, Start, MaxPayload, Crc

VARIABLES pend,      \* the bytes of the frame being received
          sum,       \* their checksum
          verdict    \* what is being done with a frame

Byte == 0..(Radix - 1)
Length == pend[3] + Radix * pend[4]
Frame == [cmd |-> pend[2], payload |-> SubSeq(pend, 5, 4 + Length)]

TooLong == Len(pend) = 4 /\ Length > MaxPayload
Whole == Len(pend) >= 4 /\ Len(pend) = 4 + Length

\* The first byte opens a frame or is skipped.
Open == /\ pend = << >>
        /\ pend' = <<Start>>
        /\ sum' = Crc[<<0, Start>>]
        /\ verdict' = verdict

More(b) == /\ pend # << >> /\ ~TooLong /\ ~Whole
           /\ pend' = Append(pend, b)
           /\ sum' = Crc[<<sum, b>>]
           /\ verdict' = verdict

Refuse == /\ TooLong
          /\ pend' = << >>
          /\ verdict' = [kind |-> "error"]

Execute(b) == /\ Whole /\ b = sum
              /\ pend' = << >>
              /\ verdict' = [kind |-> "frame", frame |-> Frame]

\* A wrong checksum, a silence in the middle of a frame, a bus reset.
Drop == pend' = << >> /\ verdict' = verdict

\* The command has been carried out, the error has been sent.
Done == verdict' = [kind |-> "none"] /\ UNCHANGED <<pend, sum>>

Next == Open \/ Done \/ Refuse \/ Drop \/ \E b \in Byte : More(b) \/ Execute(b)
=============================================================================
