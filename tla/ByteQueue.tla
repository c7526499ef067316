------------------------------ MODULE ByteQueue ------------------------------
(***************************************************************************)
(* What the firmware's interrupt-to-main byte buffers promise              *)
(* (cdc_rx.c, uart_bridge.c, uart_driver.c): a first-in first-out queue    *)
(* that takes a whole packet at a time, keeps the oldest bytes when it is  *)
(* full, hands the bytes over one by one and is emptied by a bus reset.    *)
(***************************************************************************)
EXTENDS Naturals, Sequences

CONSTANTS Capacity,    \* bytes the queue can hold
          Item,        \* what is queued
          MaxPacket    \* the longest packet

VARIABLES q,           \* the bytes accepted and not yet handed over
          out          \* the byte handed over last

Room(n) == IF n <= Capacity - Len(q) THEN n ELSE Capacity - Len(q)

\* A packet arrives: what does not fit is dropped, newest bytes first.
Put(p) == /\ q' = q \o SubSeq(p, 1, Room(Len(p)))
          /\ out' = out

\* The consumer gets the oldest byte.
Take == /\ q # << >>
        /\ out' = Head(q)
        /\ q' = Tail(q)

Flush == q' = << >> /\ out' = out

Init == q = << >> /\ out \in Item

Next == \/ \E k \in 0..MaxPacket : \E p \in [1..k -> Item] : Put(p)
        \/ Take
        \/ Flush
=============================================================================
