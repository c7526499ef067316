------------------------------- MODULE MCJtagRaw -------------------------------
(***************************************************************************)
(* JtagRaw with every word of up to three bits, the ways in and out of     *)
(* Test-Logic-Reset, and one word longer than SHIFT_DATA takes.            *)
(***************************************************************************)
EXTENDS JtagRaw

MCWords == UNION {[1..n -> {0, 1}] : n \in 0..3}
           \union {<<1, 1, 1, 1, 1>>, <<1, 1, 1, 1, 1, 0>>, Zeros(MaxShift + 1)}
===============================================================================
