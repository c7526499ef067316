----------------------------- MODULE MCDllSession -----------------------------
(***************************************************************************)
(* Two probes with the same firmware, and so with the same serial number;  *)
(* a cache that is valid for one tick, and a tick counter of three.        *)
(***************************************************************************)
EXTENDS DllSession, TLC

CONSTANTS a, b

MCProbe == {a, b}
MCVersion == [p \in MCProbe |-> 7]
Swap == Permutations(MCProbe)
===============================================================================
