------------------------------ MODULE MCScanChain ------------------------------
(***************************************************************************)
(* A chain of three devices whose instruction registers all differ, so     *)
(* that no two positions have the same paddings, from either end.          *)
(***************************************************************************)
EXTENDS ScanChain

MCIRLen == <<1, 2, 3>>
MCIdCode == <<<<0, 0, 1>>, <<0, 1, 1>>, <<1, 0, 1>>>>
===============================================================================
