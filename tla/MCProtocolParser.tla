--------------------------- MODULE MCProtocolParser ---------------------------
(***************************************************************************)
(* ProtocolParser over bytes of three values: lengths 0 to 8 of which 0    *)
(* to MaxPayload are accepted, and a checksum that tells any two frames    *)
(* apart that differ in one byte.                                          *)
(***************************************************************************)
EXTENDS ProtocolParser

MCCrc == [p \in Byte \X Byte |-> (2 * p[1] + p[2]) % Radix]
=============================================================================
