------------------------------ MODULE MCFirmware ------------------------------
(***************************************************************************)
(* The main loop's waits, the ring its bytes come through and the pipes    *)
(* its answers go out by, in one instance.  They share no variable: a      *)
(* behaviour is of one part, and the others stay as they start.            *)
(***************************************************************************)
EXTENDS MCMainLoop, SpscRing, BulkIn

VARIABLE part

\* What the parts that stay start with makes no difference.
FirmwareInit == /\ Init /\ RingInit /\ PipeInit
                /\ part \in {"loop", "ring", "pipe"}
                /\ part # "ring" => cur = [epoch |-> 0, byte |-> CHOOSE b \in Byte : TRUE]
                /\ part # "pipe" => ~uart

FirmwareNext == \/ part = "loop" /\ Next /\ UNCHANGED <<part, ringVars, pipeVars>>
                \/ part = "ring" /\ RingNext /\ UNCHANGED <<part, vars, pipeVars>>
                \/ part = "pipe" /\ PipeNext /\ UNCHANGED <<part, vars, ringVars>>

\* The fairness of FairRingSpec and of FairPipeSpec, each for its own behaviours.
FairFirmwareSpec == /\ FirmwareInit
                    /\ [][FirmwareNext]_<<part, vars, ringVars, pipeVars>>
                    /\ WF_ringVars(part = "ring" /\ Task)
                    /\ WF_pipeVars(part = "pipe" /\ Main)
===============================================================================
