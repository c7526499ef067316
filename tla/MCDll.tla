--------------------------------- MODULE MCDll ---------------------------------
(***************************************************************************)
(* Two parts of the DLL that share no variable, the transport under its    *)
(* calls and the scans of the chain, in one instance: a behaviour is of    *)
(* one part, and the other stays as it starts.                             *)
(***************************************************************************)
EXTENDS PicoTransport, MCScanChain

VARIABLE part

DllInit == Init /\ ChainInit /\ part \in {"transport", "chain"}

DllNext == \/ part = "transport" /\ Next /\ UNCHANGED <<part, chainVars>>
           \/ part = "chain" /\ ChainNext /\ UNCHANGED <<part, vars>>

\* The fairness of FairSpec, for behaviours of the transport.
FairDllSpec ==
    /\ DllInit
    /\ [][DllNext]_<<part, vars, chainVars>>
    /\ WF_vars(part = "transport" /\ (ReadHeader \/ ReadPayload \/ ReadCrc \/ ReadTimeout))
    /\ WF_vars(part = "transport" /\ (Accept \/ Answer \/ AnswerToNobody))
===============================================================================
