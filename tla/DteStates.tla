------------------------------- MODULE DteStates -------------------------------
(***************************************************************************)
(* The documents of DteService as the services that ask for them see them: *)
(* one per key, PENDIENTE when it is opened, closed with what became of it.*)
(***************************************************************************)
EXTENDS Naturals

CONSTANT DocumentKeys

VARIABLE document  \* the status of the document of each key

DocumentStatus == {"NONE", "PENDIENTE", "EMITIDO", "ERROR"}

DteInit == document = [k \in DocumentKeys |-> "NONE"]

\* A request that read the document in ERROR (sawError) writes over it,
\* whatever it is by then.
Openable(k, sawError) == document[k] \in {"NONE", "ERROR"} \/ sawError

Open(k, sawError) ==
    /\ Openable(k, sawError)
    /\ document' = [document EXCEPT ![k] = "PENDIENTE"]

Close(k, status) ==
    /\ document[k] = "PENDIENTE"
    /\ document' = [document EXCEPT ![k] = status]
================================================================================
