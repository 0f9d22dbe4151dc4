------------------------------ MODULE DteContract ------------------------------
(***************************************************************************)
(* What DteService promises the services that ask it for documents.  A     *)
(* document may be opened again by a request that saw it in ERROR some time*)
(* ago, and by no other once it is PENDIENTE or closed.                    *)
(***************************************************************************)
EXTENDS DteStates

VARIABLE retried  \* the keys some request has seen in ERROR and will open again

contractVars == <<document, retried>>

SeeError(k) ==
    /\ document[k] = "ERROR"
    /\ retried' = retried \cup {k}
    /\ UNCHANGED document

Reopen(k) ==
    /\ Open(k, k \in retried)
    /\ retried' \in {retried, retried \ {k}}

Finish(k, status) == Close(k, status) /\ UNCHANGED retried

\* Requests answered, or lost.
GiveUp ==
    /\ retried' \in SUBSET retried
    /\ UNCHANGED document

ContractNext ==
    \/ \E k \in DocumentKeys :
         SeeError(k) \/ Reopen(k) \/ Finish(k, "EMITIDO") \/ Finish(k, "ERROR")
    \/ GiveUp

ContractSpec == DteInit /\ retried = {} /\ [][ContractNext]_contractVars
================================================================================
