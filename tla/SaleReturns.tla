------------------------------ MODULE SaleReturns ------------------------------
(***************************************************************************)
(* Returns of one sale: created over what other returns leave, approved    *)
(* with a credit note (NCE 61) DteService issues, or straight away for a   *)
(* note of sale, completed by the approval, by a reconciliation or by the  *)
(* listeners the finalisation of a document calls in its transaction.      *)
(*                                                                         *)
(* The idempotency key of a return's credit note is the returnID.  The sale*)
(* has one line of Sold units at Price; its conversion is left out.        *)
(***************************************************************************)
EXTENDS DteStates, Integers, FiniteSetsExt, TLC

CONSTANTS
    Returns,      \* Idempotency-Keys of POST /returns
    Requests,     \* requests being served at the same time
    Sold, Price,  \* the line of the sale
    Discounts,    \* amounts a DESCUENTO may carry
    Conditions,   \* the conditions returned units may have
    MaxCrashes,   \* bound: restarts
    NULL

ASSUME ReturnsAssumption ==
    /\ DocumentKeys = Returns
    /\ Sold \in Nat \ {0} /\ Price \in Nat \ {0} /\ MaxCrashes \in Nat
    /\ Discounts \subseteq Nat \ {0}
    /\ Conditions \subseteq {"SELLABLE", "DEFECTIVE"}
    /\ NULL \notin Returns

VARIABLES
    sale,     \* the Sale row: its type and status
    ret,      \* Return rows, or NULL
    moved,    \* units the movements that refer to a return put back, by condition
    ledger,   \* <<sourceType, returnID>> of the FinancialMovement rows
    call,     \* where each request is
    crashes

returnVars == <<document, sale, ret, moved, ledger, call, crashes>>

ReturnTypes == {"TOTAL", "PARCIAL", "DESCUENTO"}

\* linked: the row has the dteDocumentID of its credit note.
ReturnRow ==
    [status     : {"PENDIENTE", "APROBADA", "COMPLETADA", "RECHAZADA", "CANCELADA"},
     returnType : ReturnTypes,
     quantity   : Nat,
     condition  : Conditions,
     total      : Nat,
     linked     : BOOLEAN]

ASSUME NullAssumption == NULL \notin ReturnRow

CallRow ==
    [pc       : {"idle", "save", "complete", "lookup", "open", "sent", "settle", "reconcile"},
     ret      : Returns \cup {NULL},
     row      : ReturnRow \cup {NULL},
     answer   : DocumentStatus,
     approves : BOOLEAN,
     sawError : BOOLEAN]

Idle == [pc |-> "idle", ret |-> NULL, row |-> NULL, answer |-> "NONE", approves |-> FALSE,
         sawError |-> FALSE]

ReturnInit ==
    /\ DteInit
    /\ sale \in [saleType : {"NOTA_VENTA", "BOLETA"}, status : {"EMITIDA"}]
    /\ ret = [r \in Returns |-> NULL]
    /\ moved = [r \in Returns |-> [c \in Conditions |-> 0]]
    /\ ledger = {}
    /\ call = [q \in Requests |-> Idle]
    /\ crashes = 0

-----------------------------------------------------------------------------
(* returns-engine.ts: what a return may ask for.                           *)

ActiveReturns ==
    {r \in Returns : ret[r] # NULL /\ ret[r].status \in {"PENDIENTE", "APROBADA", "COMPLETADA"}}

CalculateAvailableQuantity == Sold - MapThenSumSet(LAMBDA r : ret[r].quantity, ActiveReturns)

CalculateMonetaryCap ==
    LET left == Sold * Price - MapThenSumSet(LAMBDA r : ret[r].total, ActiveReturns)
    IN  IF left > 0 THEN left ELSE 0

Prepared(type, n, condition, total) ==
    [status |-> "PENDIENTE", returnType |-> type, quantity |-> n,
     condition |-> condition, total |-> total, linked |-> FALSE]

\* The rows validateReturnRequest lets through.
ValidReturns ==
    LET items(type, N) == {Prepared(type, n, c, n * Price) : n \in N, c \in Conditions}
        left == CalculateAvailableQuantity
    IN  items("TOTAL", {left} \cap 1..Sold)
          \cup items("PARCIAL", 1..left)
          \cup {Prepared("DESCUENTO", 0, c, a) :
                  a \in {d \in Discounts : d <= CalculateMonetaryCap}, c \in Conditions}

RequiresNce == sale.saleType # "NOTA_VENTA"

-----------------------------------------------------------------------------
(* Completion.                                                             *)

\* completeReturnInManager, on a row that is locked.
Completed(row) ==
    [row EXCEPT !.status = "COMPLETADA", !.linked = row.linked \/ RequiresNce]

\* A variant: the condition the units came in is not passed on.
Returned_Sellable(r) == [moved EXCEPT ![r]["SELLABLE"] = @ + ret[r].quantity]

Returned(r) ==
    IF ret[r].returnType = "DESCUENTO" THEN moved
    ELSE [moved EXCEPT ![r][ret[r].condition] = @ + ret[r].quantity]

SaleStatusAfter(type) ==
    CASE type = "TOTAL" -> "ANULADA"
      [] type = "DESCUENTO" -> "CORREGIDA"
      [] type = "PARCIAL" -> "DEVUELTA"

\* A variant: only a COMPLETADA return is turned away.
Completable_NotCompleted(r) == ret[r].status # "COMPLETADA"

Completable(r) == ret[r].status \in {"PENDIENTE", "APROBADA"}

\* booked: what the transaction writes in the ledger besides.
CompleteReturnInManager(r, booked) ==
    /\ Completable(r)
    /\ ret' = [ret EXCEPT ![r] = Completed(ret[r])]
    /\ moved' = Returned(r)
    /\ ledger' = ledger \cup booked \cup (IF RequiresNce THEN {} ELSE {<<"RETURN", r>>})
    /\ sale' = [sale EXCEPT !.status = SaleStatusAfter(ret[r].returnType)]

\* The document of a return is closed, in one transaction with recordDte and
\* the listeners, which only find a return that has the document's ID.
FinalizeCredit(r, status) ==
    /\ Close(r, status)
    /\ CASE status = "EMITIDO" /\ ret[r].linked /\ Completable(r) ->
              CompleteReturnInManager(r, {<<"DTE_DOCUMENT", r>>})
         [] status = "ERROR" /\ ret[r].linked /\ ret[r].status = "APROBADA" ->
              /\ ret' = [ret EXCEPT ![r].status = "PENDIENTE"]
              /\ UNCHANGED <<moved, ledger, sale>>
         [] OTHER ->
              /\ ledger' = IF status = "EMITIDO" THEN ledger \cup {<<"DTE_DOCUMENT", r>>}
                           ELSE ledger
              /\ UNCHANGED <<ret, moved, sale>>

-----------------------------------------------------------------------------
(* POST /returns: the active returns are read, and the row is written       *)
(* later: nothing is locked between them.                                  *)

ReadSale(q, r) ==
    /\ call[q] = Idle /\ ret[r] = NULL
    /\ \E row \in ValidReturns :
         call' = [call EXCEPT ![q] = [Idle EXCEPT !.pc = "save", !.ret = r, !.row = row]]
    /\ UNCHANGED <<document, sale, ret, moved, ledger, crashes>>

\* A row another request has written under the key meanwhile: the INSERT fails.
SaveReturn(q) ==
    LET r == call[q].ret IN
    /\ call[q].pc = "save"
    /\ ret' = IF ret[r] = NULL THEN [ret EXCEPT ![r] = call[q].row] ELSE ret
    /\ call' = [call EXCEPT ![q] = Idle]
    /\ UNCHANGED <<document, sale, moved, ledger, crashes>>

-----------------------------------------------------------------------------
(* POST /returns/:id/approve                                               *)

Goes(q, pc) == call' = [call EXCEPT ![q].pc = pc]
Ends(q)     == call' = [call EXCEPT ![q] = Idle]

\* The answer of DteService: what is left is the return's own transaction.
Answered(q, status) ==
    call' = [call EXCEPT ![q].pc = "settle", ![q].answer = status]

\* The first transaction reads the return and locks nothing after it.
Approve(q, r) ==
    /\ call[q] = Idle
    /\ ret[r] # NULL /\ ret[r].status = "PENDIENTE"
    /\ call' = [call EXCEPT ![q] = [Idle EXCEPT !.ret = r, !.approves = TRUE,
                  !.pc = IF RequiresNce THEN "lookup" ELSE "complete"]]
    /\ UNCHANGED <<document, sale, ret, moved, ledger, crashes>>

\* A note of sale, in one transaction that looks at the status again.
CompleteNote(q) ==
    LET r == call[q].ret IN
    /\ call[q].pc = "complete"
    /\ IF ret[r].status = "PENDIENTE" THEN CompleteReturnInManager(r, {})
       ELSE UNCHANGED <<ret, moved, ledger, sale>>
    /\ Ends(q)
    /\ UNCHANGED <<document, crashes>>

\* DteService.create, prepare: a document that is there is answered as it is.
LookupCredit(q) ==
    LET r == call[q].ret IN
    /\ call[q].pc = "lookup"
    /\ IF document[r] \in {"NONE", "ERROR"}
       THEN call' = [call EXCEPT ![q].pc = "open", ![q].sawError = document[r] = "ERROR"]
       ELSE Answered(q, document[r])
    /\ UNCHANGED <<document, sale, ret, moved, ledger, crashes>>

OpenCredit(q) ==
    LET r == call[q].ret IN
    /\ call[q].pc = "open"
    /\ IF Openable(r, call[q].sawError) THEN /\ Open(r, call[q].sawError)
            /\ call' = [call EXCEPT ![q].pc = "sent", ![q].sawError = FALSE]
       ELSE Answered(q, document[r]) /\ UNCHANGED document
    /\ UNCHANGED <<sale, ret, moved, ledger, crashes>>

\* The answer of Openfactura, or none, closes the document or leaves it
\* PENDIENTE; a document closed meanwhile is answered as it is.
CreditAnswer(q) ==
    LET r == call[q].ret IN
    IF document[r] # "PENDIENTE"
    THEN Answered(q, document[r]) /\ UNCHANGED <<document, sale, ret, moved, ledger>>
    ELSE \/ FinalizeCredit(r, "EMITIDO") /\ Answered(q, "EMITIDO")
         \/ FinalizeCredit(r, "ERROR") /\ Ends(q)
         \/ /\ Answered(q, "PENDIENTE")
          /\ UNCHANGED <<document, sale, ret, moved, ledger>>

SendCredit(q) ==
    /\ call[q].pc = "sent"
    /\ CreditAnswer(q)
    /\ UNCHANGED crashes

\* A variant: the status of the answer is not looked at.
SettleReturn_AnyAnswer(q) ==
    LET r == call[q].ret IN
    /\ call[q].pc = "settle"
    /\ IF Completable(r) THEN CompleteReturnInManager(r, {}) ELSE UNCHANGED <<ret, moved, ledger, sale>>
    /\ Ends(q)
    /\ UNCHANGED <<document, crashes>>

\* The last transaction of approve and of reconcile.
SettleReturn(q) ==
    LET r == call[q].ret IN
    /\ call[q].pc = "settle"
    /\ CASE call[q].answer = "EMITIDO" /\ Completable(r) -> CompleteReturnInManager(r, {})
         [] call[q].answer # "EMITIDO" /\ ret[r].status = "PENDIENTE" /\ call[q].approves ->
              /\ ret' = [ret EXCEPT ![r].status = "APROBADA", ![r].linked = TRUE]
              /\ UNCHANGED <<moved, ledger, sale>>
         [] OTHER -> UNCHANGED <<ret, moved, ledger, sale>>
    /\ Ends(q)
    /\ UNCHANGED <<document, crashes>>

-----------------------------------------------------------------------------
(* The other requests and the poller.                                      *)

\* POST /returns/:id/reject and /cancel
EndPending(r, status) ==
    /\ ret[r] # NULL /\ ret[r].status = "PENDIENTE"
    /\ ret' = [ret EXCEPT ![r].status = status]
    /\ UNCHANGED <<document, sale, moved, ledger, call, crashes>>

\* POST /returns/:id/reconcile, which approves nothing.
Reconcile(q, r) ==
    /\ call[q] = Idle
    /\ ret[r] # NULL /\ Completable(r) /\ ret[r].linked
    /\ call' = [call EXCEPT ![q] = [Idle EXCEPT !.ret = r, !.pc = "reconcile"]]
    /\ UNCHANGED <<document, sale, ret, moved, ledger, crashes>>

ReconcileCredit(q) ==
    /\ call[q].pc = "reconcile"
    /\ CreditAnswer(q)
    /\ UNCHANGED crashes

\* The cycle of DteService that reconciles PENDIENTE documents.
PollCredit(r) ==
    /\ \E status \in {"EMITIDO", "ERROR"} : FinalizeCredit(r, status)
    /\ UNCHANGED <<call, crashes>>

Restart ==
    /\ crashes < MaxCrashes
    /\ crashes' = crashes + 1
    /\ call' = [q \in Requests |-> Idle]
    /\ UNCHANGED <<document, sale, ret, moved, ledger>>

ReturnNext ==
    \/ \E q \in Requests, r \in Returns : ReadSale(q, r) \/ Approve(q, r) \/ Reconcile(q, r)
    \/ \E q \in Requests :
         \/ SaveReturn(q) \/ CompleteNote(q) \/ LookupCredit(q) \/ OpenCredit(q)
         \/ SendCredit(q) \/ ReconcileCredit(q) \/ SettleReturn(q)
    \/ \E r \in Returns : EndPending(r, "RECHAZADA") \/ EndPending(r, "CANCELADA") \/ PollCredit(r)
    \/ Restart

ReturnSpec == ReturnInit /\ [][ReturnNext]_returnVars

-----------------------------------------------------------------------------

\* The rows and requests have their shapes.
ReturnTypeOK ==
    /\ document \in [DocumentKeys -> DocumentStatus]
    /\ sale \in [saleType : {"NOTA_VENTA", "BOLETA"},
                  status : {"EMITIDA", "ANULADA", "CORREGIDA", "DEVUELTA"}]
    /\ ret \in [Returns -> ReturnRow \cup {NULL}]
    /\ moved \in [Returns -> [Conditions -> Int]]
    /\ ledger \subseteq {"DTE_DOCUMENT", "RETURN"} \X Returns
    /\ call \in [Requests -> CallRow]

\* What a return puts back in stock is put back once, in the condition it came
\* in, when it is COMPLETADA: two approvals, a reconciliation and the listener
\* that come to complete it do it once between them.
ReturnsMoveOnce ==
    \A r \in Returns, c \in Conditions :
        moved[r][c] = IF ret[r] # NULL /\ ret[r].status = "COMPLETADA" /\ ret[r].condition = c
                      THEN ret[r].quantity ELSE 0

\* No return is COMPLETADA, and no stock back, without the income being taken
\* back in the ledger: by the issued credit note, or by the return of a note.
CompletedIsCredited ==
    \A r \in Returns : ret[r] # NULL /\ ret[r].status = "COMPLETADA" =>
        <<(IF RequiresNce THEN "DTE_DOCUMENT" ELSE "RETURN"), r>> \in ledger

\* A return that ended stays as it ended, whatever comes late: the answer of
\* its credit note, a second approval, the poller.
EndedReturnsStay ==
    [][\A r \in Returns :
         ret[r] # NULL /\ ret[r].status \in {"COMPLETADA", "RECHAZADA", "CANCELADA"} =>
           ret'[r].status = ret[r].status]_returnVars

-----------------------------------------------------------------------------
(* What the repository says and the code does not keep.                    *)

\* returns-engine.ts: a return may not exceed the "saldo devolvible de la venta".
RefundsWithinSale ==
    /\ CalculateAvailableQuantity >= 0
    /\ MapThenSumSet(LAMBDA r : ret[r].total, ActiveReturns) <= Sold * Price

-----------------------------------------------------------------------------
(* For the configurations.                                                 *)

\* No property or action tells one request, or one return, from another.
ReturnSymmetry == Permutations(Requests) \cup Permutations(Returns)
================================================================================
