------------------------------ MODULE FiscalFlow ------------------------------
(***************************************************************************)
(* Documents, sales and conversions served at the same time, Openfactura   *)
(* answering late or never, the cash session closing meanwhile, restarts;  *)
(* and what has to hold of stock, ledger and fiscal documents all along.   *)
(***************************************************************************)
EXTENDS Sales

Arrive ==
    \/ \E q \in Requests, k \in Documents, n \in Quantities : StartDocument(q, k, n)
    \/ \E q \in Requests, k \in ElectronicSales, n \in Quantities : StartSale(q, k, n)
    \/ \E q \in Requests, k \in Notes : StartConversion(q, k)
    \/ \E k \in Notes, n \in Quantities : CreateNote(k, n)
    \/ \E q \in Requests, k \in Reconciled : StartReconcile(q, k)

Poll == \E k \in Keys : StartReconcile(Poller, k)

Next ==
    \/ Arrive
    \/ Poll
    \/ \E q \in Calls : DteStep(q) \/ SaleStep(q)
    \/ Openfactura
    \/ TurnDrawer
    \/ \E q \in Calls : Abort(q)
    \/ Crash

Spec == Init /\ [][Next]_fiscalVars

\* A request that is being served goes on (its HTTP call has a timeout), each
\* cycle of the poller comes to every document (it takes 50 at a time, more
\* than there are), and Openfactura handles and decides what it is sent.  No
\* request has to arrive and no drawer to open.
Fairness ==
    /\ \A q \in Calls : WF_fiscalVars(DteStep(q) \/ SaleStep(q))
    /\ \A k \in Keys : SF_fiscalVars(StartReconcile(Poller, k))
    /\ \A k \in Keys : WF_fiscalVars(Receive(k)) /\ WF_fiscalVars(Decide(k))

FairSpec == Spec /\ Fairness

-----------------------------------------------------------------------------
(* Safety.                                                                 *)

\* No document is on its way to being sold, or sold, without the stock of its
\* items: however many requests over its key failed, gave stock back or were
\* retried, at least that much is out (a conversion's is out under the note).
HeldStock ==
    \A k \in Keys :
        /\ taken[k] >= 0
        /\ Reserves(k) /\ doc[k].status \in {"PENDIENTE", "EMITIDO"} =>
             taken[k] >= doc[k].items
        /\ k \in Notes => taken[k] = sale[k].items

\* The ledger books a document only if Openfactura has issued it, and books
\* every document the ERP calls EMITIDO: timeouts, late answers and retries
\* included.
LedgerIsFiscal ==
    \A k \in Keys :
        /\ <<"DTE_DOCUMENT", k>> \in ledger => fiscal[k] = "issued"
        /\ doc[k].status = "EMITIDO" => <<"DTE_DOCUMENT", k>> \in ledger

\* The income of a note is never lost: it is in the ledger as the note's until
\* the note is CONVERTIDA, and from then on as its document's and only so.
NoteIncomeBooked ==
    \A k \in Notes :
        /\ sale[k].status = "EMITIDA" => <<"SALE_NOTE", k>> \in ledger
        /\ sale[k].status = "CONVERTIDA" =>
             <<"DTE_DOCUMENT", k>> \in ledger /\ <<"SALE_NOTE", k>> \notin ledger

-----------------------------------------------------------------------------
(* What a step may never do.                                               *)

\* A sale is made once: repeating its request, or two of them at a time, never
\* changes what was sold, and a converted note stays so.
SalesAreKept ==
    [][\A k \in Keys :
         /\ sale[k].status # "NONE" => sale'[k].items = sale[k].items
         /\ sale[k].status = "CONVERTIDA" => sale'[k] = sale[k]]_fiscalVars

\* The keys that requests have read in ERROR and not written over yet.
SeenInError == {call[q].key : q \in {p \in Calls : call[p].pc = "save" /\ call[p].seen # "none"}}

Contract == INSTANCE DteContract
    WITH DocumentKeys <- Keys, document <- [k \in Keys |-> doc[k].status],
         retried <- SeenInError

\* DteService keeps what returns and dispatch guides are modelled on: whatever
\* requests, answers, retries and restarts do, a document is opened once, again
\* only by who saw it in ERROR, and closed once each time.
ImplementsContract == Contract!ContractSpec

-----------------------------------------------------------------------------
(* Liveness.                                                               *)

\* Unless a request is lost half-way, every PENDIENTE document ends EMITIDO or
\* ERROR, by its request's answer or by one of the poller's.
PendingIsDecided ==
    \A k \in Keys :
        doc[k].status = "PENDIENTE"
            ~> (doc[k].status \in {"EMITIDO", "ERROR"} \/ failures > 0)

-----------------------------------------------------------------------------
(* What the repository says and the code does not keep.                    *)

\* AI/dte/01-pasos-iniciales.md: finalizeInTransaction closes the document
\* "con el resultado real de Openfactura".
ErrorWasNotIssued ==
    \A k \in Keys : doc[k].status = "ERROR" => fiscal[k] # "issued"

\* sales.service.ts: the early validation of the charge "evita emitir un DTE
\* que después no pueda registrar su pago": no sale ends without its row when
\* its document was issued and no request over it failed otherwise.
IssuedIsCharged ==
    [][\A q \in Calls :
         call[q].pc = "persist" /\ call'[q] = Idle /\ failures' = failures
           /\ doc[call[q].key].status = "EMITIDO"
             => sale'[call[q].key].status # "NONE"]_fiscalVars

\* sales.controller.ts, dte.controller.ts: the Idempotency-Key is there "para
\* evitar duplicados": its stock is taken once, and not at all in ERROR.
StockTakenOnce ==
    \A k \in Documents \cup ElectronicSales :
        taken[k] = IF doc[k].status \in {"PENDIENTE", "EMITIDO"}
                   THEN doc[k].items ELSE 0
===============================================================================
