--------------------------------- MODULE Sales ---------------------------------
(***************************************************************************)
(* SalesService over DteService: notes, which are sold in one transaction; *)
(* boletas and facturas, which are documents first and sales afterwards;   *)
(* and the conversion of a note into a document.  A key already sold is    *)
(* answered with its sale and changes nothing.                             *)
(*                                                                         *)
(* Sales that refer to dispatch guides are left out.  convert's shortcut   *)
(* for a note linked to an EMITIDO document is never taken: the link is    *)
(* only written by finishConversion, with the status.                      *)
(***************************************************************************)
EXTENDS DteDocuments

\* resolveSalePayments finds an OPEN session; a sale without payments asks none.
Chargeable(k) == k \in Paid => drawer = "OPEN"

\* persistNotaVenta: sale, stock, ledger and payments in one transaction.
CreateNote(k, n) ==
    /\ sale[k].status = "NONE"
    /\ Chargeable(k) /\ InStock(n)
    /\ sale' = [sale EXCEPT ![k] = [status |-> "EMITIDA", items |-> n]]
    /\ taken' = [taken EXCEPT ![k] = @ + n]
    /\ ledger' = ledger \cup {<<"SALE_NOTE", k>>}
    /\ UNCHANGED <<doc, drawer, fiscal, call, failures>>

\* createElectronicSale up to the document: the early validation of the charge,
\* without a lock.
StartSale(q, k, n) ==
    /\ call[q] = Idle
    /\ sale[k].status = "NONE"
    /\ Chargeable(k)
    /\ call' = [call EXCEPT ![q] = Arrived("sale", "lookup", k, n)]
    /\ UNCHANGED <<doc, sale, taken, ledger, drawer, fiscal, failures>>

\* persistElectronicSale, with the session locked.
PersistSale(q) ==
    LET k == call[q].key IN
    /\ call[q].pc = "persist"
    /\ sale[k].status = "NONE"
    /\ Chargeable(k)
    /\ sale' = [sale EXCEPT ![k] = [status |-> "EMITIDA", items |-> call[q].items]]
    /\ call' = [call EXCEPT ![q] = Idle]
    /\ UNCHANGED <<doc, taken, ledger, drawer, fiscal, failures>>

\* The sale is there already, or its session is not open any more (404).
PersistNothing(q) ==
    /\ call[q].pc = "persist"
    /\ sale[call[q].key].status # "NONE" \/ ~Chargeable(call[q].key)
    /\ call' = [call EXCEPT ![q] = Idle]
    /\ UNCHANGED <<doc, sale, taken, ledger, drawer, fiscal, failures>>

\* convert: reads the note without a lock and makes its document.
StartConversion(q, k) ==
    /\ call[q] = Idle
    /\ sale[k].status = "EMITIDA"
    /\ call' = [call EXCEPT ![q] = Arrived("convert", "lookup", k, sale[k].items)]
    /\ UNCHANGED <<doc, sale, taken, ledger, drawer, fiscal, failures>>

\* Mutation: the income of the note stays beside its document's.
FinishConversion_Twice(q) ==
    LET k == call[q].key IN
    /\ call[q].pc = "finish"
    /\ sale' = [sale EXCEPT ![k].status = "CONVERTIDA"]
    /\ call' = [call EXCEPT ![q] = Idle]
    /\ UNCHANGED <<doc, taken, ledger, drawer, fiscal, failures>>

\* finishConversion, with the sale locked: the ledger of the note gives way to
\* the document's.  Converted already, nothing changes.
FinishConversion(q) ==
    LET k == call[q].key IN
    /\ call[q].pc = "finish"
    /\ sale' = [sale EXCEPT ![k].status = "CONVERTIDA"]
    /\ ledger' = ledger \ {<<"SALE_NOTE", k>>}
    /\ call' = [call EXCEPT ![q] = Idle]
    /\ UNCHANGED <<doc, taken, drawer, fiscal, failures>>

SaleStep(q) == PersistSale(q) \/ PersistNothing(q) \/ FinishConversion(q)

\* The cash session opens and closes on its own (CashSessions).
TurnDrawer ==
    /\ drawer' = IF drawer = "OPEN" THEN "CLOSED" ELSE "OPEN"
    /\ UNCHANGED <<doc, sale, taken, ledger, fiscal, call, failures>>
===============================================================================
