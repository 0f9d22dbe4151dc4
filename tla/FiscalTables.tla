----------------------------- MODULE FiscalTables -----------------------------
(***************************************************************************)
(* What selling shares: the DteDocument, Sale and FinancialMovement rows,  *)
(* the inventory movements that refer to them, the cash session a sale is  *)
(* charged in, Openfactura, and the requests being served.                 *)
(*                                                                         *)
(* A key is what a client asks for once, however often it repeats the      *)
(* request: the Idempotency-Key of a document or of a sale, which both     *)
(* tables hold under a unique index, or the saleID of a note, which is the *)
(* Idempotency-Key of the document it is converted into.  One product of   *)
(* one store is sold; money, folios and cost prices are left out.          *)
(***************************************************************************)
EXTENDS Integers, Functions

CONSTANTS
    Documents,        \* keys of POST /v2/dte/document
    ElectronicSales,  \* keys of boletas and facturas
    Notes,            \* keys of notes (NOTA_VENTA)
    Paid,             \* the sales whose requests carry payments
    Reconciled,       \* bound: the keys requests reconcile, besides the poller
    Requests,         \* requests being served at the same time
    Poller,           \* the reconciliation cycle
    Quantities,       \* the quantities a request may carry
    InitialStock,
    AllowNegative,    \* Store.allowNegativeStock
    MaxFailures,      \* bound: requests lost half-way
    NULL

ASSUME KeyAssumption ==
    /\ Documents \cap (ElectronicSales \cup Notes) = {}
    /\ ElectronicSales \cap Notes = {}
    /\ Paid \subseteq ElectronicSales \cup Notes
    /\ Reconciled \subseteq Documents \cup ElectronicSales \cup Notes
    /\ NULL \notin Documents \cup ElectronicSales \cup Notes
ASSUME QuantityAssumption ==
    /\ Quantities \subseteq Nat \ {0}
    /\ InitialStock \in Nat
    /\ AllowNegative \in BOOLEAN
ASSUME CallAssumption == Poller \notin Requests /\ MaxFailures \in Nat

Keys  == Documents \cup ElectronicSales \cup Notes
Calls == Requests \cup {Poller}

VARIABLES
    doc,      \* DteDocument rows, by key
    sale,     \* Sale rows, by key
    taken,    \* what the inventory movements that refer to the key add up to
    ledger,   \* <<sourceType, key>> of the FinancialMovement rows
    drawer,   \* the cash session sales are charged in: "OPEN" or "CLOSED"
    fiscal,   \* what Openfactura knows of the key
    call,     \* where each request is
    failures  \* requests lost half-way so far

fiscalVars == <<doc, sale, taken, ledger, drawer, fiscal, call, failures>>

-----------------------------------------------------------------------------
(* Rows.                                                                   *)

\* token is the code's own ("local-...") until Openfactura has given one.
DocRow ==
    [status : {"NONE", "PENDIENTE", "EMITIDO", "ERROR"},
     token  : {"local", "remote"},
     items  : Quantities \cup {0}]

NoDoc == [status |-> "NONE", token |-> "local", items |-> 0]

SaleRow == [status : {"NONE", "EMITIDA", "CONVERTIDA"}, items : Quantities \cup {0}]
NoSale  == [status |-> "NONE", items |-> 0]

\* The sources recordDte and recordSaleNote write movements for.
Sources == {"DTE_DOCUMENT", "SALE_NOTE"} \X Keys

\* "sent": a POST is on its way; "pending": received, not decided.
FiscalStates == {"none", "sent", "pending", "issued", "refused"}

\* What callOpenfactura resolves to: the state it was told, or no answer (a
\* timeout or a network error).
Answers == {"issued", "pending", "refused", "lost"}

\* flow: what the request is for, "confirm" once a conversion has gone on to
\* reconcile; seen: the token of the ERROR document its first read found.
CallRow ==
    [pc     : {"idle", "lookup", "save", "post", "posting", "getting",
               "finalize", "confirm", "persist", "finish"},
     flow   : {"none", "document", "sale", "convert", "confirm", "reconcile"},
     key    : Keys \cup {NULL},
     items  : Quantities \cup {0},
     seen   : {"none", "local", "remote"},
     answer : Answers \cup {"none"}]

Idle == [pc |-> "idle", flow |-> "none", key |-> NULL, items |-> 0,
         seen |-> "none", answer |-> "none"]

Arrived(flow, pc, k, n) ==
    [Idle EXCEPT !.pc = pc, !.flow = flow, !.key = k, !.items = n]

-----------------------------------------------------------------------------
(* Stock.                                                                  *)

\* StoreProduct.stock: each of its changes inserts its movement with it.
Stock == InitialStock - SumFunction(taken)

\* reserveStockAndSnapshotCosts, whose reason is SALE here.
InStock(n) == AllowNegative \/ Stock >= n

\* The documents of notes do not reserve: the note did (reserveStock: false).
Reserves(k) == k \notin Notes

Init ==
    /\ doc = [k \in Keys |-> NoDoc]
    /\ sale = [k \in Keys |-> NoSale]
    /\ taken = [k \in Keys |-> 0]
    /\ ledger = {}
    /\ drawer = "CLOSED"
    /\ fiscal = [k \in Keys |-> "none"]
    /\ call = [q \in Calls |-> Idle]
    /\ failures = 0

\* Rows, requests and states are of the shapes above; only a request at rest
\* has no key.
TypeOK ==
    /\ doc \in [Keys -> DocRow]
    /\ sale \in [Keys -> SaleRow]
    /\ taken \in [Keys -> Int]
    /\ ledger \subseteq Sources
    /\ drawer \in {"OPEN", "CLOSED"}
    /\ fiscal \in [Keys -> FiscalStates]
    /\ call \in [Calls -> CallRow]
    /\ failures \in 0..MaxFailures
    /\ \A q \in Calls : call[q].pc # "idle" => call[q].key \in Keys
===============================================================================
