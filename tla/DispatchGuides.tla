----------------------------- MODULE DispatchGuides -----------------------------
(***************************************************************************)
(* Dispatch guides (DTE 52), and the invoices and sales that bill them.    *)
(* A guide's stock leaves with its document and comes back when Openfactura*)
(* confirms that the guide is annulled.  An invoice takes the guides whole *)
(* (POST /dispatch-guides/:id/invoice), a sale some units of them (POST    *)
(* /sales with dispatchGuideIDs); what each took is kept in                *)
(* DispatchGuideReferenceItem rows.                                        *)
(*                                                                         *)
(* One product of one store.  Requests carry an Idempotency-Key, which is  *)
(* that of the document: a guide without one is never found by the         *)
(* listener.  Transport, receivers and amounts are left out.               *)
(***************************************************************************)
EXTENDS DteStates, Integers, FiniteSets, Functions, TLC

CONSTANTS
    Guides,       \* Idempotency-Keys of guides
    Invoices,     \* Idempotency-Keys of invoices of guides
    GuideSales,   \* Idempotency-Keys of sales that bill guides
    Requests,     \* requests being served at the same time
    Dispatched,   \* the units a guide carries
    InitialStock,
    Companions,   \* whether guides refer to a document that took the stock
    NULL

Bills == Invoices \cup GuideSales

ASSUME GuideAssumption ==
    /\ DocumentKeys = Guides \cup Bills
    /\ IsFiniteSet(Guides) /\ IsFiniteSet(Bills)
    /\ Guides \cap Bills = {} /\ Invoices \cap GuideSales = {}
    /\ Dispatched \in Nat \ {0} /\ InitialStock \in Nat
    /\ Companions \subseteq BOOLEAN
    /\ NULL \notin DocumentKeys

VARIABLES
    guide,      \* DispatchGuide rows, or NULL
    reserves,   \* DteDocument.stockReserved
    out,        \* units the movements that refer to a guide's document took
    consumed,   \* units of each guide the references of each bill took
    cited,      \* <<guide, bill>> of the DispatchGuideReference rows
    sold,       \* the sales that are persisted
    annulled,   \* the guides Openfactura has annulled
    call,       \* where each request is
    overwritten \* documents opened again while they were PENDIENTE or EMITIDO

guideVars == <<document, guide, reserves, out, consumed, cited, sold,
               annulled, call, overwritten>>

\* linked: the row has the dteDocumentID and, once EMITIDA, the folio.
\* companion: created with referencedDteDocumentID, a reference of its own.
GuideRow ==
    [status    : {"PENDIENTE", "EMITIDA", "ANULACION_PENDIENTE", "ANULADA"},
     linked    : BOOLEAN,
     companion : BOOLEAN]

ASSUME GuideNullAssumption == NULL \notin GuideRow

CallRow ==
    [pc       : {"idle", "lookup", "open", "sent", "link", "annul", "confirm", "reference",
                 "persist"},
     key      : DocumentKeys \cup {NULL},
     reserve  : BOOLEAN,
     sawError : BOOLEAN,
     guides   : SUBSET Guides,
     units    : Nat]

Idle == [pc |-> "idle", key |-> NULL, reserve |-> FALSE, sawError |-> FALSE,
         guides |-> {}, units |-> 0]

GuideInit ==
    /\ DteInit
    /\ guide = [g \in Guides |-> NULL]
    /\ reserves = [k \in DocumentKeys |-> FALSE]
    /\ out = [g \in Guides |-> 0]
    /\ consumed = [g \in Guides |-> [b \in Bills |-> 0]]
    /\ cited = {} /\ sold = {} /\ annulled = {} /\ overwritten = {}
    /\ call = [q \in Requests |-> Idle]

documentVars == <<document, reserves, overwritten>>
billVars     == <<consumed, cited, sold>>

Goes(q, pc) == call' = [call EXCEPT ![q].pc = pc]
Ends(q)     == call' = [call EXCEPT ![q] = Idle]
IsIn(g, status) == guide[g] # NULL /\ guide[g].status = status

-----------------------------------------------------------------------------
(* dispatch-guides-engine.ts                                               *)

ConsumedOf(g) == SumFunction(consumed[g])

Remaining(g) == IF Dispatched > ConsumedOf(g) THEN Dispatched - ConsumedOf(g) ELSE 0

RemainingOf(G) == SumFunction([g \in G |-> Remaining(g)])

\* What a bill may take of each guide: all it needs, guide by guide in the
\* order the client gave.
Plans(G, units) ==
    {plan \in [G -> 0..units] :
       /\ SumFunction(plan) = units
       /\ \A g \in G : plan[g] <= Remaining(g)
       /\ Cardinality({g \in G : plan[g] \notin {0, Remaining(g)}}) <= 1}

\* assertCanReference, and planConsumption finds enough.
Billable(G, units) ==
    /\ \A g \in G : IsIn(g, "EMITIDA") /\ guide[g].linked
    /\ units <= RemainingOf(G)

Cited(g) == guide[g].companion \/ \E b \in Bills : <<g, b>> \in cited

\* The references of bill b, and what they take.
Reference(G, b, plan) ==
    /\ cited' = cited \cup (G \X {b})
    /\ consumed' = [g \in Guides |->
         IF g \in G THEN [consumed[g] EXCEPT ![b] = @ + plan[g]] ELSE consumed[g]]

-----------------------------------------------------------------------------
(* The documents, and the listener the module registers.                   *)

InStock == InitialStock - SumFunction(out) >= Dispatched

\* A variant: whatever the guide's status.
Finalized_AnyStatus(k, status) ==
    IF status = "EMITIDO" /\ k \in Guides
    THEN [guide EXCEPT ![k].status = "EMITIDA", ![k].linked = TRUE]
    ELSE guide

\* onDteFinalized
Finalized(k, status) ==
    IF status = "EMITIDO" /\ k \in Guides /\ IsIn(k, "PENDIENTE")
    THEN [guide EXCEPT ![k].status = "EMITIDA", ![k].linked = TRUE]
    ELSE guide

\* finalizeInTransaction: in ERROR, what the document reserved goes back.
FinalizeDocument(k, status) ==
    /\ Close(k, status)
    /\ guide' = Finalized(k, status)
    /\ out' = IF status = "ERROR" /\ reserves[k] /\ k \in Guides
              THEN [out EXCEPT ![k] = @ - Dispatched] ELSE out
    /\ UNCHANGED <<reserves, overwritten>>

\* What follows once create has answered, whatever the status.
AfterDocument(q) ==
    CASE call[q].key \in Invoices   -> Goes(q, "reference")
      [] call[q].key \in GuideSales -> Goes(q, "persist")
      [] OTHER -> Ends(q)

\* create threw: a guide looks for the document of its key.
AfterError(q) == IF call[q].key \in Guides THEN Goes(q, "link") ELSE Ends(q)

\* DteService.create, prepare
LookupDocument(q) ==
    LET k == call[q].key IN
    /\ call[q].pc = "lookup"
    /\ IF document[k] \in {"NONE", "ERROR"}
       THEN call' = [call EXCEPT ![q].pc = "open", ![q].sawError = document[k] = "ERROR"]
       ELSE AfterDocument(q)
    /\ UNCHANGED <<guide, out, annulled>> /\ UNCHANGED documentVars /\ UNCHANGED billVars

\* A guide takes its stock; without enough the transaction rolls back.
OpenDocument(q) ==
    LET k == call[q].key IN
    /\ call[q].pc = "open"
    /\ CASE ~Openable(k, call[q].sawError) ->
              AfterDocument(q) /\ UNCHANGED documentVars /\ UNCHANGED out
         [] Openable(k, call[q].sawError) /\ call[q].reserve /\ ~InStock ->
              AfterError(q) /\ UNCHANGED documentVars /\ UNCHANGED out
         [] OTHER ->
              /\ Open(k, call[q].sawError)
              /\ call' = [call EXCEPT ![q].pc = "sent", ![q].sawError = FALSE]
              /\ reserves' = [reserves EXCEPT ![k] = call[q].reserve]
              /\ out' = IF call[q].reserve THEN [out EXCEPT ![k] = @ + Dispatched] ELSE out
              /\ overwritten' = IF document[k] \in {"PENDIENTE", "EMITIDO"}
                                THEN overwritten \cup {k} ELSE overwritten
    /\ UNCHANGED <<guide, annulled>> /\ UNCHANGED billVars

\* Openfactura's answer, or none.
SendDocument(q) ==
    LET k == call[q].key IN
    /\ call[q].pc = "sent"
    /\ IF document[k] # "PENDIENTE"
       THEN AfterDocument(q) /\ UNCHANGED documentVars /\ UNCHANGED <<guide, out>>
       ELSE \/ FinalizeDocument(k, "EMITIDO") /\ AfterDocument(q)
            \/ FinalizeDocument(k, "ERROR") /\ AfterError(q)
            \/ AfterDocument(q) /\ UNCHANGED documentVars /\ UNCHANGED <<guide, out>>
    /\ UNCHANGED annulled /\ UNCHANGED billVars

\* The cycle of DteService.
PollDocument(k) ==
    /\ \E status \in {"EMITIDO", "ERROR"} : FinalizeDocument(k, status)
    /\ UNCHANGED <<annulled, call>> /\ UNCHANGED billVars

-----------------------------------------------------------------------------
(* POST /dispatch-guides                                                   *)

\* The row is saved before its document is asked for; one that refers to a
\* document of a sale takes its stock only if that document did not.
CreateGuide(q, g) ==
    /\ call[q] = Idle /\ guide[g] = NULL
    /\ \E companion \in Companions :
         /\ guide' = [guide EXCEPT ![g] =
              [status |-> "PENDIENTE", linked |-> FALSE, companion |-> companion]]
         /\ call' = [call EXCEPT ![q] =
              [Idle EXCEPT !.pc = "lookup", !.key = g, !.reserve = ~companion]]
    /\ UNCHANGED documentVars /\ UNCHANGED billVars /\ UNCHANGED <<out, annulled>>

\* The handler of the error gives the guide the ID of its document.
LinkGuide(q) ==
    LET g == call[q].key IN
    /\ call[q].pc = "link"
    /\ guide' = IF document[g] = "NONE" THEN guide ELSE [guide EXCEPT ![g].linked = TRUE]
    /\ Ends(q)
    /\ UNCHANGED documentVars /\ UNCHANGED billVars /\ UNCHANGED <<out, annulled>>

\* POST /dispatch-guides/:id/reconcile: the row is read without a lock.
ReconcileGuide(q, g) ==
    /\ call[q] = Idle
    /\ \/ /\ IsIn(g, "PENDIENTE")
          /\ call' = [call EXCEPT ![q] =
               [Idle EXCEPT !.key = g, !.reserve = TRUE,
                 !.pc = IF guide[g].linked /\ document[g] = "PENDIENTE" THEN "sent" ELSE "lookup"]]
       \/ /\ IsIn(g, "ANULACION_PENDIENTE") /\ guide[g].linked
          /\ call' = [call EXCEPT ![q] = [Idle EXCEPT !.key = g, !.pc = "annul"]]
    /\ UNCHANGED documentVars /\ UNCHANGED billVars /\ UNCHANGED <<guide, out, annulled>>

-----------------------------------------------------------------------------
(* POST /dispatch-guides/:id/anular                                        *)

\* The row is locked: EMITIDA, and nothing refers to it.
AnnulGuide(q, g) ==
    /\ call[q] = Idle
    /\ IsIn(g, "EMITIDA") /\ guide[g].linked /\ ~Cited(g)
    /\ guide' = [guide EXCEPT ![g].status = "ANULACION_PENDIENTE"]
    /\ call' = [call EXCEPT ![q] = [Idle EXCEPT !.key = g, !.pc = "annul"]]
    /\ UNCHANGED documentVars /\ UNCHANGED billVars /\ UNCHANGED <<out, annulled>>

\* anularDte52: done and known, done and the answer lost, or refused.
AskAnnulment(q) ==
    LET g == call[q].key IN
    /\ call[q].pc = "annul"
    /\ \/ annulled' = annulled \cup {g} /\ Goes(q, "confirm")
       \/ annulled' \in {annulled, annulled \cup {g}} /\ Ends(q)
    /\ UNCHANGED documentVars /\ UNCHANGED billVars /\ UNCHANGED <<guide, out>>

\* A variant: a guide that is ANULADA is confirmed again.
ConfirmAnulacion_Again(q) ==
    LET g == call[q].key IN
    /\ call[q].pc = "confirm"
    /\ IF ~Cited(g)
       THEN /\ guide' = [guide EXCEPT ![g].status = "ANULADA"]
            /\ out' = [out EXCEPT ![g] = @ - Dispatched]
       ELSE UNCHANGED <<guide, out>>
    /\ Ends(q)
    /\ UNCHANGED documentVars /\ UNCHANGED billVars /\ UNCHANGED annulled

\* confirmAnulacion
ConfirmAnulacion(q) ==
    LET g == call[q].key IN
    /\ call[q].pc = "confirm"
    /\ IF IsIn(g, "ANULACION_PENDIENTE") /\ ~Cited(g)
       THEN /\ guide' = [guide EXCEPT ![g].status = "ANULADA"]
            /\ out' = [out EXCEPT ![g] = @ - Dispatched]
       ELSE UNCHANGED <<guide, out>>
    /\ Ends(q)
    /\ UNCHANGED documentVars /\ UNCHANGED billVars /\ UNCHANGED annulled

-----------------------------------------------------------------------------
(* Bills of guides.                                                        *)

StartBill(q, b, G, units) ==
    /\ call[q] = Idle
    /\ G # {} /\ Billable(G, units)
    /\ call' = [call EXCEPT ![q] =
         [Idle EXCEPT !.pc = "lookup", !.key = b, !.guides = G, !.units = units]]
    /\ UNCHANGED documentVars /\ UNCHANGED billVars /\ UNCHANGED <<guide, out, annulled>>

\* The lines of an invoice are those of its guides, whole.
MapGuidesToInvoice(G) == Dispatched * Cardinality(G)

\* POST /dispatch-guides/:id/invoice plans what the guides are asked for ...
InvoiceGuides(q, b, G) == StartBill(q, b, G, MapGuidesToInvoice(G))

\* ... and its plan is written as it was made, whatever the guides are by now.
SaveReferences(q) ==
    LET G == call[q].guides IN
    /\ call[q].pc = "reference"
    /\ Reference(G, call[q].key, [g \in G |-> Dispatched])
    /\ Ends(q)
    /\ UNCHANGED documentVars /\ UNCHANGED <<guide, out, annulled, sold>>

\* POST /sales with dispatchGuideIDs
SellGuides(q, b, G, units) == b \notin sold /\ StartBill(q, b, G, units)

\* A variant: the plan made before the document was asked for is written.
PersistGuideSale_OldPlan(q) ==
    LET b == call[q].key  G == call[q].guides  units == call[q].units IN
    /\ call[q].pc = "persist"
    /\ IF b \notin sold
       THEN /\ sold' = sold \cup {b}
            /\ Reference(G, b, [g \in G |-> units])
       ELSE UNCHANGED billVars
    /\ Ends(q)
    /\ UNCHANGED documentVars /\ UNCHANGED <<guide, out, annulled>>

\* persistElectronicSale plans again, with the guides locked: when they no
\* longer have enough, the sale is not persisted.
PersistGuideSale(q) ==
    LET b == call[q].key  G == call[q].guides  units == call[q].units IN
    /\ call[q].pc = "persist"
    /\ IF b \notin sold /\ Billable(G, units)
       THEN /\ sold' = sold \cup {b}
            /\ \E plan \in Plans(G, units) : Reference(G, b, plan)
       ELSE UNCHANGED billVars
    /\ Ends(q)
    /\ UNCHANGED documentVars /\ UNCHANGED <<guide, out, annulled>>

\* The server restarts: what is being served is lost.
Restart ==
    /\ \E q \in Requests : call[q] # Idle
    /\ call' = [q \in Requests |-> Idle]
    /\ UNCHANGED documentVars /\ UNCHANGED billVars /\ UNCHANGED <<guide, out, annulled>>

-----------------------------------------------------------------------------

GuideNext ==
    \/ \E q \in Requests, g \in Guides :
         CreateGuide(q, g) \/ ReconcileGuide(q, g) \/ AnnulGuide(q, g)
    \/ \E q \in Requests, b \in Invoices, G \in SUBSET Guides : InvoiceGuides(q, b, G)
    \/ \E q \in Requests, b \in GuideSales, G \in SUBSET Guides, n \in 1..Dispatched :
         SellGuides(q, b, G, n)
    \/ \E q \in Requests :
         \/ LookupDocument(q) \/ OpenDocument(q) \/ SendDocument(q) \/ LinkGuide(q)
         \/ AskAnnulment(q) \/ ConfirmAnulacion(q) \/ SaveReferences(q) \/ PersistGuideSale(q)
    \/ \E k \in DocumentKeys : PollDocument(k)
    \/ Restart

GuideSpec == GuideInit /\ [][GuideNext]_guideVars

-----------------------------------------------------------------------------

\* The rows and requests have their shapes.
GuideTypeOK ==
    /\ document \in [DocumentKeys -> DocumentStatus]
    /\ guide \in [Guides -> GuideRow \cup {NULL}]
    /\ reserves \in [DocumentKeys -> BOOLEAN]
    /\ out \in [Guides -> Int]
    /\ annulled \subseteq Guides
    /\ call \in [Requests -> CallRow]

\* The stock of a guide is out exactly while its document is under way or
\* issued and the guide is not ANULADA: requests that repeat, documents that
\* fail and are tried again, reconciliations and annulments that race leave it
\* out once.  Apart are a document a second retry wrote over while another had
\* it under way, and a companion, whose stock a document of a sale may hold.
GuideTakesItsStock ==
    \A g \in Guides \ overwritten :
        \/ guide[g] # NULL /\ guide[g].companion
        \/ out[g] = IF document[g] \in {"PENDIENTE", "EMITIDO"} /\ ~IsIn(g, "ANULADA")
                    THEN Dispatched ELSE 0

\* A guide is ANULADA, and its stock back, only if Openfactura annulled it,
\* and what has been annulled there goes on being annulled here.
AnnulmentsAreConfirmed ==
    \A g \in Guides :
        /\ IsIn(g, "ANULADA") => g \in annulled
        /\ g \in annulled => guide[g].status \in {"ANULACION_PENDIENTE", "ANULADA"}

\* However many sales bill a guide at the same time, and invoices besides,
\* the sales take no more units of it than it dispatched.
SalesWithinGuides ==
    \A g \in Guides : SumFunctionOnSet(consumed[g], GuideSales) <= Dispatched

-----------------------------------------------------------------------------
(* What the repository says and the code does not keep.                    *)

\* dispatch-guides-repository.helpers.ts: the guides are locked so as to
\* "planificar consumo acumulado sin carreras entre emisiones concurrentes".
BillsWithinGuides == \A g \in Guides : ConsumedOf(g) <= Dispatched

\* dispatch-guides.controller.ts: the annulment is "Bloqueada si la guía ya
\* está referenciada por una factura/boleta".
AnnulledAreNotBilled ==
    \A g \in Guides : IsIn(g, "ANULADA") => \A b \in Bills : <<g, b>> \notin cited

-----------------------------------------------------------------------------
(* For the configurations.                                                 *)

\* No property or action tells one request, or one sale, from another.
GuideSymmetry == Permutations(Requests) \cup Permutations(GuideSales)
=================================================================================
