----------------------------- MODULE DteDocuments -----------------------------
(***************************************************************************)
(* DteService and OpenfacturaClientService.  create works in three parts   *)
(* that nothing ties together: a transaction that looks for the document   *)
(* of the key and, later in it, writes it PENDIENTE and reserves stock     *)
(* (prepare), the HTTP call, and a transaction that closes the document    *)
(* with the answer (finalizeInTransaction).  The two statements of prepare *)
(* lock nothing between them, so they are two steps.                       *)
(*                                                                         *)
(* The folio and the dispatch guides, whose documents reserve under another *)
(* reason, are left out.                                                   *)
(***************************************************************************)
EXTENDS FiscalTables

\* What follows once create or reconcile has answered with a document status.
\* A sale is persisted whatever it is; a conversion wants EMITIDO, and tries
\* reconcile once when create left it PENDIENTE.
Answered(c, status) ==
    CASE c.flow = "sale" -> Arrived("sale", "persist", c.key, c.items)
      [] c.flow = "convert" /\ status = "PENDIENTE" ->
           Arrived("confirm", "confirm", c.key, c.items)
      [] c.flow \in {"convert", "confirm"} /\ status = "EMITIDO" ->
           Arrived(c.flow, "finish", c.key, c.items)
      [] OTHER -> Idle

Reply(q, status) == call' = [call EXCEPT ![q] = Answered(@, status)]

\* The request fails with an HTTP error.
Fail(q) == call' = [call EXCEPT ![q] = Idle]

StartDocument(q, k, n) ==
    /\ call[q] = Idle
    /\ call' = [call EXCEPT ![q] = Arrived("document", "lookup", k, n)]
    /\ UNCHANGED <<doc, sale, taken, ledger, drawer, fiscal, failures>>

\* Mutation: one that is PENDIENTE is tried again too.
Retryable_Pending(status) == status # "EMITIDO"

\* A missing document is created, one in ERROR is tried again.
Retryable(status) == status \in {"NONE", "ERROR"}

\* prepare, findExistingDteDocument: reads without a lock.
Lookup(q) ==
    LET row == doc[call[q].key] IN
    /\ call[q].pc = "lookup"
    /\ IF Retryable(row.status)
       THEN call' = [call EXCEPT ![q].pc = "save",
                                 ![q].seen = IF row.status = "NONE" THEN "none"
                                             ELSE row.token]
       ELSE Reply(q, row.status)
    /\ UNCHANGED <<doc, sale, taken, ledger, drawer, fiscal, failures>>

\* The INSERT failed on the unique index: a document that appeared meanwhile
\* is answered as it is, unless it is in ERROR.
ReuseConcurrent(q) ==
    /\ call[q].pc = "save" /\ call[q].seen = "none"
    /\ ~Retryable(doc[call[q].key].status)
    /\ Reply(q, doc[call[q].key].status)
    /\ UNCHANGED <<doc, sale, taken, ledger, drawer, fiscal, failures>>

\* The document is inserted, or the one that was read in ERROR written over
\* whatever has become of it since, and the stock of its items reserved.  With
\* a token of Openfactura the document is asked for, not sent again.
Prepare(q) ==
    LET k == call[q].key  n == call[q].items  remote == call[q].seen = "remote" IN
    /\ call[q].pc = "save"
    /\ call[q].seen = "none" => Retryable(doc[k].status)
    /\ Reserves(k) => InStock(n)
    /\ doc' = [doc EXCEPT ![k] =
                 [status |-> "PENDIENTE", items |-> n,
                  token |-> IF remote THEN "remote" ELSE "local"]]
    /\ taken' = IF Reserves(k) THEN [taken EXCEPT ![k] = @ + n] ELSE taken
    /\ call' = [call EXCEPT ![q].pc = IF remote THEN "getting" ELSE "post",
                            ![q].seen = "none"]
    /\ UNCHANGED <<sale, ledger, drawer, fiscal, failures>>

\* Not enough stock: the transaction rolls back.
PrepareFails(q) ==
    /\ call[q].pc = "save"
    /\ Reserves(call[q].key) /\ ~InStock(call[q].items)
    /\ call[q].seen = "none" => Retryable(doc[call[q].key].status)
    /\ Fail(q)
    /\ UNCHANGED <<doc, sale, taken, ledger, drawer, fiscal, failures>>

-----------------------------------------------------------------------------
(* Openfactura.  It takes a key for one document (Idempotency-Key) unless  *)
(* it has refused it.                                                      *)

Post(q) ==
    LET k == call[q].key IN
    /\ call[q].pc = "post"
    /\ fiscal' = IF fiscal[k] \in {"none", "refused"}
                 THEN [fiscal EXCEPT ![k] = "sent"] ELSE fiscal
    /\ call' = [call EXCEPT ![q].pc = "posting"]
    /\ UNCHANGED <<doc, sale, taken, ledger, drawer, failures>>

\* Openfactura handles a document it was sent, however late, ...
Receive(k) ==
    /\ fiscal[k] = "sent"
    /\ \E state \in {"pending", "issued", "refused"} :
         fiscal' = [fiscal EXCEPT ![k] = state]
    /\ UNCHANGED <<doc, sale, taken, ledger, drawer, call, failures>>

\* ... and decides one it left pending.
Decide(k) ==
    /\ fiscal[k] = "pending"
    /\ \E state \in {"issued", "refused"} : fiscal' = [fiscal EXCEPT ![k] = state]
    /\ UNCHANGED <<doc, sale, taken, ledger, drawer, call, failures>>

AnswerArrives(q, answer) ==
    /\ call' = [call EXCEPT ![q].pc = "finalize", ![q].answer = answer]
    /\ UNCHANGED <<doc, sale, taken, ledger, drawer, fiscal, failures>>

Decided == {"pending", "issued", "refused"}

AnswerPost(q) ==
    /\ call[q].pc = "posting"
    /\ fiscal[call[q].key] \in Decided
    /\ AnswerArrives(q, fiscal[call[q].key])

\* A document Openfactura does not know is an error answer too.
AnswerGet(q) ==
    LET state == fiscal[call[q].key] IN
    /\ call[q].pc = "getting"
    /\ AnswerArrives(q, IF state \in Decided THEN state ELSE "refused")

\* callOpenfactura aborts after OPENFACTURA_TIMEOUT_MS, or the network fails:
\* nothing is known of what Openfactura did.
NoAnswer(q) ==
    /\ call[q].pc \in {"posting", "getting"}
    /\ AnswerArrives(q, "lost")

-----------------------------------------------------------------------------
(* finalizeInTransaction: the document row is locked.                      *)

\* Another request closed it first: its status is answered.
FinalizeAlready(q) ==
    LET status == doc[call[q].key].status IN
    /\ call[q].pc = "finalize"
    /\ status \in {"EMITIDO", "ERROR"}
    /\ Reply(q, status)
    /\ UNCHANGED <<doc, sale, taken, ledger, drawer, fiscal, failures>>

\* normalizeStatus over the answer; no answer counts as ERROR.
StatusOf(answer) ==
    CASE answer = "issued" -> "EMITIDO"
      [] answer = "pending" -> "PENDIENTE"
      [] OTHER -> "ERROR"

\* Mutation: the ledger is written when the document is closed, not issued.
Booked_Pending(k, status) == ledger \cup {<<"DTE_DOCUMENT", k>>}

\* recordDte
Booked(k, status) ==
    IF status = "EMITIDO" THEN ledger \cup {<<"DTE_DOCUMENT", k>>} ELSE ledger

\* Mutation: the token the answer brings is not kept.
FinalizeAccepted_KeepsToken(q) ==
    LET k == call[q].key  status == StatusOf(call[q].answer) IN
    /\ call[q].pc = "finalize"
    /\ doc[k].status = "PENDIENTE"
    /\ status # "ERROR"
    /\ doc' = [doc EXCEPT ![k].status = status]
    /\ ledger' = Booked(k, status)
    /\ Reply(q, status)
    /\ UNCHANGED <<sale, taken, drawer, fiscal, failures>>

\* buildDteFinalizePlan, success: Openfactura's token, and the ledger if issued.
FinalizeAccepted(q) ==
    LET k == call[q].key  status == StatusOf(call[q].answer) IN
    /\ call[q].pc = "finalize"
    /\ doc[k].status = "PENDIENTE"
    /\ status # "ERROR"
    /\ doc' = [doc EXCEPT ![k].status = status, ![k].token = "remote"]
    /\ ledger' = Booked(k, status)
    /\ Reply(q, status)
    /\ UNCHANGED <<sale, taken, drawer, fiscal, failures>>

\* Mutation: what a conversion's document did not reserve is given back too.
Reverted_Always(q) ==
    [taken EXCEPT ![call[q].key] = @ - doc[call[q].key].items]

\* revertReservedStock: the items the document has by now.
Reverted(q) ==
    IF Reserves(call[q].key)
    THEN [taken EXCEPT ![call[q].key] = @ - doc[call[q].key].items] ELSE taken

\* buildDteFinalizePlan, error, a lost answer included: the stock goes back.
\* An error answer may carry a token.
FinalizeError(q) ==
    LET k == call[q].key IN
    /\ call[q].pc = "finalize"
    /\ doc[k].status = "PENDIENTE"
    /\ StatusOf(call[q].answer) = "ERROR"
    /\ \E token \in {doc[k].token} \cup {t \in {"remote"} : call[q].answer = "refused"} :
         doc' = [doc EXCEPT ![k].status = "ERROR", ![k].token = token]
    /\ taken' = Reverted(q)
    /\ Fail(q)
    /\ UNCHANGED <<sale, ledger, drawer, fiscal, failures>>

-----------------------------------------------------------------------------
(* reconcile: asks Openfactura for a PENDIENTE document it gave a token.   *)

\* Of the poller, and of POST /v2/dte/:id/reconcile or a cycle that overlaps
\* the one before, which are requests.
StartReconcile(q, k) ==
    /\ call[q] = Idle
    /\ doc[k].status = "PENDIENTE" /\ doc[k].token = "remote"
    /\ call' = [call EXCEPT ![q] = Arrived("reconcile", "getting", k, 0)]
    /\ UNCHANGED <<doc, sale, taken, ledger, drawer, fiscal, failures>>

\* Of a conversion whose document create left PENDIENTE: with a local token it
\* fails, closed meanwhile it is answered.
Confirm(q) ==
    LET row == doc[call[q].key] IN
    /\ call[q].pc = "confirm"
    /\ IF row.status # "PENDIENTE" THEN Reply(q, row.status)
       ELSE IF row.token = "local" THEN Fail(q)
       ELSE call' = [call EXCEPT ![q].pc = "getting"]
    /\ UNCHANGED <<doc, sale, taken, ledger, drawer, fiscal, failures>>

Lose(Q) ==
    /\ failures < MaxFailures
    /\ failures' = failures + 1
    /\ call' = [q \in Calls |-> IF q \in Q THEN Idle ELSE call[q]]
    /\ UNCHANGED <<doc, sale, taken, ledger, drawer, fiscal>>

\* The transaction a request has come to fails (a lock or a connection waited
\* for too long): what it committed before stays.
Abort(q) == call[q] # Idle /\ Lose({q})

\* The server restarts: what was being served is gone, what was sent is not.
Crash == Lose(Calls)

Openfactura == \E k \in Keys : Receive(k) \/ Decide(k)

\* What a request being served does next in DteService.
DteStep(q) ==
    \/ Lookup(q) \/ ReuseConcurrent(q) \/ Prepare(q) \/ PrepareFails(q)
    \/ Post(q) \/ AnswerPost(q) \/ AnswerGet(q) \/ NoAnswer(q)
    \/ FinalizeAlready(q) \/ FinalizeAccepted(q) \/ FinalizeError(q)
    \/ Confirm(q)
===============================================================================
