----------------------------- MODULE CashReports -----------------------------
(***************************************************************************)
(* CashReportsService: the summary of a session and that of the sessions   *)
(* of a store over a range of business dates.  They answer the same        *)
(* questions with queries of their own, so they may disagree.  A range is  *)
(* the set of sessions the dates and the store select.  Days, operators    *)
(* and counts are more totals of the same rows and are left out.           *)
(***************************************************************************)
EXTENDS CashDesk

\* What an aggregate says of the rows it selects, and of the rows of others.
Total(table, ids, field) ==
    [count |-> Cardinality(ids), amount |-> SumFunction([i \in ids |-> table[i][field]])]
Both(rows) == [count  |-> SumFunction([row \in rows |-> row.total.count]),
               amount |-> SumFunction([row \in rows |-> row.total.amount])]

-----------------------------------------------------------------------------
(* getSessionSummary: what a supervisor looks at before sealing.            *)

Posted(s, type) == Total(movement, {m \in PostedOf(s) : movement[m].type = type}, "amount")
Charged(s, field) == Total(sale, {v \in Sales : sale[v].session = s}, field).amount

SumSessionTransferTotals(s) ==
    LET Of(ids) == Total(transfer, ids, "amount")
        sent == {t \in Transfers : transfer[t].source = s /\ transfer[t].status = "COMPLETED"}
    IN  [out |-> Of(sent),
         toRegister |-> Of({t \in sent : transfer[t].destination \in Registers}),
         toVault    |-> Of({t \in sent : transfer[t].destination = Vault}),
         in |-> Of({t \in Transfers : transfer[t].destSession = s
                                        /\ transfer[t].status = "COMPLETED"}),
         pending |-> Of(OpenTransfersOf(s))]

SessionSummary(s) ==
    [session |-> s, opening |-> session[s].opening,
     cashIn |-> Posted(s, "CASH_IN"), cashOut |-> Posted(s, "CASH_OUT"),
     payments |-> Charged(s, "cash") + Charged(s, "other"), nonCash |-> NonCash(s),
     transfers |-> SumSessionTransferTotals(s),
     expectedCash |-> ExpectedCash(s)]

-----------------------------------------------------------------------------
(* getStoreSummary: one aggregate query per table, its rows grouped by the  *)
(* columns they carry, then a pass over the rows; a group with no rows adds *)
(* nothing.                                                                *)

\* A variant: voided movements are added too.
FetchMovementRows_Voided(range) ==
    {[session |-> s, type |-> type,
      total |-> Total(movement, {m \in Movements : movement[m].session = s
                                                     /\ movement[m].type = type}, "amount")]
        : s \in range, type \in {"CASH_IN", "CASH_OUT"}}

FetchMovementRows(range) ==
    {[session |-> s, type |-> type,
      total |-> Total(movement, {m \in Movements : /\ movement[m].status = "POSTED"
                                                   /\ movement[m].session = s
                                                   /\ movement[m].type = type}, "amount")]
        : s \in range, type \in {"CASH_IN", "CASH_OUT"}}

\* A variant: affectsCash comes back as text, and any text is true.
FetchPaymentRows_Text(range) ==
    {[session |-> s, method |-> "cash",
      total |-> Total(sale, {v \in Sales : sale[v].session = s}, method)]
        : s \in range, method \in {"cash", "other"}}

\* By the session and whether the method affects the cash.
FetchPaymentRows(range) ==
    {[session |-> s, method |-> method,
      total |-> Total(sale, {v \in Sales : sale[v].session = s}, method)]
        : s \in range, method \in {"cash", "other"}}

\* Transfers out of the range, whatever their status.
FetchTransferOutRows(range) ==
    LET Row(s, status, vault) ==
          [session |-> s, status |-> status, toVault |-> vault,
           total |-> Total(transfer, {t \in Transfers : /\ transfer[t].source = s
                                                        /\ transfer[t].status = status
                                                        /\ (transfer[t].destination = Vault) = vault},
                           "amount")]
    IN  {Row(s, status, vault) : s \in range, vault \in BOOLEAN,
                                 status \in {"COMPLETED"} \cup OpenTransfer \cup DeadTransfer}

FetchTransferInRows(range) ==
    {[session |-> s,
      total |-> Total(transfer, {t \in Transfers : /\ transfer[t].destSession = s
                                                   /\ transfer[t].status = "COMPLETED"}, "amount")]
        : s \in range}

FetchPendingTransfers(range) ==
    {t \in Transfers : transfer[t].source \in range /\ transfer[t].status \in OpenTransfer}

\* The balance of the seal where there is one, else that of the movements read.
ExpectedIn(s, movementRows) ==
    LET Of(type) == Both({row \in movementRows : row.session = s /\ row.type = type}).amount
    IN  IF session[s].expected # NULL THEN session[s].expected
        ELSE session[s].opening + Of("CASH_IN") - Of("CASH_OUT")

AggregateStoreSummary(range, movementRows, paymentRows, outRows, inRows, pendingTransfers) ==
    LET sent        == {row \in outRows : row.status = "COMPLETED"}
        Moved(type) == Both({row \in movementRows : row.type = type})
    IN  [opening |-> SumFunction([s \in range |-> session[s].opening]),
         expectedCash |-> SumFunction([s \in range |-> ExpectedIn(s, movementRows)]),
         cashIn |-> Moved("CASH_IN"), cashOut |-> Moved("CASH_OUT"),
         payments |-> Both(paymentRows).amount,
         nonCash |-> Both({row \in paymentRows : row.method = "other"}).amount,
         transfers |->
           [out |-> Both(sent), toRegister |-> Both({row \in sent : ~row.toVault}),
            toVault |-> Both({row \in sent : row.toVault}),
            in |-> Both(inRows), pending |-> Both(outRows \ sent)],
         pendingTransfers |-> pendingTransfers]

StoreSummary(range) ==
    AggregateStoreSummary(range, FetchMovementRows(range), FetchPaymentRows(range),
                          FetchTransferOutRows(range), FetchTransferInRows(range),
                          FetchPendingTransfers(range))

-----------------------------------------------------------------------------
\* The two summaries tell one story: whatever sessions a range selects, the
\* totals of the store are those of its sessions (the balance of a sealed one
\* read from its row, of the other added up), its cash is explained by its
\* movements, and between all the registers what leaves one for another arrives.
\* Neither total depends on what an approver is about to force or on a closing
\* under way: it is enough to look where there is none.
SummariesAgree ==
    LET existing == {s \in Sessions : session[s].status # "NONE"}
        quiet    == /\ \A u \in Approvers : forcing[u] = NULL
                    /\ \A c \in Closings : closing[c].status # "PENDING"
    IN  quiet =>
      \A range \in SUBSET existing \ {{}} :
        LET store == StoreSummary(range)
            of    == {SessionSummary(s) : s \in range}
            Sum(field)   == SumFunction([one \in of |-> one[field]])
            Moves(field) == Both({[session |-> one.session, total |-> one.transfers[field]] : one \in of})
        IN  /\ \A field \in {"expectedCash", "payments", "nonCash"} : store[field] = Sum(field)
            /\ \A field \in {"cashIn", "cashOut"} :
                  store[field] = Both({[session |-> one.session, total |-> one[field]] : one \in of})
            /\ \A field \in {"out", "toRegister", "toVault", "in"} :
                  store.transfers[field] = Moves(field)
            /\ Total(transfer, store.pendingTransfers, "amount") = Moves("pending")
            /\ store.expectedCash
                 = store.opening + store.cashIn.amount - store.cashOut.amount
            /\ range = existing => store.transfers.in = store.transfers.toRegister

\* cash-registers.helpers.ts: pending are the "transferencias solicitadas o
\* aprobadas que aún no mueven efectivo", and so the store lists them.
PendingIsOpen ==
    LET store == StoreSummary({s \in Sessions : session[s].status # "NONE"})
    IN  store.transfers.pending.count = Cardinality(store.pendingTransfers)
=============================================================================
