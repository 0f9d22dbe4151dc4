----------------------------- MODULE CashDrawer -----------------------------
(***************************************************************************)
(* The cash module as a whole: sessions, movements, transfers, closings    *)
(* and counts over the tables of CashDesk, any request of any service next, *)
(* and the properties that make a closed session worth trusting.           *)
(***************************************************************************)
EXTENDS CashSessions, CashMovements, CashTransfers, CashClosings

Next == SessionStep \/ MovementStep \/ TransferStep \/ ClosingStep

Spec == Init /\ [][Next]_vars

-----------------------------------------------------------------------------
(* Safety.                                                                 *)

\* A register never has two sessions open (the "one OPEN session per
\* register" that the partial unique index and the lock of openSession keep).
OneOpenSessionPerRegister ==
    \A s, t \in Sessions :
        IsOpen(s) /\ IsOpen(t) /\ session[s].register = session[t].register
            => s = t

\* The balance sealed into a CLOSED session stays equal to its opening balance
\* plus its POSTED movements: no charge, void, movement or transfer reaches a
\* session after its seal ("Regla 2: hermetismo post-cierre").
SealedBalance ==
    \A s \in Sessions :
        session[s].status = "CLOSED" => session[s].expected = ExpectedCash(s)

\* A CLOSED session leaves nothing running: no transfer PENDING or APPROVED
\* out of it and no operator still on shift, whatever closed it.
NothingRunsAfterSeal ==
    \A s \in Sessions :
        session[s].status = "CLOSED" => OpenTransfersOf(s) = {} /\ onShift[s] = {}

TransferMovements(t) ==
    {m \in Movements : movement[m].ref = Reference("CASH_TRANSFER", t)}

\* A COMPLETED transfer took its amount out of its source session, put it in a
\* session of its destination register (nowhere, towards the vault) and did so
\* once; a transfer in any other state moved no cash.
TransferMovesCashOnce ==
    \A t \in Transfers :
        LET row == transfer[t] IN
        IF row.status # "COMPLETED" THEN TransferMovements(t) = {}
        ELSE /\ TransferMovements(t) = {row.sourceMovement, row.destMovement} \ {NULL}
             /\ LET out == movement[row.sourceMovement] IN
                  out.session = row.source /\ out.type = "CASH_OUT"
                    /\ out.amount = row.amount
             /\ IF row.destination = Vault THEN row.destMovement = NULL
                ELSE LET in == movement[row.destMovement] IN
                       /\ in.session = row.destSession /\ in.type = "CASH_IN"
                       /\ in.amount = row.amount
                       /\ row.destSession # row.source
                       /\ session[row.destSession].register = row.destination

\* No transfer is APPROVED or COMPLETED without the signature of an approver,
\* also when an ordinary user completes what an approver approved earlier.
TransfersAreSigned ==
    \A t \in Transfers :
        transfer[t].status \in {"APPROVED", "COMPLETED"}
            => transfer[t].approvedBy \in Approvers

\* A voided movement has one counter-movement, and only a voided one has any:
\* same session and amount, opposite type.
VoidsAreCountered ==
    \A m \in Movements :
        LET counters == {n \in Movements :
                           /\ movement[n].status # "NONE"
                           /\ movement[n].ref = Reference("CASH_MOVEMENT", m)}
        IN IF movement[m].status # "VOIDED" THEN counters = {}
           ELSE \E n \in counters :
                  /\ counters = {n}
                  /\ movement[n].session = movement[m].session
                  /\ movement[n].amount = movement[m].amount
                  /\ movement[n].type = Opposite(movement[m].type)

\* The cash part of a sale entered, once, the drawer of the session it was
\* charged in, even if that movement was voided later.
SaleCashEntersOnce ==
    \A v \in Sales :
        LET entries == {m \in Movements : movement[m].ref = Reference("SALE", v)}
        IN IF sale[v].cash = 0 THEN entries = {}
           ELSE \E m \in entries :
                  /\ entries = {m}
                  /\ movement[m].session = sale[v].session
                  /\ movement[m].type = "CASH_IN"
                  /\ movement[m].amount = sale[v].cash

\* A COMPLETED closing and the session it closed tell the same story: the
\* session is CLOSED with the closing's expected cash and counted amount (or
\* with none, see ForceCloseLeavesClosedAlone), and it has no second one.
ClosingReconcilesSession ==
    \A c \in Closings :
        closing[c].status = "COMPLETED" =>
            LET s == closing[c].session IN
            /\ session[s].status = "CLOSED"
            /\ closing[c].counted # NULL
            /\ session[s].expected = closing[c].expected
            /\ session[s].counted \in {closing[c].counted, NULL}
            /\ \A d \in Closings \ {c} :
                 closing[d].session = s => closing[d].status = "REJECTED"

\* A closing never has two counts in play; once its count is sealed the
\* counted amount is that count's total whatever happens next, and a COMPLETED
\* closing left no DRAFT behind.
CountFeedsClosing ==
    \A c \in Closings :
        /\ \A k, l \in CountsOf(c, "DRAFT") \cup CountsOf(c, "COMPLETED") : k = l
        /\ \A k \in CountsOf(c, "COMPLETED") : closing[c].counted = count[k].total
        /\ closing[c].status = "COMPLETED" => CountsOf(c, "DRAFT") = {}

-----------------------------------------------------------------------------
(* What a step may never do.                                               *)

\* A CLOSED session is never reopened and its expected cash never rewritten;
\* the counted amount can only be lost, never replaced.
SealIsFinal ==
    [][\A s \in Sessions : session[s].status = "CLOSED" =>
         /\ [session'[s] EXCEPT !.counted = NULL] = [session[s] EXCEPT !.counted = NULL]
         /\ session'[s].counted \in {session[s].counted, NULL}]_vars

\* "Los estados terminales COMPLETED, REJECTED y CANCELLED no vuelven atras":
\* two requests over one transfer cannot both win.
TerminalTransfersStay ==
    [][\A t \in Transfers :
         transfer[t].status \in DeadTransfer \cup {"COMPLETED"}
            => transfer'[t] = transfer[t]]_vars

\* The movements are an audit trail: a row, once written, changes at most from
\* POSTED to VOIDED and only while its session is open.
MovementsAreKept ==
    [][\A m \in Movements :
         movement[m].status # "NONE" /\ movement'[m] # movement[m] =>
            /\ movement[m].status = "POSTED"
            /\ movement'[m] = [movement[m] EXCEPT !.status = "VOIDED"]
            /\ IsOpen(movement[m].session)]_vars

\* The tables implement the ledger: its balance is the expected cash.
Ledger == INSTANCE CashLedger WITH
    phase   <- [s \in Sessions |-> session[s].status],
    balance <- [s \in Sessions |-> ExpectedCash(s)],
    sealed  <- [s \in Sessions |-> session[s].expected]

\* Every behaviour of the module is one of CashLedger: cash is posted to open
\* sessions only, moved between two only when covered, sealed as it stands.
ImplementsLedger == Ledger!LedgerSpec

-----------------------------------------------------------------------------
(* What the repository says and the code does not keep.                    *)

\* docs/sesiones-caja-ciclo-de-vida.md: forceCloseSession answers 409 when the
\* session is not OPEN, so a CLOSED session is never written again.
ForceCloseLeavesClosedAlone ==
    [][\A s \in Sessions :
         session[s].status = "CLOSED" => session'[s] = session[s]]_vars

\* cash-registers.service.ts, forceCloseSession: a closing left PENDING on a
\* sealed session "es exactamente el estado inconsistente que se quiere evitar".
NoClosingLeftPending ==
    \A s \in Sessions : session[s].status = "CLOSED" => PendingClosings(s) = {}

\* cash-registers.helpers.ts: "las anulaciones se compensan con su
\* contra-movimiento": a void leaves the expected cash as if the movement had
\* never been posted.
VoidsCompensate ==
    [][\A m \in Movements :
         movement[m].status = "POSTED" /\ movement'[m].status = "VOIDED" =>
            ExpectedCash(movement[m].session)'
              = ExpectedCash(movement[m].session) - Signed(movement[m])]_vars
=============================================================================
