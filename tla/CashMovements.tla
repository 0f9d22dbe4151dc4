---------------------------- MODULE CashMovements ---------------------------
(***************************************************************************)
(* CashMovementsService (manual movements and voids) and PaymentsService   *)
(* (the charge of a sale).  All of them hold the OPEN session row.         *)
(***************************************************************************)
EXTENDS CashDesk

\* createManualMovement: a reason whose catalogue row has requiresApproval is
\* kept for approvers.  Nothing compares a CASH_OUT with the cash there is.
ManualMovement(s, u, type, amount, requiresApproval) ==
    /\ IsOpen(s)
    /\ requiresApproval => u \in Approvers
    /\ \E m \in NextId(Unused(movement)) :
         movement' = [movement EXCEPT ![m] =
                        Posting(s, type, amount, Reference("MANUAL", 0))]
    /\ UNCHANGED <<register, session, onShift, sale, transfer, closing,
                   count, forcing>>

Opposite(type) == IF type = "CASH_IN" THEN "CASH_OUT" ELSE "CASH_IN"

\* The void of m, whatever guards it.
Countered(m) ==
    \E n \in NextId(Unused(movement)) :
      movement' = [movement EXCEPT
         ![m].status = "VOIDED",
         ![n] = Posting(movement[m].session, Opposite(movement[m].type),
                        movement[m].amount, Reference("CASH_MOVEMENT", m))]

\* Mutation: the session of the movement is not asked to be open.
VoidMovement_AnySession(m) ==
    /\ movement[m].status = "POSTED"
    /\ Countered(m)
    /\ UNCHANGED <<register, session, onShift, sale, transfer, closing,
                   count, forcing>>

\* Mutation: a voided movement may be voided again.
VoidMovement_Again(m) ==
    /\ movement[m].status # "NONE"
    /\ IsOpen(movement[m].session)
    /\ Countered(m)
    /\ UNCHANGED <<register, session, onShift, sale, transfer, closing,
                   count, forcing>>

\* voidMovement: the movement leaves the POSTED rows and a counter-movement of
\* the opposite type enters them.  Any POSTED row of the session may be
\* voided, a sale's, a transfer's or a counter-movement included.
VoidMovement(m) ==
    /\ movement[m].status = "POSTED"
    /\ IsOpen(movement[m].session)
    /\ Countered(m)
    /\ UNCHANGED <<register, session, onShift, sale, transfer, closing,
                   count, forcing>>

\* resolveSalePayments: |paid - total| > 0.01 is refused; a difference of one
\* cent is let pass or not by the rounding of the two doubles.
PaymentsMatch(paid, total) == paid - total \in -1..1

\* persistSalePayments: the Payments of the sale, and one CASH_IN for what
\* enters the drawer.
PersistPayments(s, total, cash, other, entering) ==
    /\ \E v \in NextId(Unused(sale)) :
         /\ sale' = [sale EXCEPT ![v] =
                       [status |-> "PAID", session |-> s, total |-> total,
                        cash |-> cash, other |-> other]]
         /\ IF entering = 0
            THEN UNCHANGED movement
            ELSE \E m \in NextId(Unused(movement)) :
                   movement' = [movement EXCEPT ![m] =
                      Posting(s, "CASH_IN", entering, Reference("SALE", v))]
    /\ UNCHANGED <<register, session, onShift, transfer, closing, count,
                   forcing>>

\* Mutation: methods that do not affect cash enter the drawer too.
ChargeSale_AllMethods(s, total, cash, other) ==
    /\ IsOpen(s)
    /\ cash + other > 0
    /\ PaymentsMatch(cash + other, total)
    /\ PersistPayments(s, total, cash, other, cash + other)

\* resolveSalePayments under the lock of the session, then the above with the
\* part charged through a method that affects cash.
ChargeSale(s, total, cash, other) ==
    /\ IsOpen(s)
    /\ cash + other > 0
    /\ PaymentsMatch(cash + other, total)
    /\ PersistPayments(s, total, cash, other, cash)

MovementStep ==
    \/ \E s \in Sessions, u \in Users, type \in {"CASH_IN", "CASH_OUT"},
          a \in Amounts, approval \in BOOLEAN :
            ManualMovement(s, u, type, a, approval)
    \/ \E m \in Movements : VoidMovement(m)
    \/ \E s \in Sessions, total \in Amounts,
          cash \in Amounts \cup {0}, other \in Amounts \cup {0} :
            ChargeSale(s, total, cash, other)
=============================================================================
