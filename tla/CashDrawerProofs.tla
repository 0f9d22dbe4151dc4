-------------------------- MODULE CashDrawerProofs --------------------------
(***************************************************************************)
(* Theorems about CashDrawer for every number of registers, users, amounts *)
(* and rows: types; sessions, their seal and the trail of their rows;      *)
(* closings and counts; the cash itself, and that CashDrawer implements    *)
(* CashLedger; the reports.                                                *)
(***************************************************************************)
EXTENDS CashDrawer, CashReports, RowSums

\* What the next rows of a table are: rows not used yet.
LEMMA NextIdUnused ==
    ASSUME NEW table, NEW i \in NextId(Unused(table))
    PROVE  i \in DOMAIN table /\ table[i].status = "NONE"
  BY DEF NextId, Unused

\* Row ids are natural numbers.
LEMMA RowIds == Movements \subseteq Nat /\ Sales \subseteq Nat /\ Transfers \subseteq Nat
<1>1. MaxMovements \in Nat /\ MaxSales \in Nat /\ MaxTransfers \in Nat
  BY BoundAssumption
<1> QED
  BY <1>1 DEF Movements, Sales, Transfers

\* No row is called NULL.
LEMMA NullIsNoRow ==
    /\ NULL \notin Movements /\ NULL \notin Sessions /\ NULL \notin Closings
    /\ NULL \notin CashCounts
<1>1. /\ MaxMovements \in Nat /\ MaxSessions \in Nat /\ MaxClosings \in Nat
      /\ MaxCashCounts \in Nat
  BY BoundAssumption
<1> QED BY <1>1, NullAssumption DEF Movements, Sessions, Closings, CashCounts

\* Sealing keeps a session row a session row.
LEMMA SealedType ==
    ASSUME SessionType, NEW s, NEW counted, session' = Sealed(s, counted)
    PROVE  SessionType'
<1>1. session' = [t \in Sessions |-> session'[t]]
  BY DEF SessionType, Sealed
<1>2. ASSUME NEW t \in Sessions
      PROVE  session'[t] \in SessionRow(session'[t].expected, session'[t].counted)
  <2>1. CASE t = s
    BY <2>1 DEF SessionType, Sealed, SessionRow
  <2>2. CASE t # s
    BY <2>2 DEF SessionType, Sealed
  <2> QED
    BY <2>1, <2>2
<1> QED
  BY <1>1, <1>2 DEF SessionType

\* A table a step leaves alone keeps its type.
LEMMA KeptTypes ==
    /\ SessionType /\ UNCHANGED session => SessionType'
    /\ ClosingType /\ UNCHANGED closing => ClosingType'
    /\ CountType /\ UNCHANGED count => CountType'
<1>1. SessionType /\ UNCHANGED session => SessionType'
  BY DEF SessionType
<1>2. ClosingType /\ UNCHANGED closing => ClosingType'
  BY DEF ClosingType
<1>3. CountType /\ UNCHANGED count => CountType'
  BY DEF CountType
<1> QED
  BY <1>1, <1>2, <1>3

\* Each service keeps the types.
LEMMA SessionTypes == ASSUME TypeOK, SessionStep PROVE TypeOK'
<1> USE DEF TypeOK
<1>1. ASSUME NEW r \in Registers, NEW status \in RegisterStatus,
             UpdateRegister(r, status)
      PROVE  TypeOK'
  BY <1>1, KeptTypes DEF UpdateRegister
<1>2. ASSUME NEW r \in Registers, NEW u \in Operators, NEW b \in Openings,
             OpenSession(r, u, b)
      PROVE  TypeOK'
  <2>1. SessionType'
    BY <1>2, MoneyAssumption DEF OpenSession, SessionType, SessionRow
  <2>2. {u} \in SUBSET Users
    BY RoleAssumption
  <2>3. onShift' \in [Sessions -> SUBSET Users]
    BY <1>2, <2>2 DEF OpenSession
  <2> QED
    BY <1>2, <2>1, <2>3, KeptTypes DEF OpenSession
<1>3. ASSUME NEW s, NEW b, SealSession(s, b),
             forcing' \in [Approvers -> Sessions \cup {NULL}]
      PROVE  TypeOK'
  <2>1. SessionType'
    BY <1>3, SealedType DEF SealSession
  <2> QED
    BY <1>3, <2>1, KeptTypes DEF SealSession
<1>4. ASSUME NEW u \in Approvers, NEW s \in Sessions, ForceCloseRead(u, s)
      PROVE  TypeOK'
  BY <1>4, KeptTypes DEF ForceCloseRead
<1>5. ASSUME NEW u \in Approvers, ForceCloseSeal(u)
      PROVE  TypeOK'
  BY <1>5, <1>3 DEF ForceCloseSeal
<1>6. ASSUME NEW u \in Approvers, ForceCloseReject(u)
      PROVE  TypeOK'
  BY <1>6, KeptTypes DEF ForceCloseReject
<1>7. ASSUME NEW s \in Sessions, NEW u \in Operators,
             AssignOperator(s, u) \/ ExitOperator(s, u)
      PROVE  TypeOK'
  BY <1>7, RoleAssumption, KeptTypes DEF AssignOperator, ExitOperator
<1>8. ASSUME NEW s \in Sessions, NEW b \in Counts, CloseSession(s, b)
      PROVE  TypeOK'
  BY <1>8, <1>3 DEF CloseSession
<1> HIDE DEF TypeOK
<1> QED
  BY <1>1, <1>2, <1>4, <1>5, <1>6, <1>7, <1>8 DEF SessionStep

\* A posting is a row of cash_movements.
LEMMA PostingType ==
    ASSUME NEW s \in Sessions \cup {NULL}, NEW type \in {"CASH_IN", "CASH_OUT"},
           NEW amount \in Nat, NEW ref \in References
    PROVE  Posting(s, type, amount, ref) \in MovementRow
  BY DEF Posting, MovementRow

LEMMA ReferenceType ==
    ASSUME NEW kind \in {"MANUAL", "SALE", "CASH_TRANSFER", "CASH_MOVEMENT"},
           NEW id \in Nat
    PROVE  Reference(kind, id) \in References
  BY DEF Reference, References

LEMMA MovementTypes == ASSUME TypeOK, MovementStep PROVE TypeOK'
<1> USE DEF TypeOK
<1>1. ASSUME NEW s \in Sessions, NEW u \in Users,
             NEW type \in {"CASH_IN", "CASH_OUT"}, NEW a \in Amounts,
             NEW approval \in BOOLEAN, ManualMovement(s, u, type, a, approval)
      PROVE  TypeOK'
  <2>1. Posting(s, type, a, Reference("MANUAL", 0)) \in MovementRow
    BY MoneyAssumption, PostingType, ReferenceType
  <2> QED
    BY <1>1, <2>1, KeptTypes DEF ManualMovement
<1>2. ASSUME NEW m \in Movements, VoidMovement(m)
      PROVE  TypeOK'
  <2>1. movement[m] \in MovementRow
    OBVIOUS
  <2>2. m \in Nat /\ Opposite(movement[m].type) \in {"CASH_IN", "CASH_OUT"}
    BY RowIds DEF Opposite
  <2>3. Posting(movement[m].session, Opposite(movement[m].type),
                movement[m].amount, Reference("CASH_MOVEMENT", m)) \in MovementRow
    BY <2>1, <2>2, PostingType, ReferenceType DEF MovementRow
  <2>4. [movement[m] EXCEPT !.status = "VOIDED"] \in MovementRow
    BY <2>1 DEF MovementRow
  <2>5. movement' \in [Movements -> MovementRow]
    BY <1>2, <2>3, <2>4 DEF VoidMovement, Countered
  <2> QED
    BY <1>2, <2>5, KeptTypes DEF VoidMovement
<1>3. ASSUME NEW s \in Sessions, NEW total \in Amounts,
             NEW cash \in Amounts \cup {0}, NEW other \in Amounts \cup {0},
             ChargeSale(s, total, cash, other)
      PROVE  TypeOK'
  <2>1. total \in Nat /\ cash \in Nat /\ other \in Nat
    BY MoneyAssumption
  <2>2. PICK v \in NextId(Unused(sale)) :
          /\ sale' = [sale EXCEPT ![v] =
                        [status |-> "PAID", session |-> s, total |-> total,
                         cash |-> cash, other |-> other]]
          /\ \/ UNCHANGED movement
             \/ \E m \in NextId(Unused(movement)) :
                  movement' = [movement EXCEPT ![m] =
                     Posting(s, "CASH_IN", cash, Reference("SALE", v))]
    BY <1>3 DEF ChargeSale, PersistPayments
  <2>3. v \in Nat
    BY <2>2, RowIds, NextIdUnused
  <2>4. sale' \in [Sales -> SaleRow]
    BY <2>1, <2>2 DEF SaleRow
  <2>5. Posting(s, "CASH_IN", cash, Reference("SALE", v)) \in MovementRow
    BY <2>1, <2>3, PostingType, ReferenceType
  <2>6. movement' \in [Movements -> MovementRow]
    BY <2>2, <2>5
  <2> QED
    BY <1>3, <2>4, <2>6, KeptTypes DEF ChargeSale, PersistPayments
<1> HIDE DEF TypeOK
<1> QED
  BY <1>1, <1>2, <1>3, Zenon DEF MovementStep

\* A step that writes only transfers, with rows of the right type, keeps TypeOK.
LEMMA TransferRowWritten ==
    ASSUME TypeOK, NEW t \in Transfers, NEW row \in TransferRow,
           transfer' = [transfer EXCEPT ![t] = row],
           movement' \in [Movements -> MovementRow],
           UNCHANGED <<register, session, onShift, sale, closing, count, forcing>>
    PROVE  TypeOK'
  BY KeptTypes DEF TypeOK

LEMMA TransferTypes == ASSUME TypeOK, TransferStep PROVE TypeOK'
<1>0. transfer \in [Transfers -> TransferRow] /\ movement \in [Movements -> MovementRow]
  BY DEF TypeOK
<1>1. ASSUME NEW s \in Sessions, NEW u \in Users,
             NEW d \in Registers \cup {Vault}, NEW a \in Amounts,
             CreateTransfer(s, u, d, a)
      PROVE  TypeOK'
  <2>1. PICK t \in NextId(Unused(transfer)) :
          transfer' = [transfer EXCEPT ![t] =
            [NoTransfer EXCEPT !.status = "PENDING", !.source = s,
                               !.destination = d, !.amount = a,
                               !.requestedBy = u]]
    BY <1>1 DEF CreateTransfer
  <2>2. t \in Transfers
    BY <1>0, <2>1, NextIdUnused
  <2>3. a \in Nat
    BY MoneyAssumption
  <2>4. [NoTransfer EXCEPT !.status = "PENDING", !.source = s, !.destination = d,
                           !.amount = a, !.requestedBy = u] \in TransferRow
    BY <2>3 DEF NoTransfer, TransferRow, OpenTransfer
  <2> QED
    BY <1>0, <1>1, <2>1, <2>2, <2>4, TransferRowWritten DEF CreateTransfer
<1>2. ASSUME NEW t \in Transfers, NEW u \in Users, ApproveTransfer(t, u)
      PROVE  TypeOK'
  <2>1. [transfer[t] EXCEPT !.status = "APPROVED", !.approvedBy = u] \in TransferRow
    BY <1>0 DEF TransferRow, OpenTransfer
  <2>2. transfer' = [transfer EXCEPT ![t] =
                       [transfer[t] EXCEPT !.status = "APPROVED", !.approvedBy = u]]
    BY <1>0, <1>2 DEF ApproveTransfer
  <2> QED
    BY <1>0, <1>2, <2>1, <2>2, TransferRowWritten DEF ApproveTransfer
<1>3. ASSUME NEW t \in Transfers, NEW u \in Users, NEW d \in Sessions \cup {NULL},
             NEW m \in Movements, NEW n \in Movements \cup {NULL}
      PROVE  CompletedRow(t, u, d, m, n) \in TransferRow
  BY <1>0 DEF CompletedRow, SignedBy, TransferRow
<1>4. ASSUME NEW t \in Transfers, NEW s \in Sessions \cup {NULL},
             NEW type \in {"CASH_IN", "CASH_OUT"}
      PROVE  TransferPosting(t, s, type) \in MovementRow
  <2>1. transfer[t].amount \in Nat /\ t \in Nat
    BY <1>0, RowIds DEF TransferRow
  <2> QED
    BY <2>1, PostingType, ReferenceType DEF TransferPosting
<1>5. ASSUME NEW t \in Transfers, NEW u \in Users, CompleteToVault(t, u)
      PROVE  TypeOK'
  <2>1. PICK m \in NextId(Unused(movement)) :
          /\ movement' = [movement EXCEPT
                ![m] = TransferPosting(t, transfer[t].source, "CASH_OUT")]
          /\ transfer' = [transfer EXCEPT ![t] = CompletedRow(t, u, NULL, m, NULL)]
    BY <1>5 DEF CompleteToVault
  <2>2. m \in Movements
    BY <1>0, <2>1, NextIdUnused
  <2>3. transfer[t].source \in Sessions \cup {NULL}
    BY <1>0 DEF TransferRow
  <2>4. movement' \in [Movements -> MovementRow]
    BY <1>0, <1>4, <2>1, <2>3
  <2>5. CompletedRow(t, u, NULL, m, NULL) \in TransferRow
    BY <1>3, <2>2
  <2> QED
    BY <1>5, <2>1, <2>4, <2>5, TransferRowWritten DEF CompleteToVault
<1>6. ASSUME NEW t \in Transfers, NEW u \in Users, CompleteToRegister(t, u)
      PROVE  TypeOK'
  <2>1. PICK d \in Sessions \ {transfer[t].source}, m \in NextId(Unused(movement)) :
          \E n \in NextId(Unused(movement) \ {m}) :
            /\ movement' = [movement EXCEPT
                  ![m] = TransferPosting(t, transfer[t].source, "CASH_OUT"),
                  ![n] = TransferPosting(t, d, "CASH_IN")]
            /\ transfer' = [transfer EXCEPT ![t] = CompletedRow(t, u, d, m, n)]
    BY <1>6 DEF CompleteToRegister
  <2>2. PICK n \in NextId(Unused(movement) \ {m}) :
          /\ movement' = [movement EXCEPT
                ![m] = TransferPosting(t, transfer[t].source, "CASH_OUT"),
                ![n] = TransferPosting(t, d, "CASH_IN")]
          /\ transfer' = [transfer EXCEPT ![t] = CompletedRow(t, u, d, m, n)]
    BY <2>1
  <2>3. m \in Movements /\ n \in Movements
    BY <1>0, <2>1, <2>2 DEF NextId, Unused
  <2>4. transfer[t].source \in Sessions \cup {NULL}
    BY <1>0 DEF TransferRow
  <2>5. movement' \in [Movements -> MovementRow]
    BY <1>0, <1>4, <2>2, <2>4
  <2>6. CompletedRow(t, u, d, m, n) \in TransferRow
    BY <1>3, <2>3
  <2> QED
    BY <1>6, <2>2, <2>5, <2>6, TransferRowWritten DEF CompleteToRegister
<1>7. ASSUME NEW t \in Transfers, NEW u \in Users, NEW status \in DeadTransfer,
             transfer' = [transfer EXCEPT ![t].status = status],
             UNCHANGED <<register, session, onShift, movement, sale, closing,
                         count, forcing>>
      PROVE  TypeOK'
  <2>1. [transfer[t] EXCEPT !.status = status] \in TransferRow
    BY <1>0 DEF TransferRow
  <2>2. transfer' = [transfer EXCEPT ![t] = [transfer[t] EXCEPT !.status = status]]
    BY <1>0, <1>7
  <2> QED
    BY <1>0, <1>7, <2>1, <2>2, TransferRowWritten
<1>8. ASSUME NEW t \in Transfers, NEW u \in Users, RejectTransfer(t, u)
      PROVE  TypeOK'
  BY <1>7, <1>8 DEF RejectTransfer, DeadTransfer
<1>9. ASSUME NEW t \in Transfers, NEW u \in Users, CancelTransfer(t, u)
      PROVE  TypeOK'
  BY <1>7, <1>9 DEF CancelTransfer, DeadTransfer
<1> QED
  BY <1>1, <1>2, <1>5, <1>6, <1>8, <1>9 DEF TransferStep

\* Snapshot makes a closing row of a closing row.
LEMMA SnapshotType ==
    ASSUME ClosingType, NEW c \in Closings, NEW s, NEW counted
    PROVE  \E expected, total :
             Snapshot(c, s, counted) \in ClosingRow(expected, total, counted)
<1> DEFINE expected == ExpectedCash(s)
           total == ExpectedCash(s) + NonCash(s)
<1>1. Snapshot(c, s, counted) \in ClosingRow(expected, total, counted)
  BY DEF ClosingType, ClosingRow, Snapshot
<1> HIDE DEF expected, total
<1> QED
  BY <1>1

\* A closing table with one row written, of the right type, keeps its type.
LEMMA ClosingWritten ==
    ASSUME ClosingType, NEW c, NEW expected, NEW total, NEW counted,
           NEW row \in ClosingRow(expected, total, counted),
           closing' = [closing EXCEPT ![c] = row]
    PROVE  ClosingType'
<1>1. closing' = [d \in Closings |-> closing'[d]]
  BY DEF ClosingType
<1>2. ASSUME NEW d \in Closings
      PROVE  closing'[d] \in ClosingRow(closing'[d].expected, closing'[d].total,
                                        closing'[d].counted)
  BY DEF ClosingType, ClosingRow
<1> QED
  BY <1>1, <1>2 DEF ClosingType

LEMMA CountWritten ==
    ASSUME CountType, NEW k, NEW row, row \in CountRow(row.total),
           count' = [count EXCEPT ![k] = row]
    PROVE  CountType'
<1>1. count' = [d \in CashCounts |-> count'[d]]
  BY DEF CountType
<1>2. ASSUME NEW d \in CashCounts
      PROVE  count'[d] \in CountRow(count'[d].total)
  BY DEF CountType
<1> QED
  BY <1>1, <1>2 DEF CountType

LEMMA ClosingTypes == ASSUME TypeOK, ClosingStep PROVE TypeOK'
<1>0. ClosingType /\ CountType
  BY DEF TypeOK
<1>a. ASSUME ClosingType', CountType',
             UNCHANGED <<register, session, onShift, movement, sale, transfer,
                         forcing>>
      PROVE  TypeOK'
  BY <1>a, KeptTypes DEF TypeOK
<1>1. ASSUME NEW s \in Sessions, StartClosing(s)
      PROVE  TypeOK'
  <2>1. PICK c \in NextId(Unused(closing)) :
          closing' = [closing EXCEPT ![c] =
            [Snapshot(c, s, NULL) EXCEPT !.status = "PENDING", !.session = s]]
    BY <1>1 DEF StartClosing
  <2>2. c \in Closings
    BY <1>0, NextIdUnused DEF ClosingType
  <2> DEFINE row == [Snapshot(c, s, NULL) EXCEPT !.status = "PENDING", !.session = s]
  <2>3. PICK e, t : Snapshot(c, s, NULL) \in ClosingRow(e, t, NULL)
    BY <1>0, <2>2, SnapshotType
  <2>4. row \in ClosingRow(e, t, NULL)
    BY <2>3 DEF ClosingRow
  <2>5. ClosingType'
    BY <1>0, <2>1, <2>4, ClosingWritten
  <2> QED
    BY <1>0, <1>1, <1>a, <2>5, KeptTypes DEF StartClosing
<1>2. ASSUME NEW c \in Closings, NEW b \in Counts, RegisterCount(c, b)
      PROVE  TypeOK'
  <2> DEFINE row == Snapshot(c, closing[c].session, b)
  <2>1. PICK e, t : row \in ClosingRow(e, t, b)
    BY <1>0, SnapshotType
  <2>2. closing' = [closing EXCEPT ![c] = row]
    BY <1>2 DEF RegisterCount
  <2> HIDE DEF row
  <2>3. ClosingType'
    BY <1>0, <2>1, <2>2, ClosingWritten
  <2> QED
    BY <1>0, <1>2, <1>a, <2>3, KeptTypes DEF RegisterCount
<1>3. ASSUME NEW c \in Closings, NEW b, CompleteClosing(c, b)
      PROVE  TypeOK'
  <2>1. PICK counted :
          /\ closing' = [closing EXCEPT ![c] =
               [Snapshot(c, closing[c].session, counted) EXCEPT !.status = "COMPLETED"]]
          /\ session' = Sealed(closing[c].session, counted)
    BY <1>3 DEF CompleteClosing, CloseWith
  <2>2. SessionType'
    BY <2>1, SealedType DEF TypeOK
  <2> DEFINE s == closing[c].session
             row == [Snapshot(c, s, counted) EXCEPT !.status = "COMPLETED"]
  <2>3. PICK e, t : Snapshot(c, s, counted) \in ClosingRow(e, t, counted)
    BY <1>0, SnapshotType
  <2>4. row \in ClosingRow(e, t, counted)
    BY <2>3 DEF ClosingRow
  <2>5. ClosingType'
    BY <1>0, <2>1, <2>4, ClosingWritten
  <2> QED
    BY <1>3, <2>2, <2>5, KeptTypes DEF CompleteClosing, CloseWith, TypeOK
<1>4. ASSUME NEW c \in Closings, NEW u \in Users, RejectClosing(c, u)
      PROVE  TypeOK'
  <2> DEFINE row == [closing[c] EXCEPT !.status = "REJECTED"]
  <2>1. row \in ClosingRow(closing[c].expected, closing[c].total,
                           closing[c].counted)
    BY <1>0 DEF ClosingType, ClosingRow
  <2>2. closing' = [closing EXCEPT ![c] = row]
    BY <1>0, <1>4 DEF RejectClosing
  <2>3. ClosingType'
    BY <1>0, <2>1, <2>2, ClosingWritten
  <2> QED
    BY <1>0, <1>4, <1>a, <2>3, KeptTypes DEF RejectClosing
<1>5. ASSUME NEW c \in Closings, StartCount(c)
      PROVE  TypeOK'
  <2> DEFINE row == [NoCount EXCEPT !.status = "DRAFT", !.closing = c]
  <2>1. NoItems \in [Denominations -> 0..MaxQuantity]
    BY MoneyAssumption DEF NoItems
  <2>2. row \in CountRow(row.total)
    BY <2>1 DEF NoCount, CountRow
  <2>3. PICK k : count' = [count EXCEPT ![k] = row]
    BY <1>5 DEF StartCount
  <2>4. CountType'
    BY <1>0, <2>2, <2>3, CountWritten
  <2> QED
    BY <1>0, <1>5, <1>a, <2>4, KeptTypes DEF StartCount
<1>6. ASSUME NEW k \in CashCounts, NEW lines \in ItemLines, UpsertItems(k, lines)
      PROVE  TypeOK'
  <2> DEFINE items == [d \in Denominations |->
                         IF d \in DOMAIN lines THEN lines[d] ELSE count[k].items[d]]
             row == [count[k] EXCEPT !.items = items, !.total = ItemsTotal(items)]
  <2>1. count[k] \in CountRow(count[k].total)
    BY <1>0 DEF CountType
  <2>2. \A d \in DOMAIN lines : lines[d] \in 0..MaxQuantity
    BY DEF ItemLines
  <2>3. items \in [Denominations -> 0..MaxQuantity]
    BY <2>1, <2>2 DEF CountRow
  <2> HIDE DEF items
  <2>4. row \in CountRow(row.total)
    BY <2>1, <2>3 DEF CountRow
  <2>5. count' = [count EXCEPT ![k] = row]
    BY <1>0, <1>6 DEF UpsertItems, items
  <2>6. CountType'
    BY <1>0, <2>4, <2>5, CountWritten
  <2> QED
    BY <1>0, <1>6, <1>a, <2>6, KeptTypes DEF UpsertItems
<1>7. ASSUME NEW k \in CashCounts, CompleteCount(k)
      PROVE  TypeOK'
  <2> DEFINE total == ItemsTotal(count[k].items)
             row == [count[k] EXCEPT !.status = "COMPLETED", !.total = total]
             c == count[k].closing
  <2>1. count[k] \in CountRow(count[k].total)
    BY <1>0 DEF CountType
  <2>2. row \in CountRow(row.total)
    BY <2>1 DEF CountRow
  <2>3. count' = [count EXCEPT ![k] = row]
    BY <1>0, <1>7 DEF CompleteCount
  <2>4. CountType'
    BY <1>0, <2>2, <2>3, CountWritten
  <2>5. closing' = [closing EXCEPT ![c] = Snapshot(c, closing[c].session, total)]
    BY <1>7 DEF CompleteCount
  <2>6. ASSUME c \in Closings PROVE ClosingType'
    <3> DEFINE snapshot == Snapshot(c, closing[c].session, total)
    <3>1. PICK e, t : snapshot \in ClosingRow(e, t, total)
      BY <1>0, <2>6, SnapshotType
    <3>2. closing' = [closing EXCEPT ![c] = snapshot]
      BY <2>5
    <3> HIDE DEF snapshot
    <3> QED
      BY <1>0, <3>1, <3>2, ClosingWritten
  <2>7. ASSUME c \notin Closings PROVE ClosingType'
    <3>1. UNCHANGED closing
      BY <1>0, <2>5, <2>7 DEF ClosingType
    <3> QED
      BY <1>0, <3>1, KeptTypes
  <2> QED
    BY <1>7, <1>a, <2>4, <2>6, <2>7 DEF CompleteCount
<1>8. ASSUME NEW k \in CashCounts, CancelCount(k)
      PROVE  TypeOK'
  <2> DEFINE row == [count[k] EXCEPT !.status = "CANCELLED"]
  <2>1. row \in CountRow(row.total)
    BY <1>0 DEF CountType, CountRow
  <2>2. count' = [count EXCEPT ![k] = row]
    BY <1>0, <1>8 DEF CancelCount
  <2>3. CountType'
    BY <1>0, <2>1, <2>2, CountWritten
  <2> QED
    BY <1>0, <1>8, <1>a, <2>3, KeptTypes DEF CancelCount
<1> QED
  BY <1>1, <1>2, <1>3, <1>4, <1>5, <1>6, <1>7, <1>8 DEF ClosingStep

LEMMA InitTypes == Init => TypeOK
<1> SUFFICES ASSUME Init PROVE TypeOK
  OBVIOUS
<1>1. SessionType
  BY DEF Init, SessionType, SessionRow, NoSession
<1>2. ClosingType
  BY DEF Init, ClosingType, ClosingRow, NoClosing
<1>3. NoItems \in [Denominations -> 0..MaxQuantity]
  BY MoneyAssumption DEF NoItems
<1>4. CountType
  BY <1>3 DEF Init, CountType, CountRow, NoCount
<1>5. movement \in [Movements -> MovementRow]
  BY ReferenceType DEF Init, MovementRow, NoMovement
<1>6. sale \in [Sales -> SaleRow]
  BY DEF Init, SaleRow, NoSale
<1>7. transfer \in [Transfers -> TransferRow]
  BY DEF Init, TransferRow, NoTransfer
<1> QED
  BY <1>1, <1>2, <1>4, <1>5, <1>6, <1>7, BoundAssumption DEF Init, TypeOK

LEMMA NextTypes == TypeOK /\ [Next]_vars => TypeOK'
<1> SUFFICES ASSUME TypeOK, [Next]_vars PROVE TypeOK'
  OBVIOUS
<1>1. CASE Next
  BY <1>1, SessionTypes, MovementTypes, TransferTypes, ClosingTypes DEF Next
<1>2. CASE UNCHANGED vars
  BY <1>2, KeptTypes DEF vars, TypeOK
<1> QED
  BY <1>1, <1>2

\* The rows of the tables keep the columns and enums of their entities, however
\* many there are and whatever the requests carry.
THEOREM TypeCorrect == Spec => []TypeOK
  BY InitTypes, NextTypes, PTL DEF Spec

-----------------------------------------------------------------------------
(* The proofs below go through what one step may do to each table          *)
(* (SessionEffect, MovementEffect, TransferEffect, ArqueoEffect): that a   *)
(* step has these effects is shown once, action by action, and each        *)
(* property follows from the effects.                                      *)

Opens(s) ==
    /\ session[s].status = "NONE"
    /\ session'[s].status = "OPEN"
    /\ session'[s].opening \in Nat /\ session'[s].expected = NULL
    /\ NoOpenSession(session'[s].register)
    /\ \A t \in Sessions \ {s} : session'[t] = session[t] /\ onShift'[t] = onShift[t]
    /\ UNCHANGED <<movement, transfer>>

Seals(s) ==
    /\ \E counted : session' = Sealed(s, counted)
    /\ session[s].status = "CLOSED" => session'[s].counted = NULL
    /\ session[s].status = "NONE" => \E u \in Approvers : forcing[u] = s
    /\ OpenTransfersOf(s) = {}
    /\ onShift' = [onShift EXCEPT ![s] = {}]
    /\ UNCHANGED <<movement, transfer>>

Staffs ==
    /\ \A s \in Sessions : onShift'[s] # onShift[s] => IsOpen(s)
    /\ UNCHANGED <<session, movement, transfer>>

\* What a step does to the sessions and their shifts.
SessionEffect ==
    \/ UNCHANGED <<session, onShift>>
    \/ Staffs
    \/ \E s \in Sessions : Opens(s)
    \/ \E s \in Sessions : Seals(s)

Posts(m) ==
    /\ movement[m].status = "NONE"
    /\ movement'[m].status = "POSTED"
    /\ IsOpen(movement'[m].session)

Voids(m) ==
    /\ movement[m].status = "POSTED"
    /\ movement'[m] = [movement[m] EXCEPT !.status = "VOIDED"]
    /\ IsOpen(movement[m].session)

\* What a step does to each movement.
MovementEffect ==
    \A m \in Movements : movement'[m] = movement[m] \/ Posts(m) \/ Voids(m)

Requests(t) ==
    /\ transfer[t].status = "NONE"
    /\ transfer'[t].status = "PENDING"
    /\ IsOpen(transfer'[t].source)

Signs(t) ==
    /\ InProgress(t)
    /\ transfer'[t].status \in {"APPROVED", "COMPLETED"}
    /\ transfer'[t].approvedBy \in Approvers \cup {transfer[t].approvedBy}
    /\ transfer[t].status = "PENDING" => transfer'[t].approvedBy \in Approvers
    /\ transfer'[t].source = transfer[t].source
    /\ IsOpen(transfer[t].source)

Drops(t) ==
    /\ InProgress(t)
    /\ transfer'[t].status \in DeadTransfer
    /\ transfer'[t].source = transfer[t].source

\* What a step does to each transfer.
TransferEffect ==
    \A t \in Transfers :
        transfer'[t] = transfer[t] \/ Requests(t) \/ Signs(t) \/ Drops(t)

Effects == SessionEffect /\ MovementEffect /\ TransferEffect

LEMMA SealEffect ==
    ASSUME TypeOK, NEW s \in Sessions, NEW counted, SealSession(s, counted),
           OpenTransfersOf(s) = {},
           session[s].status = "CLOSED" => counted = NULL,
           session[s].status = "NONE" => \E u \in Approvers : forcing[u] = s
    PROVE  Effects
<1>1. session' = Sealed(s, counted)
  BY DEF SealSession
<1>2. session[s].status = "CLOSED" => session'[s].counted = NULL
  BY <1>1 DEF Sealed, TypeOK, SessionType, SessionRow
<1>3. Seals(s)
  BY <1>1, <1>2 DEF SealSession, Seals
<1> QED
  BY <1>3 DEF SealSession, Effects, SessionEffect, MovementEffect, TransferEffect

\* Each service has these effects and no other.
LEMMA SessionEffects == ASSUME TypeOK, SessionStep PROVE Effects
<1>1. ASSUME NEW r \in Registers, NEW status \in RegisterStatus,
             UpdateRegister(r, status)
      PROVE  Effects
  BY <1>1 DEF UpdateRegister, Effects, SessionEffect, MovementEffect, TransferEffect
<1>2. ASSUME NEW r \in Registers, NEW u \in Operators, NEW b \in Openings,
             OpenSession(r, u, b)
      PROVE  Effects
  <2>1. PICK s \in NextId(Unused(session)) :
          /\ session' = [session EXCEPT ![s] =
                           [status |-> "OPEN", register |-> r, opening |-> b,
                            expected |-> NULL, counted |-> NULL]]
          /\ onShift' = [onShift EXCEPT ![s] = {u}]
    BY <1>2 DEF OpenSession
  <2>2. s \in Sessions /\ session[s].status = "NONE"
    BY <2>1, NextIdUnused DEF TypeOK, SessionType
  <2>3. Opens(s)
    BY <1>2, <2>1, <2>2, MoneyAssumption DEF OpenSession, Opens, TypeOK, SessionType
  <2> QED
    BY <1>2, <2>2, <2>3
       DEF OpenSession, Effects, SessionEffect, MovementEffect, TransferEffect
<1>3. ASSUME NEW s \in Sessions, NEW b \in Counts, CloseSession(s, b)
      PROVE  Effects
  BY <1>3, SealEffect DEF CloseSession, IsOpen
<1>4. ASSUME NEW u \in Approvers, NEW s \in Sessions, ForceCloseRead(u, s)
      PROVE  Effects
  BY <1>4 DEF ForceCloseRead, Effects, SessionEffect, MovementEffect, TransferEffect
<1>5. ASSUME NEW u \in Approvers, ForceCloseSeal(u)
      PROVE  Effects
  <2>1. forcing[u] \in Sessions
    BY <1>5 DEF ForceCloseSeal, TypeOK
  <2> QED
    BY <1>5, <2>1, SealEffect DEF ForceCloseSeal, ForceCloseAllowed
<1>6. ASSUME NEW u \in Approvers, ForceCloseReject(u)
      PROVE  Effects
  BY <1>6 DEF ForceCloseReject, Effects, SessionEffect, MovementEffect, TransferEffect
<1>7. ASSUME NEW s \in Sessions, NEW u \in Operators,
             AssignOperator(s, u) \/ ExitOperator(s, u)
      PROVE  Effects
  <2>1. Staffs
    BY <1>7 DEF AssignOperator, ExitOperator, Staffs, TypeOK
  <2> QED
    BY <2>1 DEF Effects, SessionEffect, MovementEffect, TransferEffect, Staffs
<1> QED
  BY <1>1, <1>2, <1>3, <1>4, <1>5, <1>6, <1>7 DEF SessionStep

LEMMA MovementEffects == ASSUME TypeOK, MovementStep PROVE Effects
<1>0. movement \in [Movements -> MovementRow]
  BY DEF TypeOK
<1>a. ASSUME MovementEffect, UNCHANGED <<session, onShift, transfer>>
      PROVE  Effects
  BY <1>a DEF Effects, SessionEffect, TransferEffect
<1>b. ASSUME NEW s, IsOpen(s), NEW type, NEW a, NEW ref,
             NEW m \in NextId(Unused(movement)),
             movement' = [movement EXCEPT ![m] = Posting(s, type, a, ref)]
      PROVE  MovementEffect
  BY <1>0, <1>b, NextIdUnused DEF MovementEffect, Posts, Posting
<1>1. ASSUME NEW s \in Sessions, NEW u \in Users,
             NEW type \in {"CASH_IN", "CASH_OUT"}, NEW a \in Amounts,
             NEW approval \in BOOLEAN, ManualMovement(s, u, type, a, approval)
      PROVE  Effects
  BY <1>1, <1>a, <1>b DEF ManualMovement
<1>2. ASSUME NEW m \in Movements, VoidMovement(m)
      PROVE  Effects
  <2>1. PICK n \in NextId(Unused(movement)) :
          movement' = [movement EXCEPT
            ![m].status = "VOIDED",
            ![n] = Posting(movement[m].session, Opposite(movement[m].type),
                           movement[m].amount, Reference("CASH_MOVEMENT", m))]
    BY <1>2 DEF VoidMovement, Countered
  <2>2. n \in Movements /\ movement[n].status = "NONE" /\ n # m
    BY <1>0, <1>2, <2>1, NextIdUnused DEF VoidMovement
  <2>3. Posts(n) /\ Voids(m)
    BY <1>0, <1>2, <2>1, <2>2 DEF Posts, Voids, VoidMovement, Posting
  <2>4. \A k \in Movements \ {m, n} : movement'[k] = movement[k]
    BY <1>0, <2>1
  <2>5. MovementEffect
    BY <2>3, <2>4 DEF MovementEffect
  <2> QED
    BY <1>2, <1>a, <2>5 DEF VoidMovement
<1>3. ASSUME NEW s \in Sessions, NEW total \in Amounts,
             NEW cash \in Amounts \cup {0}, NEW other \in Amounts \cup {0},
             ChargeSale(s, total, cash, other)
      PROVE  Effects
  <2>1. CASE UNCHANGED movement
    BY <1>3, <1>a, <2>1 DEF ChargeSale, PersistPayments, MovementEffect
  <2>2. ASSUME NEW v, NEW m \in NextId(Unused(movement)),
               movement' = [movement EXCEPT
                 ![m] = Posting(s, "CASH_IN", cash, Reference("SALE", v))]
        PROVE  Effects
    BY <1>3, <1>a, <1>b, <2>2 DEF ChargeSale, PersistPayments
  <2> QED
    BY <1>3, <2>1, <2>2 DEF ChargeSale, PersistPayments
<1> QED
  BY <1>1, <1>2, <1>3, Zenon DEF MovementStep

LEMMA TransferEffects == ASSUME TypeOK, TransferStep PROVE Effects
<1>0. transfer \in [Transfers -> TransferRow] /\ movement \in [Movements -> MovementRow]
  BY DEF TypeOK
<1>a. ASSUME NEW t \in Transfers, Requests(t) \/ Signs(t) \/ Drops(t),
             \A r \in Transfers \ {t} : transfer'[r] = transfer[r],
             MovementEffect, UNCHANGED <<session, onShift>>
      PROVE  Effects
  BY <1>a DEF Effects, SessionEffect, TransferEffect
<1>b. UNCHANGED movement => MovementEffect
  BY DEF MovementEffect
<1>1. ASSUME NEW s \in Sessions, NEW u \in Users,
             NEW d \in Registers \cup {Vault}, NEW a \in Amounts,
             CreateTransfer(s, u, d, a)
      PROVE  Effects
  <2>1. PICK t \in NextId(Unused(transfer)) :
          transfer' = [transfer EXCEPT ![t] =
            [NoTransfer EXCEPT !.status = "PENDING", !.source = s,
                               !.destination = d, !.amount = a,
                               !.requestedBy = u]]
    BY <1>1 DEF CreateTransfer
  <2>2. t \in Transfers /\ transfer[t].status = "NONE"
    BY <1>0, <2>1, NextIdUnused
  <2>3. Requests(t)
    BY <1>0, <1>1, <2>1, <2>2 DEF CreateTransfer, Requests, NoTransfer
  <2> QED
    BY <1>0, <1>1, <1>a, <1>b, <2>1, <2>2, <2>3 DEF CreateTransfer
<1>2. ASSUME NEW t \in Transfers, NEW u \in Users, ApproveTransfer(t, u)
      PROVE  Effects
  <2>1. Signs(t)
    BY <1>0, <1>2 DEF ApproveTransfer, Signs, TransferRow
  <2> QED
    BY <1>0, <1>2, <1>a, <1>b, <2>1 DEF ApproveTransfer
<1>3. ASSUME NEW t \in Transfers, NEW u \in Users, NEW d, NEW m, NEW n,
             InProgress(t), IsOpen(transfer[t].source), MayComplete(t, u),
             transfer' = [transfer EXCEPT ![t] = CompletedRow(t, u, d, m, n)]
      PROVE  Signs(t)
  BY <1>0, <1>3
     DEF Signs, CompletedRow, SignedBy, MayComplete, TransferRow
<1>4. ASSUME NEW t \in Transfers, NEW u \in Users, CompleteToVault(t, u)
      PROVE  Effects
  <2>1. PICK m \in NextId(Unused(movement)) :
          /\ movement' = [movement EXCEPT
                ![m] = TransferPosting(t, transfer[t].source, "CASH_OUT")]
          /\ transfer' = [transfer EXCEPT ![t] = CompletedRow(t, u, NULL, m, NULL)]
    BY <1>4 DEF CompleteToVault
  <2>2. Signs(t)
    BY <1>3, <1>4, <2>1 DEF CompleteToVault
  <2>3. MovementEffect
    BY <1>0, <1>4, <2>1, NextIdUnused
       DEF CompleteToVault, MovementEffect, Posts, TransferPosting, Posting
  <2> QED
    BY <1>0, <1>4, <1>a, <2>1, <2>2, <2>3 DEF CompleteToVault
<1>5. ASSUME NEW t \in Transfers, NEW u \in Users, CompleteToRegister(t, u)
      PROVE  Effects
  <2>1. PICK d \in Sessions \ {transfer[t].source}, m \in NextId(Unused(movement)) :
          /\ IsOpen(d)
          /\ \E n \in NextId(Unused(movement) \ {m}) :
              /\ movement' = [movement EXCEPT
                    ![m] = TransferPosting(t, transfer[t].source, "CASH_OUT"),
                    ![n] = TransferPosting(t, d, "CASH_IN")]
              /\ transfer' = [transfer EXCEPT ![t] = CompletedRow(t, u, d, m, n)]
    BY <1>5 DEF CompleteToRegister
  <2>2. PICK n \in NextId(Unused(movement) \ {m}) :
          /\ movement' = [movement EXCEPT
                ![m] = TransferPosting(t, transfer[t].source, "CASH_OUT"),
                ![n] = TransferPosting(t, d, "CASH_IN")]
          /\ transfer' = [transfer EXCEPT ![t] = CompletedRow(t, u, d, m, n)]
    BY <2>1
  <2>3. /\ m \in Movements /\ movement[m].status = "NONE"
        /\ n \in Movements /\ movement[n].status = "NONE" /\ m # n
    BY <1>0, <2>1, <2>2 DEF NextId, Unused
  <2>4. Signs(t)
    BY <1>3, <1>5, <2>2 DEF CompleteToRegister
  <2>5. Posts(m) /\ Posts(n)
    BY <1>0, <1>5, <2>1, <2>2, <2>3
       DEF CompleteToRegister, Posts, TransferPosting, Posting
  <2>6. MovementEffect
    BY <1>0, <2>2, <2>3, <2>5 DEF MovementEffect
  <2> QED
    BY <1>0, <1>5, <1>a, <2>2, <2>4, <2>6 DEF CompleteToRegister
<1>6. ASSUME NEW t \in Transfers, NEW u \in Users,
             RejectTransfer(t, u) \/ CancelTransfer(t, u)
      PROVE  Effects
  <2>1. /\ InProgress(t)
        /\ UNCHANGED <<session, onShift, movement>>
        /\ \E status \in DeadTransfer :
             transfer' = [transfer EXCEPT ![t].status = status]
    BY <1>6 DEF RejectTransfer, CancelTransfer, DeadTransfer
  <2>2. transfer[t] \in TransferRow
    BY <1>0
  <2>3. Drops(t)
    BY <1>0, <2>1, <2>2 DEF Drops, TransferRow
  <2> QED
    BY <1>0, <1>a, <1>b, <2>1, <2>3
<1> QED
  BY <1>1, <1>2, <1>4, <1>5, <1>6 DEF TransferStep

LEMMA ClosingEffects == ASSUME TypeOK, ClosingStep PROVE Effects
<1>1. ASSUME UNCHANGED <<session, onShift, movement, transfer>> PROVE Effects
  BY <1>1 DEF Effects, SessionEffect, MovementEffect, TransferEffect
<1>2. ASSUME NEW c \in Closings, NEW b, CompleteClosing(c, b)
      PROVE  Effects
  <2> DEFINE s == closing[c].session
  <2>1. PICK counted : session' = Sealed(s, counted)
    BY <1>2 DEF CompleteClosing, CloseWith
  <2>2. CASE s \in Sessions
    <3>1. Seals(s)
      BY <1>2, <2>1, <2>2 DEF CompleteClosing, CloseWith, Seals, InClosing, IsOpen
    <3> QED
      BY <1>2, <2>2, <3>1 DEF CompleteClosing, CloseWith, Effects, SessionEffect,
                               MovementEffect, TransferEffect
  <2>3. CASE s \notin Sessions
    <3>1. UNCHANGED session
      BY <2>1, <2>3 DEF Sealed, TypeOK, SessionType
    <3>2. UNCHANGED <<onShift, movement, transfer>>
      BY <1>2, <2>3 DEF CompleteClosing, CloseWith, TypeOK
    <3> QED
      BY <1>1, <3>1, <3>2
  <2> QED
    BY <2>2, <2>3
<1>3. ASSUME \/ \E s \in Sessions : StartClosing(s)
             \/ \E c \in Closings, b \in Counts : RegisterCount(c, b)
             \/ \E c \in Closings, u \in Users : RejectClosing(c, u)
             \/ \E c \in Closings : StartCount(c)
             \/ \E k \in CashCounts, lines \in ItemLines : UpsertItems(k, lines)
             \/ \E k \in CashCounts : CompleteCount(k)
             \/ \E k \in CashCounts : CancelCount(k)
      PROVE  Effects
  BY <1>1, <1>3 DEF StartClosing, RegisterCount, RejectClosing, StartCount,
                    UpsertItems, CompleteCount, CancelCount
<1> QED
  BY <1>2, <1>3 DEF ClosingStep

\* Every step of the module has the effects above.
LEMMA StepEffects == TypeOK /\ [Next]_vars => Effects
<1> SUFFICES ASSUME TypeOK, [Next]_vars PROVE Effects
  OBVIOUS
<1>1. CASE Next
  BY <1>1, SessionEffects, MovementEffects, TransferEffects, ClosingEffects DEF Next
<1>2. CASE UNCHANGED vars
  BY <1>2 DEF vars, Effects, SessionEffect, MovementEffect, TransferEffect
<1> QED
  BY <1>1, <1>2

-----------------------------------------------------------------------------
(* One open session per register.                                          *)

LEMMA OneOpenStep ==
    ASSUME TypeOK, Effects, OneOpenSessionPerRegister
    PROVE  OneOpenSessionPerRegister'
<1>1. CASE UNCHANGED session
  BY <1>1 DEF OneOpenSessionPerRegister, IsOpen
<1>2. ASSUME NEW s \in Sessions, Opens(s)
      PROVE  OneOpenSessionPerRegister'
  <2> SUFFICES ASSUME NEW a \in Sessions, NEW b \in Sessions,
                      session'[a].status = "OPEN", session'[b].status = "OPEN",
                      session'[a].register = session'[b].register, a # b
               PROVE  FALSE
    BY DEF OneOpenSessionPerRegister, IsOpen
  <2>1. CASE s \notin {a, b}
    BY <1>2, <2>1 DEF Opens, OneOpenSessionPerRegister, IsOpen
  <2>2. CASE s \in {a, b}
    BY <1>2, <2>2 DEF Opens, NoOpenSession, IsOpen
  <2> QED
    BY <2>1, <2>2
<1>3. ASSUME NEW s \in Sessions, Seals(s)
      PROVE  OneOpenSessionPerRegister'
  <2>1. \A t \in Sessions :
          session'[t].status = "OPEN" =>
             session[t].status = "OPEN" /\ session'[t].register = session[t].register
    BY <1>3 DEF Seals, Sealed, TypeOK, SessionType, SessionRow
  <2> QED
    BY <2>1 DEF OneOpenSessionPerRegister, IsOpen
<1> QED
  BY <1>1, <1>2, <1>3 DEF Effects, SessionEffect, Staffs

\* A register never has two open sessions, however many requests to open one
\* arrive and in whatever order sessions are closed, forced or counted.
THEOREM OneOpenSession == Spec => []OneOpenSessionPerRegister
<1>1. Init => OneOpenSessionPerRegister
  BY DEF Init, OneOpenSessionPerRegister, IsOpen, NoSession
<1>2. TypeOK /\ OneOpenSessionPerRegister /\ [Next]_vars
        => OneOpenSessionPerRegister'
  BY StepEffects, OneOpenStep
<1> QED
  BY <1>1, <1>2, TypeCorrect, PTL DEF Spec

-----------------------------------------------------------------------------
(* The sealed balance.                                                     *)

\* The expected cash of a session is the same when its opening balance is and
\* its POSTED movements are the same rows.
LEMMA SameCash ==
    ASSUME NEW s \in Sessions,
           session'[s].opening = session[s].opening,
           PostedOf(s)' = PostedOf(s),
           \A m \in PostedOf(s) : movement'[m] = movement[m]
    PROVE  ExpectedCash(s)' = ExpectedCash(s)
<1> DEFINE cash == [m \in PostedOf(s) |-> Signed(movement[m])]
<1>1. cash' = cash
  BY DEF Signed
<1>2. SumFunction(cash)' = SumFunction(cash)
  BY <1>1
<1> QED
  BY <1>2 DEF ExpectedCash, NetCash

\* Nothing is posted to, or voided in, a session that is not open.
LEMMA ClosedCash ==
    ASSUME TypeOK, MovementEffect, NEW s \in Sessions, ~IsOpen(s),
           session'[s].opening = session[s].opening
    PROVE  ExpectedCash(s)' = ExpectedCash(s)
<1>1. ASSUME NEW m \in Movements
      PROVE  /\ m \in PostedOf(s)' <=> m \in PostedOf(s)
             /\ m \in PostedOf(s) => movement'[m] = movement[m]
  <2>1. CASE movement'[m] = movement[m]
    BY <2>1 DEF PostedOf
  <2>2. CASE Posts(m)
    BY <2>2 DEF Posts, PostedOf
  <2>3. CASE Voids(m)
    BY <2>3 DEF Voids, PostedOf, TypeOK, MovementRow
  <2> QED
    BY <2>1, <2>2, <2>3 DEF MovementEffect
<1>2. PostedOf(s)' = PostedOf(s)
  BY <1>1 DEF PostedOf
<1>3. \A m \in PostedOf(s) : movement'[m] = movement[m]
  BY <1>1 DEF PostedOf
<1> QED
  BY <1>2, <1>3, SameCash

\* A session row a step leaves CLOSED was CLOSED with the same opening balance,
\* or is sealed by the step with the movements as they are.
LEMMA ClosedAfter ==
    ASSUME TypeOK, SessionEffect, NEW s \in Sessions, session'[s].status = "CLOSED"
    PROVE  \/ session[s].status = "CLOSED" /\ session'[s] = session[s]
           \/ /\ Seals(s)
              /\ session'[s].opening = session[s].opening
              /\ session'[s].register = session[s].register
              /\ session'[s].expected = ExpectedCash(s)
<1>1. CASE UNCHANGED session
  BY <1>1
<1>2. ASSUME NEW t \in Sessions, Opens(t)
      PROVE  session[s].status = "CLOSED" /\ session'[s] = session[s]
  BY <1>2 DEF Opens
<1>3. ASSUME NEW t \in Sessions, Seals(t), t # s
      PROVE  session[s].status = "CLOSED" /\ session'[s] = session[s]
  BY <1>3 DEF Seals, Sealed, TypeOK, SessionType
<1>4. ASSUME Seals(s)
      PROVE  /\ session'[s].opening = session[s].opening
             /\ session'[s].register = session[s].register
             /\ session'[s].expected = ExpectedCash(s)
  <2>1. session[s] \in SessionRow(session[s].expected, session[s].counted)
    BY DEF TypeOK, SessionType
  <2>2. PICK counted : session' = Sealed(s, counted)
    BY <1>4 DEF Seals
  <2> QED
    BY <2>1, <2>2 DEF Sealed, TypeOK, SessionType, SessionRow
<1> QED
  BY <1>1, <1>2, <1>3, <1>4 DEF SessionEffect, Staffs

LEMMA SealedBalanceStep ==
    ASSUME TypeOK, Effects, SealedBalance
    PROVE  SealedBalance'
<1> SUFFICES ASSUME NEW s \in Sessions, session'[s].status = "CLOSED"
             PROVE  session'[s].expected = ExpectedCash(s)'
  BY DEF SealedBalance
<1>1. CASE session[s].status = "CLOSED" /\ session'[s] = session[s]
  <2>1. ExpectedCash(s)' = ExpectedCash(s)
    BY <1>1, ClosedCash DEF Effects, IsOpen
  <2> QED
    BY <1>1, <2>1 DEF SealedBalance
<1>2. CASE /\ Seals(s)
           /\ session'[s].opening = session[s].opening
           /\ session'[s].expected = ExpectedCash(s)
  <2>1. UNCHANGED movement
    BY <1>2 DEF Seals
  <2>2. ExpectedCash(s)' = ExpectedCash(s)
    BY <1>2, <2>1, SameCash DEF PostedOf
  <2> QED
    BY <1>2, <2>2
<1> QED
  BY <1>1, <1>2, ClosedAfter DEF Effects

\* The balance sealed into a session stays true for ever: no request of any
\* service reaches the cash of a CLOSED session.
THEOREM SealedBalanceHolds == Spec => []SealedBalance
<1>1. Init => SealedBalance
  BY DEF Init, SealedBalance, NoSession
<1>2. TypeOK /\ SealedBalance /\ [Next]_vars => SealedBalance'
  BY StepEffects, SealedBalanceStep
<1> QED
  BY <1>1, <1>2, TypeCorrect, PTL DEF Spec

\* A row CLOSED before a step keeps all but its counted amount, which a second
\* forced close may clear.
LEMMA ClosedStays ==
    ASSUME TypeOK, Effects, SealedBalance, NEW s \in Sessions,
           session[s].status = "CLOSED"
    PROVE  /\ [session'[s] EXCEPT !.counted = NULL]
                = [session[s] EXCEPT !.counted = NULL]
           /\ session'[s].counted \in {session[s].counted, NULL}
           /\ session'[s].status = "CLOSED" /\ session'[s].expected = session[s].expected
<1>0. session[s] \in SessionRow(session[s].expected, session[s].counted)
  BY DEF TypeOK, SessionType
<1>1. CASE UNCHANGED session
  BY <1>1
<1>2. ASSUME NEW t \in Sessions, Opens(t)
      PROVE  session'[s] = session[s]
  BY <1>2 DEF Opens
<1>3. ASSUME NEW t \in Sessions, Seals(t), t # s
      PROVE  session'[s] = session[s]
  BY <1>3 DEF Seals, Sealed, TypeOK, SessionType
<1>4. ASSUME Seals(s)
      PROVE  /\ session'[s] = [session[s] EXCEPT !.counted = NULL]
             /\ session'[s].counted = NULL
  <2>1. PICK counted : session' = Sealed(s, counted)
    BY <1>4 DEF Seals
  <2>2. session'[s].counted = NULL
    BY <1>4 DEF Seals
  <2>3. session[s].expected = ExpectedCash(s)
    BY DEF SealedBalance
  <2> QED
    BY <1>0, <2>1, <2>2, <2>3 DEF Sealed, TypeOK, SessionType, SessionRow
<1> QED
  BY <1>0, <1>1, <1>2, <1>3, <1>4
     DEF Effects, SessionEffect, Staffs, SessionRow

\* A CLOSED session is never reopened nor its expected cash rewritten, not even
\* by the forced close that seals it a second time.
THEOREM SealIsFinalHolds == Spec => SealIsFinal
<1>1. TypeOK /\ SealedBalance /\ [Next]_vars
        => [\A s \in Sessions : session[s].status = "CLOSED" =>
              /\ [session'[s] EXCEPT !.counted = NULL]
                   = [session[s] EXCEPT !.counted = NULL]
              /\ session'[s].counted \in {session[s].counted, NULL}]_vars
  BY ClosedStays, StepEffects
<1> QED
  BY <1>1, TypeCorrect, SealedBalanceHolds, PTL DEF Spec, SealIsFinal

-----------------------------------------------------------------------------
(* Nothing runs after the seal.                                            *)

LEMMA NothingRunsStep ==
    ASSUME TypeOK, Effects, NothingRunsAfterSeal
    PROVE  NothingRunsAfterSeal'
<1> SUFFICES ASSUME NEW s \in Sessions, session'[s].status = "CLOSED"
             PROVE  OpenTransfersOf(s)' = {} /\ onShift'[s] = {}
  BY DEF NothingRunsAfterSeal
<1>0. ~IsOpen(s) => OpenTransfersOf(s)' \subseteq OpenTransfersOf(s)
  <2> SUFFICES ASSUME ~IsOpen(s), NEW t \in Transfers, t \in OpenTransfersOf(s)'
               PROVE  t \in OpenTransfersOf(s)
    BY DEF OpenTransfersOf
  <2>1. CASE transfer'[t] = transfer[t]
    BY <2>1 DEF OpenTransfersOf
  <2>2. CASE Requests(t)
    BY <2>2 DEF Requests, OpenTransfersOf
  <2>3. CASE Signs(t)
    BY <2>3 DEF Signs, OpenTransfersOf
  <2>4. CASE Drops(t)
    BY <2>4 DEF Drops, OpenTransfersOf, OpenTransfer, DeadTransfer
  <2> QED
    BY <2>1, <2>2, <2>3, <2>4 DEF Effects, TransferEffect
<1>1. CASE session[s].status = "CLOSED" /\ session'[s] = session[s]
  <2>1. OpenTransfersOf(s) = {} /\ onShift[s] = {} /\ ~IsOpen(s)
    BY <1>1 DEF NothingRunsAfterSeal, IsOpen
  <2>2. onShift'[s] = {}
    BY <1>1, <2>1 DEF Effects, SessionEffect, Staffs, Opens, Seals, TypeOK
  <2> QED
    BY <1>0, <2>1, <2>2
<1>2. CASE Seals(s)
  BY <1>2 DEF Seals, OpenTransfersOf, TypeOK
<1> QED
  BY <1>1, <1>2, ClosedAfter DEF Effects

\* However it was closed, a CLOSED session has no transfer in progress out of
\* it and nobody on shift.
THEOREM NothingRuns == Spec => []NothingRunsAfterSeal
<1>1. Init => NothingRunsAfterSeal
  BY DEF Init, NothingRunsAfterSeal, NoSession
<1>2. TypeOK /\ NothingRunsAfterSeal /\ [Next]_vars => NothingRunsAfterSeal'
  BY StepEffects, NothingRunsStep
<1> QED
  BY <1>1, <1>2, TypeCorrect, PTL DEF Spec

-----------------------------------------------------------------------------
(* Transfers and movements.                                                *)

\* No cash is moved by a transfer no approver signed.
THEOREM TransfersSigned == Spec => []TransfersAreSigned
<1>1. Init => TransfersAreSigned
  BY DEF Init, TransfersAreSigned, NoTransfer
<1>2. ASSUME Effects, TransfersAreSigned, NEW t \in Transfers,
             transfer'[t].status \in {"APPROVED", "COMPLETED"}
      PROVE  transfer'[t].approvedBy \in Approvers
  BY <1>2 DEF Effects, TransferEffect, TransfersAreSigned, Requests, Signs, Drops,
              InProgress, OpenTransfer, DeadTransfer
<1>3. TypeOK /\ TransfersAreSigned /\ [Next]_vars => TransfersAreSigned'
  BY <1>2, StepEffects DEF TransfersAreSigned
<1> QED
  BY <1>1, <1>3, TypeCorrect, PTL DEF Spec

\* A transfer COMPLETED, REJECTED or CANCELLED is never written again.
THEOREM TerminalTransfers == Spec => TerminalTransfersStay
<1>1. ASSUME Effects, NEW t \in Transfers,
             transfer[t].status \in DeadTransfer \cup {"COMPLETED"}
      PROVE  transfer'[t] = transfer[t]
  BY <1>1 DEF Effects, TransferEffect, Requests, Signs, Drops, InProgress,
              OpenTransfer, DeadTransfer
<1>2. TypeOK /\ [Next]_vars
        => [\A t \in Transfers :
              transfer[t].status \in DeadTransfer \cup {"COMPLETED"}
                => transfer'[t] = transfer[t]]_vars
  BY <1>1, StepEffects
<1> QED
  BY <1>2, TypeCorrect, PTL DEF Spec, TerminalTransfersStay

\* A movement is never deleted nor rewritten, only voided while its session is
\* open.
THEOREM MovementTrail == Spec => MovementsAreKept
<1>1. ASSUME Effects, NEW m \in Movements,
             movement[m].status # "NONE", movement'[m] # movement[m]
      PROVE  Voids(m)
  BY <1>1 DEF Effects, MovementEffect, Posts
<1>2. TypeOK /\ [Next]_vars
        => [\A m \in Movements :
              movement[m].status # "NONE" /\ movement'[m] # movement[m] =>
                 /\ movement[m].status = "POSTED"
                 /\ movement'[m] = [movement[m] EXCEPT !.status = "VOIDED"]
                 /\ IsOpen(movement[m].session)]_vars
  BY <1>1, StepEffects DEF Voids
<1> QED
  BY <1>2, TypeCorrect, PTL DEF Spec, MovementsAreKept

-----------------------------------------------------------------------------
(* Closings and their counts.                                              *)

\* A closing or a count in use belongs to a session, or to a closing in use,
\* and a session has at most one PENDING closing.
ClosingRows ==
    /\ \A c \in Closings :
         IF closing[c].status = "NONE" THEN closing[c].session \notin Sessions
         ELSE closing[c].session \in Sessions
    /\ \A c, d \in Closings :
         closing[c].status = "PENDING" /\ closing[d].status = "PENDING"
           /\ closing[c].session = closing[d].session => c = d
    /\ \A k \in CashCounts :
         count[k].status \in {"DRAFT", "COMPLETED"} =>
            count[k].closing \in Closings /\ closing[count[k].closing].status # "NONE"

Starts(c) ==
    /\ closing[c].status = "NONE"
    /\ closing'[c].status = "PENDING"
    /\ closing'[c].session \in Sessions
    /\ IsOpen(closing'[c].session)
    /\ PendingClosings(closing'[c].session) = {}
    /\ \A d \in Closings \ {c} : closing'[d] = closing[d]
    /\ UNCHANGED <<session, count>>

Recounts(c) ==
    /\ closing[c].status = "PENDING"
    /\ CountsOf(c, "COMPLETED") = {}
    /\ closing'[c].status = "PENDING"
    /\ closing'[c].session = closing[c].session
    /\ \A d \in Closings \ {c} : closing'[d] = closing[d]
    /\ UNCHANGED <<session, count>>

Rejects(c) ==
    /\ closing[c].status = "PENDING"
    /\ closing'[c].status = "REJECTED"
    /\ closing'[c].session = closing[c].session
    /\ closing'[c].counted = closing[c].counted
    /\ \A d \in Closings \ {c} : closing'[d] = closing[d]
    /\ UNCHANGED <<session, count>>

Completes(c) ==
    /\ InClosing(c)
    /\ CountsOf(c, "DRAFT") = {}
    /\ closing'[c].status = "COMPLETED"
    /\ closing'[c].session = closing[c].session
    /\ closing'[c].expected = ExpectedCash(closing[c].session)
    /\ closing'[c].counted # NULL
    /\ \/ CountsOf(c, "COMPLETED") = {}
       \/ \E k \in CountsOf(c, "COMPLETED") : closing'[c].counted = count[k].total
    /\ \A d \in Closings \ {c} : closing'[d] = closing[d]
    /\ session' = Sealed(closing[c].session, closing'[c].counted)
    /\ UNCHANGED count

StartsCount(k) ==
    /\ count[k].status = "NONE"
    /\ count'[k].status = "DRAFT"
    /\ count'[k].closing \in Closings
    /\ closing[count'[k].closing].status = "PENDING"
    /\ CountsOf(count'[k].closing, "DRAFT") = {}
    /\ CountsOf(count'[k].closing, "COMPLETED") = {}
    /\ \A l \in CashCounts \ {k} : count'[l] = count[l]
    /\ UNCHANGED <<session, closing>>

Edits(k) ==
    /\ count[k].status = "DRAFT"
    /\ count'[k].status \in {"DRAFT", "CANCELLED"}
    /\ count'[k].closing = count[k].closing
    /\ \A l \in CashCounts \ {k} : count'[l] = count[l]
    /\ UNCHANGED <<session, closing>>

SealsCount(k) ==
    LET c == count[k].closing IN
    /\ count[k].status = "DRAFT"
    /\ count'[k].status = "COMPLETED"
    /\ count'[k].closing = c
    /\ \A l \in CashCounts \ {k} : count'[l] = count[l]
    /\ closing[c].status = "PENDING"
    /\ closing'[c].status = "PENDING"
    /\ closing'[c].session = closing[c].session
    /\ closing'[c].counted = count'[k].total
    /\ \A d \in Closings \ {c} : closing'[d] = closing[d]
    /\ UNCHANGED session

\* What a step is to the closings and their counts.
ArqueoEffect ==
    \/ UNCHANGED <<closing, count>>
    \/ \E c \in Closings : Starts(c) \/ Recounts(c) \/ Rejects(c) \/ Completes(c)
    \/ \E k \in CashCounts : StartsCount(k) \/ Edits(k) \/ SealsCount(k)

\* A snapshot takes the balance of its instant, and leaves status and session.
LEMMA SnapshotRow ==
    ASSUME ClosingType, NEW c \in Closings, NEW s, NEW counted
    PROVE  LET row == Snapshot(c, s, counted) IN
           /\ row.status = closing[c].status /\ row.session = closing[c].session
           /\ row.expected = ExpectedCash(s) /\ row.counted = counted
  BY DEF ClosingType, ClosingRow, Snapshot

\* Every action, as closings and counts see it.
LEMMA ArqueoEffects == ASSUME TypeOK, ClosingRows, [Next]_vars PROVE ArqueoEffect
<1>0. ClosingType /\ CountType
  BY DEF TypeOK
<1>a. UNCHANGED <<closing, count>> => ArqueoEffect
  BY DEF ArqueoEffect
<1>1. CASE SessionStep
  BY <1>1, <1>a DEF SessionStep, UpdateRegister, OpenSession, CloseSession, ForceCloseRead,
         ForceCloseSeal, ForceCloseReject, AssignOperator, ExitOperator, SealSession
<1>2. CASE MovementStep
  BY <1>2, <1>a DEF MovementStep, ManualMovement, VoidMovement, ChargeSale, PersistPayments
<1>3. CASE TransferStep
  BY <1>3, <1>a DEF TransferStep, CreateTransfer, ApproveTransfer, CompleteToVault,
           CompleteToRegister, RejectTransfer, CancelTransfer
<1>4. ASSUME NEW s \in Sessions, StartClosing(s) PROVE ArqueoEffect
  <2>1. PICK c \in NextId(Unused(closing)) :
          closing' = [closing EXCEPT ![c] =
            [Snapshot(c, s, NULL) EXCEPT !.status = "PENDING", !.session = s]]
    BY <1>4 DEF StartClosing
  <2>2. c \in Closings /\ closing[c].status = "NONE"
    BY <1>0, <2>1, NextIdUnused DEF ClosingType
  <2>3. closing'[c].status = "PENDING" /\ closing'[c].session = s
    BY <1>0, <2>1, <2>2 DEF Snapshot, ClosingType, ClosingRow
  <2>4. Starts(c)
    BY <1>0, <1>4, <2>1, <2>2, <2>3 DEF StartClosing, Starts, ClosingType
  <2> QED BY <2>2, <2>4 DEF ArqueoEffect
<1>5. ASSUME NEW c \in Closings, NEW b \in Counts, RegisterCount(c, b) PROVE ArqueoEffect
  <2>1. closing' = [closing EXCEPT ![c] = Snapshot(c, closing[c].session, b)]
    BY <1>5 DEF RegisterCount
  <2>2. closing'[c] = Snapshot(c, closing[c].session, b)
    BY <1>0, <2>1 DEF ClosingType
  <2>3. closing'[c].status = closing[c].status /\ closing'[c].session = closing[c].session
    BY <1>0, <2>2, SnapshotRow
  <2>4. Recounts(c)
    BY <1>0, <1>5, <2>1, <2>3 DEF RegisterCount, Recounts, InClosing, ClosingType
  <2> QED BY <2>4 DEF ArqueoEffect
<1>6. ASSUME NEW c \in Closings, NEW b \in Counts \cup {NULL}, CompleteClosing(c, b)
      PROVE  ArqueoEffect
  <2>1. PICK counted \in CountedAmount(c, b) :
          /\ closing' = [closing EXCEPT ![c] =
               [Snapshot(c, closing[c].session, counted) EXCEPT !.status = "COMPLETED"]]
          /\ session' = Sealed(closing[c].session, counted)
    BY <1>6 DEF CompleteClosing, CloseWith
  <2>2. /\ closing'[c].status = "COMPLETED"
        /\ closing'[c].session = closing[c].session
        /\ closing'[c].expected = ExpectedCash(closing[c].session)
        /\ closing'[c].counted = counted
    BY <1>0, <2>1 DEF Snapshot, ClosingType, ClosingRow
  <2>3. /\ counted # NULL
        /\ \/ CountsOf(c, "COMPLETED") = {}
           \/ \E k \in CountsOf(c, "COMPLETED") : counted = count[k].total
    <3>1. CASE CountsOf(c, "COMPLETED") # {}
      <4>1. PICK k \in CountsOf(c, "COMPLETED") : counted = count[k].total
        BY <2>1, <3>1 DEF CountedAmount
      <4>2. counted \in Int \/ (b # NULL /\ counted = b)
        BY <2>1, <3>1 DEF CountedAmount
      <4>3. counted # NULL
        BY <4>2, MoneyAssumption, NullAssumption
      <4> QED BY <4>1, <4>3
    <3>2. CASE CountsOf(c, "COMPLETED") = {}
      BY <2>1, <3>2 DEF CountedAmount
    <3> QED BY <3>1, <3>2
  <2>4. \A d \in Closings \ {c} : closing'[d] = closing[d]
    BY <1>0, <2>1 DEF ClosingType
  <2>5. Completes(c)
    BY <1>6, <2>1, <2>2, <2>3, <2>4 DEF CompleteClosing, CloseWith, Completes
  <2> QED BY <2>5 DEF ArqueoEffect
<1>7. ASSUME NEW c \in Closings, NEW u \in Users, RejectClosing(c, u) PROVE ArqueoEffect
  <2>1. /\ closing'[c].status = "REJECTED"
        /\ closing'[c].session = closing[c].session
        /\ closing'[c].counted = closing[c].counted
        /\ \A d \in Closings \ {c} : closing'[d] = closing[d]
    BY <1>0, <1>7 DEF RejectClosing, ClosingType, ClosingRow
  <2>2. Rejects(c)
    BY <1>7, <2>1 DEF RejectClosing, Rejects
  <2> QED BY <2>2 DEF ArqueoEffect
<1>8. ASSUME NEW c \in Closings, StartCount(c) PROVE ArqueoEffect
  <2>1. PICK k \in NextId(Unused(count)) :
          count' = [count EXCEPT ![k] = [NoCount EXCEPT !.status = "DRAFT", !.closing = c]]
    BY <1>8 DEF StartCount
  <2>2. k \in CashCounts /\ count[k].status = "NONE"
    BY <1>0, <2>1, NextIdUnused DEF CountType
  <2>3. /\ count'[k].status = "DRAFT" /\ count'[k].closing = c
        /\ \A l \in CashCounts \ {k} : count'[l] = count[l]
    BY <1>0, <2>1, <2>2 DEF CountType, NoCount
  <2>4. StartsCount(k)
    BY <1>8, <2>2, <2>3 DEF StartCount, StartsCount, InClosing
  <2> QED BY <2>2, <2>4 DEF ArqueoEffect
<1>9. ASSUME NEW k \in CashCounts, NEW lines \in ItemLines, UpsertItems(k, lines)
      PROVE  ArqueoEffect
  <2>1. \E items, total :
          count' = [count EXCEPT ![k].items = items, ![k].total = total]
    BY <1>9 DEF UpsertItems
  <2>2. /\ count'[k].status = count[k].status /\ count'[k].closing = count[k].closing
        /\ \A l \in CashCounts \ {k} : count'[l] = count[l]
    BY <1>0, <2>1 DEF CountType, CountRow
  <2>3. Edits(k)
    BY <1>9, <2>2 DEF UpsertItems, InDraft, Edits
  <2> QED BY <2>3 DEF ArqueoEffect
<1>10. ASSUME NEW k \in CashCounts, CancelCount(k) PROVE ArqueoEffect
  <2>1. /\ count'[k].status = "CANCELLED" /\ count'[k].closing = count[k].closing
        /\ \A l \in CashCounts \ {k} : count'[l] = count[l]
    BY <1>0, <1>10 DEF CancelCount, CountType, CountRow
  <2>2. Edits(k)
    BY <1>10, <2>1 DEF CancelCount, InDraft, Edits
  <2> QED BY <2>2 DEF ArqueoEffect
<1>11. ASSUME NEW k \in CashCounts, CompleteCount(k) PROVE ArqueoEffect
  <2> PICK c, total : c = count[k].closing /\ total = ItemsTotal(count[k].items)
    OBVIOUS
  <2>1. /\ count' = [count EXCEPT ![k].status = "COMPLETED", ![k].total = total]
        /\ closing' = [closing EXCEPT ![c] = Snapshot(c, closing[c].session, total)]
        /\ InDraft(k)
    BY <1>11 DEF CompleteCount
  <2>2. /\ count'[k].status = "COMPLETED" /\ count'[k].closing = count[k].closing
        /\ count'[k].total = total
        /\ \A l \in CashCounts \ {k} : count'[l] = count[l]
    BY <1>0, <2>1 DEF CountType, CountRow
  <2>3. c \in Closings /\ closing[c].status = "PENDING" /\ count[k].status = "DRAFT"
    BY <2>1 DEF InDraft, InClosing, ClosingRows
  <2>4. closing'[c] = Snapshot(c, closing[c].session, total)
    BY <1>0, <2>1, <2>3 DEF ClosingType
  <2>5. /\ closing'[c].status = "PENDING" /\ closing'[c].session = closing[c].session
        /\ closing'[c].counted = total
        /\ \A d \in Closings \ {c} : closing'[d] = closing[d]
    BY <1>0, <2>1, <2>3, <2>4, SnapshotRow DEF ClosingType
  <2>6. SealsCount(k)
    BY <1>11, <2>2, <2>3, <2>5 DEF CompleteCount, SealsCount
  <2> QED BY <2>6 DEF ArqueoEffect
<1>12. CASE ClosingStep
  BY <1>4, <1>5, <1>6, <1>7, <1>8, <1>9, <1>10, <1>11, <1>12 DEF ClosingStep
<1>13. CASE UNCHANGED vars
  BY <1>13, <1>a DEF vars
<1> QED BY <1>1, <1>2, <1>3, <1>12, <1>13 DEF Next

\* Each conjunct over these effects.
LEMMA ClosingRowsStep ==
    ASSUME TypeOK, ClosingRows, ArqueoEffect
    PROVE  ClosingRows'
<1>1. CASE UNCHANGED <<closing, count>>
  BY <1>1 DEF ClosingRows
<1>2. ASSUME NEW c \in Closings, Starts(c) PROVE ClosingRows'
  BY <1>2 DEF Starts, ClosingRows, PendingClosings
<1>3. ASSUME NEW c \in Closings, Recounts(c) \/ Rejects(c) \/ Completes(c)
      PROVE  ClosingRows'
  BY <1>3 DEF Recounts, Rejects, Completes, InClosing, ClosingRows
<1>4. ASSUME NEW k \in CashCounts, StartsCount(k) \/ Edits(k) PROVE ClosingRows'
  BY <1>4 DEF StartsCount, Edits, ClosingRows
<1>5. ASSUME NEW k \in CashCounts, SealsCount(k) PROVE ClosingRows'
  BY <1>5 DEF SealsCount, ClosingRows
<1> QED BY <1>1, <1>2, <1>3, <1>4, <1>5 DEF ArqueoEffect

LEMMA ReconcilesStep ==
    ASSUME TypeOK, Effects, SealedBalance, ClosingRows, ArqueoEffect,
           ClosingReconcilesSession
    PROVE  ClosingReconcilesSession'
<1> SUFFICES ASSUME NEW c \in Closings, closing'[c].status = "COMPLETED"
             PROVE  LET s == closing'[c].session IN
                    /\ session'[s].status = "CLOSED"
                    /\ closing'[c].counted # NULL
                    /\ session'[s].expected = closing'[c].expected
                    /\ session'[s].counted \in {closing'[c].counted, NULL}
                    /\ \A d \in Closings \ {c} :
                         closing'[d].session = s => closing'[d].status = "REJECTED"
  BY DEF ClosingReconcilesSession
<1>0. \A d \in Closings : closing[d].status \in {"NONE", "PENDING", "COMPLETED", "REJECTED"}
  BY DEF TypeOK, ClosingType, ClosingRow
<1>1. CASE Completes(c)
  <2> PICK s : s = closing[c].session
    OBVIOUS
  <2>1. s \in Sessions /\ closing[c].status = "PENDING" /\ session[s].status = "OPEN"
    BY <1>1 DEF Completes, InClosing, ClosingRows, IsOpen
  <2>2. session[s] \in SessionRow(session[s].expected, session[s].counted)
    BY <2>1 DEF TypeOK, SessionType
  <2>3. /\ session'[s].status = "CLOSED" /\ session'[s].counted = closing'[c].counted
        /\ session'[s].expected = ExpectedCash(s)
    BY <1>1, <2>1, <2>2 DEF Completes, Sealed, TypeOK, SessionType, SessionRow
  <2>4. ASSUME NEW d \in Closings \ {c}, closing[d].session = s
        PROVE  closing[d].status = "REJECTED"
    <3>1. closing[d].status # "NONE"
      BY <2>1, <2>4 DEF ClosingRows
    <3>2. closing[d].status # "PENDING"
      BY <2>1, <2>4 DEF ClosingRows
    <3>3. closing[d].status # "COMPLETED"
      BY <2>1, <2>4 DEF ClosingReconcilesSession
    <3> QED BY <1>0, <3>1, <3>2, <3>3
  <2> QED BY <1>1, <2>3, <2>4 DEF Completes
<1>2. CASE ~Completes(c)
  <2> PICK s : s = closing[c].session
    OBVIOUS
  <2>1. closing'[c] = closing[c]
    BY <1>2 DEF ArqueoEffect, Starts, Recounts, Rejects, Completes, StartsCount, Edits,
                SealsCount
  <2>2. /\ s \in Sessions /\ session[s].status = "CLOSED"
        /\ closing[c].counted # NULL
        /\ session[s].expected = closing[c].expected
        /\ session[s].counted \in {closing[c].counted, NULL}
        /\ \A d \in Closings \ {c} : closing[d].session = s => closing[d].status = "REJECTED"
    BY <2>1 DEF ClosingReconcilesSession, ClosingRows
  <2>3. /\ session'[s].status = "CLOSED"
        /\ session'[s].expected = session[s].expected
        /\ session'[s].counted \in {session[s].counted, NULL}
    BY <2>2, ClosedStays
  <2>4. ASSUME NEW d \in Closings \ {c}, closing'[d].session = s
        PROVE  closing'[d].status = "REJECTED"
    <3>1. \/ closing'[d] = closing[d]
          \/ closing[d].status = "PENDING" /\ closing'[d].session = closing[d].session
          \/ closing[d].status = "NONE" /\ IsOpen(closing'[d].session)
      <4>1. ASSUME NEW e \in Closings, Starts(e)
            PROVE  closing'[d] = closing[d] \/ Starts(d)
        BY <4>1 DEF Starts
      <4>2. ASSUME NEW e \in Closings, Recounts(e) \/ Rejects(e) \/ Completes(e)
            PROVE  \/ closing'[d] = closing[d]
                   \/ closing[d].status = "PENDING" /\ closing'[d].session = closing[d].session
        BY <4>2 DEF Recounts, Rejects, Completes, InClosing
      <4>3. ASSUME NEW k \in CashCounts, StartsCount(k) \/ Edits(k) \/ SealsCount(k)
            PROVE  \/ closing'[d] = closing[d]
                   \/ closing[d].status = "PENDING" /\ closing'[d].session = closing[d].session
        BY <4>3 DEF StartsCount, Edits, SealsCount
      <4> QED BY <4>1, <4>2, <4>3 DEF ArqueoEffect, Starts
    <3>2. CASE closing'[d] = closing[d]
      BY <2>2, <2>4, <3>2
    <3>3. CASE closing[d].status = "PENDING" /\ closing'[d].session = closing[d].session
      BY <2>2, <2>4, <3>3
    <3>4. CASE closing[d].status = "NONE" /\ IsOpen(closing'[d].session)
      BY <2>2, <2>4, <3>4 DEF IsOpen
    <3> QED BY <3>1, <3>2, <3>3, <3>4
  <2> QED BY <2>1, <2>2, <2>3, <2>4
<1> QED BY <1>1, <1>2

LEMMA FeedsStep ==
    ASSUME TypeOK, ClosingRows, ArqueoEffect, CountFeedsClosing
    PROVE  CountFeedsClosing'
<1> DEFINE Live(c) == CountsOf(c, "DRAFT") \cup CountsOf(c, "COMPLETED")
           Fed(c) == /\ \A k, l \in Live(c) : k = l
                     /\ \A k \in CountsOf(c, "COMPLETED") : closing[c].counted = count[k].total
                     /\ closing[c].status = "COMPLETED" => CountsOf(c, "DRAFT") = {}
<1> SUFFICES ASSUME NEW c \in Closings PROVE Fed(c)'
  BY DEF CountFeedsClosing
<1>0. Fed(c)
  BY DEF CountFeedsClosing
<1>1. ASSUME UNCHANGED count
      PROVE  CountsOf(c, "DRAFT")' = CountsOf(c, "DRAFT")
               /\ CountsOf(c, "COMPLETED")' = CountsOf(c, "COMPLETED")
  BY <1>1 DEF CountsOf
<1>2. ASSUME UNCHANGED count, closing'[c] = closing[c] PROVE Fed(c)'
  BY <1>0, <1>1, <1>2
<1>3. ASSUME Starts(c) PROVE Fed(c)'
  <2>1. CountsOf(c, "DRAFT") = {} /\ CountsOf(c, "COMPLETED") = {}
    BY <1>3 DEF Starts, ClosingRows, CountsOf
  <2> QED BY <1>1, <1>3, <2>1 DEF Starts
<1>4. ASSUME Recounts(c) PROVE Fed(c)'
  BY <1>0, <1>1, <1>4 DEF Recounts
<1>5. ASSUME Rejects(c) PROVE Fed(c)'
  BY <1>0, <1>1, <1>5 DEF Rejects
<1>6. ASSUME Completes(c) PROVE Fed(c)'
  BY <1>0, <1>1, <1>6 DEF Completes
<1>7. ASSUME NEW k \in CashCounts, StartsCount(k) PROVE Fed(c)'
  <2>1. CASE count'[k].closing = c
    <3>1. CountsOf(c, "DRAFT")' = {k} /\ CountsOf(c, "COMPLETED")' = {}
      BY <1>7, <2>1 DEF StartsCount, CountsOf
    <3> QED BY <1>7, <2>1, <3>1 DEF StartsCount
  <2>2. CASE count'[k].closing # c
    <3>1. /\ CountsOf(c, "DRAFT")' = CountsOf(c, "DRAFT") \ {k}
          /\ CountsOf(c, "COMPLETED")' = CountsOf(c, "COMPLETED")
          /\ k \notin CountsOf(c, "COMPLETED")
      BY <1>7, <2>2 DEF StartsCount, CountsOf
    <3> QED BY <1>0, <1>7, <3>1 DEF StartsCount, CountsOf
  <2> QED BY <2>1, <2>2
<1>8. ASSUME NEW k \in CashCounts, Edits(k) PROVE Fed(c)'
  <2>1. /\ CountsOf(c, "DRAFT")' \subseteq CountsOf(c, "DRAFT")
        /\ CountsOf(c, "COMPLETED")' = CountsOf(c, "COMPLETED")
        /\ k \notin CountsOf(c, "COMPLETED")
    BY <1>8 DEF Edits, CountsOf
  <2> QED BY <1>0, <1>8, <2>1 DEF Edits, CountsOf
<1>9. ASSUME NEW k \in CashCounts, SealsCount(k) PROVE Fed(c)'
  <2>1. CASE count[k].closing = c
    <3>1. k \in CountsOf(c, "DRAFT")
      BY <1>9, <2>1 DEF SealsCount, CountsOf
    <3>2. CountsOf(c, "DRAFT") = {k} /\ CountsOf(c, "COMPLETED") = {}
      BY <1>0, <3>1 DEF CountsOf
    <3>3. CountsOf(c, "DRAFT")' = {} /\ CountsOf(c, "COMPLETED")' = {k}
      BY <1>9, <2>1, <3>2 DEF SealsCount, CountsOf
    <3> QED BY <1>9, <2>1, <3>3 DEF SealsCount
  <2>2. CASE count[k].closing # c
    <3>1. /\ CountsOf(c, "DRAFT")' = CountsOf(c, "DRAFT")
          /\ CountsOf(c, "COMPLETED")' = CountsOf(c, "COMPLETED")
          /\ k \notin CountsOf(c, "COMPLETED")
          /\ closing'[c] = closing[c]
      BY <1>9, <2>2 DEF SealsCount, CountsOf
    <3> QED BY <1>0, <1>9, <3>1 DEF SealsCount, CountsOf
  <2> QED BY <2>1, <2>2
<1>10. ASSUME NEW d \in Closings \ {c}, Starts(d) \/ Recounts(d) \/ Rejects(d) \/ Completes(d)
       PROVE  Fed(c)'
  BY <1>2, <1>10 DEF Starts, Recounts, Rejects, Completes
<1> HIDE DEF Fed
<1> QED BY <1>2, <1>3, <1>4, <1>5, <1>6, <1>7, <1>8, <1>9, <1>10 DEF ArqueoEffect

\* Closings and counts keep to their session and closing in every state.
LEMMA ClosingRowsHold == Spec => []ClosingRows
<1>1. Init => ClosingRows
  BY NullIsNoRow DEF Init, ClosingRows, NoClosing, NoCount
<1>2. TypeOK /\ ClosingRows /\ [Next]_vars => ClosingRows'
  BY ArqueoEffects, ClosingRowsStep
<1> QED BY <1>1, <1>2, TypeCorrect, PTL DEF Spec

\* A COMPLETED closing and the session it closed tell the same story.
THEOREM ClosingReconciles == Spec => []ClosingReconcilesSession
<1>1. Init => ClosingReconcilesSession
  BY DEF Init, ClosingReconcilesSession, NoClosing
<1>2. TypeOK /\ SealedBalance /\ ClosingRows /\ ClosingReconcilesSession /\ [Next]_vars
        => ClosingReconcilesSession'
  BY StepEffects, ArqueoEffects, ReconcilesStep
<1> QED BY <1>1, <1>2, TypeCorrect, SealedBalanceHolds, ClosingRowsHold, PTL DEF Spec

\* What was counted is what the closing says was counted.
THEOREM CountFeeds == Spec => []CountFeedsClosing
<1>1. Init => CountFeedsClosing
  BY DEF Init, CountFeedsClosing, CountsOf, NoClosing, NoCount
<1>2. TypeOK /\ ClosingRows /\ CountFeedsClosing /\ [Next]_vars => CountFeedsClosing'
  BY ArqueoEffects, FeedsStep
<1> QED BY <1>1, <1>2, TypeCorrect, ClosingRowsHold, PTL DEF Spec

-----------------------------------------------------------------------------
(* The cash itself: which movements transfers, sales and voids leave in the *)
(* drawers, and what they add up to.                                        *)

\* Rows that are not in use are empty; those in use belong to a session that
\* was opened, and a transfer carries something.  A forced close in flight has
\* read an opened session.
RowsInv ==
    /\ \A s \in Sessions : session[s].status = "NONE" => session[s] = NoSession
    /\ \A m \in Movements :
         IF movement[m].status = "NONE" THEN movement[m] = NoMovement
         ELSE /\ movement[m].session \in Sessions
              /\ session[movement[m].session].status # "NONE"
    /\ \A v \in Sales : sale[v].status = "NONE" => sale[v] = NoSale
    /\ \A t \in Transfers :
         IF transfer[t].status = "NONE" THEN transfer[t] = NoTransfer
         ELSE /\ transfer[t].source \in Sessions
              /\ transfer[t].amount > 0
              /\ transfer[t].destination \in Registers \cup {Vault}
    /\ \A u \in Approvers :
         forcing[u] \in Sessions => session[forcing[u]].status # "NONE"

\* The other steps: no movement, no sale, no transfer completed.
Asks(t) ==
    /\ transfer[t].status = "NONE"
    /\ transfer'[t].status = "PENDING"
    /\ transfer'[t].source \in Sessions
    /\ transfer'[t].destination \in Registers \cup {Vault}
    /\ transfer'[t].amount > 0

Turns(t) ==
    /\ InProgress(t)
    /\ transfer'[t].status \in {"APPROVED"} \cup DeadTransfer
    /\ transfer'[t].source = transfer[t].source
    /\ transfer'[t].destination = transfer[t].destination
    /\ transfer'[t].amount = transfer[t].amount

Quiet ==
    /\ UNCHANGED <<movement, sale>>
    /\ \A t \in Transfers : transfer'[t] = transfer[t] \/ Asks(t) \/ Turns(t)

Manual ==
    \E s \in Sessions, u \in Users, type \in {"CASH_IN", "CASH_OUT"}, a \in Amounts,
       approval \in BOOLEAN : ManualMovement(s, u, type, a, approval)
Charge ==
    \E s \in Sessions, total \in Amounts, cash \in Amounts \cup {0},
       other \in Amounts \cup {0} : ChargeSale(s, total, cash, other)

\* Every step, as the movements see it.
LEMMA CashSteps ==
    ASSUME TypeOK, [Next]_vars
    PROVE  \/ Quiet
           \/ Manual
           \/ \E m \in Movements : VoidMovement(m)
           \/ Charge
           \/ \E t \in Transfers, u \in Users : CompleteToVault(t, u)
           \/ \E t \in Transfers, u \in Users : CompleteToRegister(t, u)
<1>0. transfer \in [Transfers -> TransferRow]
  BY DEF TypeOK
<1>1. ASSUME UNCHANGED <<movement, sale, transfer>> PROVE Quiet
  BY <1>1 DEF Quiet
<1>2. CASE SessionStep
  <2>1. UNCHANGED <<movement, sale, transfer>>
    BY <1>2 DEF SessionStep, UpdateRegister, OpenSession, CloseSession, ForceCloseRead,
         ForceCloseSeal, ForceCloseReject, AssignOperator, ExitOperator, SealSession
  <2> QED BY <1>1, <2>1
<1>3. CASE ClosingStep
  <2>1. UNCHANGED <<movement, sale, transfer>>
    BY <1>3 DEF ClosingStep, StartClosing, RegisterCount, CompleteClosing, CloseWith,
         RejectClosing, StartCount, UpsertItems, CompleteCount, CancelCount
  <2> QED BY <1>1, <2>1
<1>4. CASE MovementStep
  BY <1>4, Zenon DEF MovementStep, Manual, Charge
<1>5. ASSUME NEW s \in Sessions, NEW u \in Users, NEW d \in Registers \cup {Vault},
             NEW a \in Amounts, CreateTransfer(s, u, d, a)
      PROVE  Quiet
  <2>1. PICK t \in NextId(Unused(transfer)) :
          transfer' = [transfer EXCEPT ![t] =
            [NoTransfer EXCEPT !.status = "PENDING", !.source = s,
                               !.destination = d, !.amount = a,
                               !.requestedBy = u]]
    BY <1>5 DEF CreateTransfer
  <2>2. t \in Transfers /\ transfer[t].status = "NONE"
    BY <1>0, <2>1, NextIdUnused
  <2>3. Asks(t)
    BY <1>0, <2>1, <2>2, MoneyAssumption DEF Asks, NoTransfer
  <2> QED BY <1>0, <1>5, <2>1, <2>3 DEF Quiet, CreateTransfer
<1>6. ASSUME NEW t \in Transfers, NEW u \in Users,
             ApproveTransfer(t, u) \/ RejectTransfer(t, u) \/ CancelTransfer(t, u)
      PROVE  Quiet
  <2>1. Turns(t)
    BY <1>0, <1>6
       DEF ApproveTransfer, RejectTransfer, CancelTransfer, Turns, DeadTransfer, TransferRow
  <2>2. \A r \in Transfers \ {t} : transfer'[r] = transfer[r]
    BY <1>0, <1>6 DEF ApproveTransfer, RejectTransfer, CancelTransfer
  <2> QED
    BY <1>6, <2>1, <2>2 DEF Quiet, ApproveTransfer, RejectTransfer, CancelTransfer
<1>7. CASE TransferStep
  BY <1>5, <1>6, <1>7 DEF TransferStep
<1>8. CASE UNCHANGED vars
  BY <1>1, <1>8 DEF vars
<1> QED BY <1>2, <1>3, <1>4, <1>7, <1>8 DEF Next

-----------------------------------------------------------------------------
(* The rows a movement is found by.                                        *)

With(ref) == {m \in Movements : movement[m].ref = ref}

Fresh == {m \in Movements : movement[m].status = "NONE"}

\* What refers to something is what did and the rows written for it.
LEMMA NewRows ==
    ASSUME TypeOK, RowsInv, NEW N \in SUBSET Fresh, NEW ref, ref.kind # "MANUAL",
           \A m \in Movements \ N : movement'[m].ref = movement[m].ref
    PROVE  /\ With(ref)' = With(ref) \cup {m \in N : movement'[m].ref = ref}
           /\ With(ref) \cap N = {}
<1>1. \A m \in N : movement[m].ref.kind = "MANUAL"
  BY DEF RowsInv, NoMovement, Reference, Fresh
<1> QED BY <1>1 DEF With, Fresh

\* References of different things are different.
LEMMA ReferenceKinds ==
    ASSUME NEW kind, NEW id
    PROVE  /\ Reference(kind, id).kind = kind
           /\ Reference(kind, id).id = id
           /\ \A kind2, id2 :
                Reference(kind, id) = Reference(kind2, id2) => kind = kind2 /\ id = id2
  BY DEF Reference

\* The row a movement is written as.
LEMMA PostingRow ==
    ASSUME NEW s, NEW type, NEW a, NEW ref
    PROVE  LET row == Posting(s, type, a, ref)
           IN  /\ row.status = "POSTED" /\ row.session = s /\ row.type = type
               /\ row.amount = a /\ row.ref = ref
  BY DEF Posting

\* A movement posted on its own.
LEMMA OnePosted ==
    ASSUME TypeOK, NEW s, NEW type, NEW a, NEW ref, NEW m \in NextId(Unused(movement)),
           movement' = [movement EXCEPT ![m] = Posting(s, type, a, ref)]
    PROVE  /\ m \in Fresh
           /\ movement'[m] = Posting(s, type, a, ref)
           /\ \A k \in Movements \ {m} : movement'[k] = movement[k]
  BY NextIdUnused DEF TypeOK, Fresh

\* A movement voided and its counter-movement.
LEMMA OneVoided ==
    ASSUME TypeOK, NEW m \in Movements, VoidMovement(m)
    PROVE  \E n \in Fresh :
              /\ n # m
              /\ movement'[n] = Posting(movement[m].session, Opposite(movement[m].type),
                                        movement[m].amount, Reference("CASH_MOVEMENT", m))
              /\ movement'[m] = [movement[m] EXCEPT !.status = "VOIDED"]
              /\ \A k \in Movements \ {m, n} : movement'[k] = movement[k]
<1>0. movement \in [Movements -> MovementRow]
  BY DEF TypeOK
<1>1. PICK n \in NextId(Unused(movement)) :
        movement' = [movement EXCEPT
          ![m].status = "VOIDED",
          ![n] = Posting(movement[m].session, Opposite(movement[m].type),
                         movement[m].amount, Reference("CASH_MOVEMENT", m))]
  BY DEF VoidMovement, Countered
<1>2. n \in Movements /\ movement[n].status = "NONE" /\ n # m
  BY <1>0, <1>1, NextIdUnused DEF VoidMovement
<1> QED BY <1>0, <1>1, <1>2 DEF Fresh

\* A transfer completed towards the vault: one row.
LEMMA VaultPosted ==
    ASSUME TypeOK, NEW t \in Transfers, NEW u \in Users, CompleteToVault(t, u)
    PROVE  \E m \in Fresh :
              /\ movement'[m] = TransferPosting(t, transfer[t].source, "CASH_OUT")
              /\ \A k \in Movements \ {m} : movement'[k] = movement[k]
              /\ transfer'[t] = CompletedRow(t, u, NULL, m, NULL)
              /\ \A r \in Transfers \ {t} : transfer'[r] = transfer[r]
<1>1. PICK m \in NextId(Unused(movement)) :
        /\ movement' = [movement EXCEPT
              ![m] = TransferPosting(t, transfer[t].source, "CASH_OUT")]
        /\ transfer' = [transfer EXCEPT ![t] = CompletedRow(t, u, NULL, m, NULL)]
  BY DEF CompleteToVault
<1>2. m \in Fresh
  BY NextIdUnused DEF TypeOK, Fresh
<1> QED BY <1>1, <1>2 DEF TypeOK, Fresh

\* A transfer completed towards a register: two rows in two open sessions.
LEMMA RegisterPosted ==
    ASSUME TypeOK, NEW t \in Transfers, NEW u \in Users, CompleteToRegister(t, u)
    PROVE  \E d \in Sessions \ {transfer[t].source}, m, n \in Fresh :
              /\ m # n /\ IsOpen(d)
              /\ session[d].register = transfer[t].destination
              /\ movement'[m] = TransferPosting(t, transfer[t].source, "CASH_OUT")
              /\ movement'[n] = TransferPosting(t, d, "CASH_IN")
              /\ \A k \in Movements \ {m, n} : movement'[k] = movement[k]
              /\ transfer'[t] = CompletedRow(t, u, d, m, n)
              /\ \A r \in Transfers \ {t} : transfer'[r] = transfer[r]
<1>1. PICK d \in Sessions \ {transfer[t].source}, m \in NextId(Unused(movement)) :
        /\ IsOpen(d)
        /\ session[d].register = transfer[t].destination
        /\ \E n \in NextId(Unused(movement) \ {m}) :
            /\ movement' = [movement EXCEPT
                  ![m] = TransferPosting(t, transfer[t].source, "CASH_OUT"),
                  ![n] = TransferPosting(t, d, "CASH_IN")]
            /\ transfer' = [transfer EXCEPT ![t] = CompletedRow(t, u, d, m, n)]
  BY DEF CompleteToRegister
<1>2. PICK n \in NextId(Unused(movement) \ {m}) :
        /\ movement' = [movement EXCEPT
              ![m] = TransferPosting(t, transfer[t].source, "CASH_OUT"),
              ![n] = TransferPosting(t, d, "CASH_IN")]
        /\ transfer' = [transfer EXCEPT ![t] = CompletedRow(t, u, d, m, n)]
  BY <1>1
<1>3. m \in Fresh /\ n \in Fresh /\ m # n
  BY <1>2 DEF NextId, Unused, TypeOK, Fresh
<1> QED BY <1>1, <1>2, <1>3 DEF TypeOK, Fresh

-----------------------------------------------------------------------------
(* What a step is to the cash: the rows it writes, in the tables it writes  *)
(* them to.                                                                *)

PostsManual ==
    \E m \in Fresh, s \in Sessions, type \in {"CASH_IN", "CASH_OUT"}, a \in Nat :
        /\ IsOpen(s)
        /\ movement'[m] = Posting(s, type, a, Reference("MANUAL", 0))
        /\ \A k \in Movements \ {m} : movement'[k] = movement[k]
        /\ UNCHANGED <<session, sale, transfer>>

Counters(m) ==
    \E n \in Fresh \ {m} :
        /\ movement[m].status = "POSTED"
        /\ IsOpen(movement[m].session)
        /\ movement'[n] = Posting(movement[m].session, Opposite(movement[m].type),
                                  movement[m].amount, Reference("CASH_MOVEMENT", m))
        /\ movement'[m] = [movement[m] EXCEPT !.status = "VOIDED"]
        /\ \A k \in Movements \ {m, n} : movement'[k] = movement[k]
        /\ UNCHANGED <<session, sale, transfer>>

Pays(v) ==
    \E s \in Sessions, cash \in Nat, N \in SUBSET Fresh :
        /\ IsOpen(s)
        /\ sale[v].status = "NONE"
        /\ sale'[v].status = "PAID" /\ sale'[v].session = s /\ sale'[v].cash = cash
        /\ \A w \in Sales \ {v} : sale'[w] = sale[w]
        /\ IF cash = 0 THEN N = {}
           ELSE \E m \in Fresh :
                  /\ N = {m}
                  /\ movement'[m] = Posting(s, "CASH_IN", cash, Reference("SALE", v))
        /\ \A k \in Movements \ N : movement'[k] = movement[k]
        /\ UNCHANGED <<session, transfer>>

GoesToVault(t) ==
    \E u \in Users, m \in Fresh :
        /\ InProgress(t) /\ IsOpen(transfer[t].source)
        /\ transfer[t].destination = Vault
        /\ movement'[m] = TransferPosting(t, transfer[t].source, "CASH_OUT")
        /\ \A k \in Movements \ {m} : movement'[k] = movement[k]
        /\ transfer'[t] = CompletedRow(t, u, NULL, m, NULL)
        /\ \A r \in Transfers \ {t} : transfer'[r] = transfer[r]
        /\ UNCHANGED <<session, sale>>

GoesToRegister(t) ==
    \E u \in Users, d \in Sessions \ {transfer[t].source}, m, n \in Fresh :
        /\ InProgress(t) /\ IsOpen(transfer[t].source)
        /\ transfer[t].destination \in Registers
        /\ Covered(t)
        /\ IsOpen(d)
        /\ session[d].register = transfer[t].destination
        /\ m # n
        /\ movement'[m] = TransferPosting(t, transfer[t].source, "CASH_OUT")
        /\ movement'[n] = TransferPosting(t, d, "CASH_IN")
        /\ \A k \in Movements \ {m, n} : movement'[k] = movement[k]
        /\ transfer'[t] = CompletedRow(t, u, d, m, n)
        /\ \A r \in Transfers \ {t} : transfer'[r] = transfer[r]
        /\ UNCHANGED <<session, sale>>

CashEffect ==
    \/ Quiet
    \/ PostsManual
    \/ \E m \in Movements : Counters(m)
    \/ \E v \in Sales : Pays(v)
    \/ \E t \in Transfers : GoesToVault(t)
    \/ \E t \in Transfers : GoesToRegister(t)

\* Each of these steps writes the movements it should, and no other.
LEMMA CashEffects == TypeOK /\ [Next]_vars => CashEffect
<1> SUFFICES ASSUME TypeOK, [Next]_vars PROVE CashEffect
  OBVIOUS
<1>1. CASE Manual
  <2>1. PICK s \in Sessions, u \in Users, type \in {"CASH_IN", "CASH_OUT"},
             a \in Amounts, approval \in BOOLEAN :
               ManualMovement(s, u, type, a, approval)
    BY <1>1, Zenon DEF Manual
  <2>2. PICK m \in NextId(Unused(movement)) :
          movement' = [movement EXCEPT ![m] = Posting(s, type, a, Reference("MANUAL", 0))]
    BY <2>1 DEF ManualMovement
  <2>3. a \in Nat
    BY MoneyAssumption
  <2>4. /\ m \in Fresh
        /\ movement'[m] = Posting(s, type, a, Reference("MANUAL", 0))
        /\ \A k \in Movements \ {m} : movement'[k] = movement[k]
    BY <2>2, OnePosted
  <2>5. PostsManual
    BY <2>1, <2>3, <2>4 DEF PostsManual, ManualMovement
  <2> QED BY <2>5 DEF CashEffect
<1>2. ASSUME NEW m \in Movements, VoidMovement(m) PROVE CashEffect
  <2>1. Counters(m)
    BY <1>2, OneVoided DEF Counters, VoidMovement
  <2> QED BY <2>1 DEF CashEffect
<1>3. CASE Charge
  <2>1. PICK s \in Sessions, total \in Amounts, cash \in Amounts \cup {0},
             other \in Amounts \cup {0} : ChargeSale(s, total, cash, other)
    BY <1>3 DEF Charge
  <2>2. PICK v \in NextId(Unused(sale)) :
          /\ sale' = [sale EXCEPT ![v] =
                        [status |-> "PAID", session |-> s, total |-> total,
                         cash |-> cash, other |-> other]]
          /\ IF cash = 0 THEN UNCHANGED movement
             ELSE \E m \in NextId(Unused(movement)) :
                    movement' = [movement EXCEPT ![m] =
                       Posting(s, "CASH_IN", cash, Reference("SALE", v))]
    BY <2>1 DEF ChargeSale, PersistPayments
  <2>3. v \in Sales /\ sale[v].status = "NONE"
    BY <2>2, NextIdUnused DEF TypeOK
  <2>4. /\ sale'[v].status = "PAID" /\ sale'[v].session = s /\ sale'[v].cash = cash
        /\ \A w \in Sales \ {v} : sale'[w] = sale[w]
    BY <2>2, <2>3 DEF TypeOK
  <2>5. cash \in Nat /\ IsOpen(s) /\ UNCHANGED <<session, transfer>>
    BY <2>1, MoneyAssumption DEF ChargeSale, PersistPayments
  <2>6. \E N \in SUBSET Fresh :
          /\ IF cash = 0 THEN N = {}
             ELSE \E m \in Fresh :
                    /\ N = {m}
                    /\ movement'[m] = Posting(s, "CASH_IN", cash, Reference("SALE", v))
          /\ \A k \in Movements \ N : movement'[k] = movement[k]
    <3>1. CASE cash = 0
      <4>1. {} \in SUBSET Fresh /\ UNCHANGED movement
        BY <2>2, <3>1
      <4>2. \A k \in Movements \ {} : movement'[k] = movement[k]
        BY <4>1
      <4> QED BY <3>1, <4>1, <4>2
    <3>2. CASE cash # 0
      <4>1. PICK m \in NextId(Unused(movement)) :
              movement' = [movement EXCEPT ![m] =
                 Posting(s, "CASH_IN", cash, Reference("SALE", v))]
        BY <2>2, <3>2
      <4>2. /\ m \in Fresh
            /\ movement'[m] = Posting(s, "CASH_IN", cash, Reference("SALE", v))
            /\ \A k \in Movements \ {m} : movement'[k] = movement[k]
        BY <4>1, OnePosted
      <4> QED BY <3>2, <4>2
    <3> QED BY <3>1, <3>2
  <2>7. Pays(v)
    BY <2>3, <2>4, <2>5, <2>6 DEF Pays
  <2> QED BY <2>3, <2>7 DEF CashEffect
<1>4. ASSUME NEW t \in Transfers, NEW u \in Users, CompleteToVault(t, u) PROVE CashEffect
  <2>1. GoesToVault(t)
    BY <1>4, VaultPosted DEF GoesToVault, CompleteToVault
  <2> QED BY <2>1 DEF CashEffect
<1>5. ASSUME NEW t \in Transfers, NEW u \in Users, CompleteToRegister(t, u)
      PROVE  CashEffect
  <2>1. /\ InProgress(t) /\ IsOpen(transfer[t].source) /\ Covered(t)
        /\ transfer[t].destination \in Registers
        /\ UNCHANGED <<session, sale>>
    BY <1>5 DEF CompleteToRegister
  <2>2. PICK d \in Sessions \ {transfer[t].source}, m, n \in Fresh :
          /\ m # n /\ IsOpen(d)
          /\ session[d].register = transfer[t].destination
          /\ movement'[m] = TransferPosting(t, transfer[t].source, "CASH_OUT")
          /\ movement'[n] = TransferPosting(t, d, "CASH_IN")
          /\ \A k \in Movements \ {m, n} : movement'[k] = movement[k]
          /\ transfer'[t] = CompletedRow(t, u, d, m, n)
          /\ \A r \in Transfers \ {t} : transfer'[r] = transfer[r]
    BY <1>5, RegisterPosted
  <2>3. GoesToRegister(t)
    BY <2>1, <2>2 DEF GoesToRegister
  <2> QED BY <2>3 DEF CashEffect
<1> QED BY <1>1, <1>2, <1>3, <1>4, <1>5, CashSteps DEF CashEffect

-----------------------------------------------------------------------------
(* Unused rows are empty.                                                  *)

\* A session row, once used, keeps its register and its opening balance.
LEMMA SessionsStay ==
    ASSUME TypeOK, SessionEffect, NEW s \in Sessions
    PROVE  /\ session'[s].status = "NONE" => session'[s] = session[s]
           /\ session[s].status # "NONE" =>
                /\ session'[s].status # "NONE"
                /\ session'[s].register = session[s].register
                /\ session'[s].opening = session[s].opening
<1>0. session[s] \in SessionRow(session[s].expected, session[s].counted)
  BY DEF TypeOK, SessionType
<1>1. CASE UNCHANGED session
  BY <1>1
<1>2. ASSUME NEW r \in Sessions, Opens(r)
      PROVE  /\ session'[s].status = "NONE" => session'[s] = session[s]
             /\ session[s].status # "NONE" => session'[s] = session[s]
  BY <1>2 DEF Opens
<1>3. ASSUME NEW r \in Sessions, Seals(r), r # s PROVE session'[s] = session[s]
  BY <1>3 DEF Seals, Sealed, TypeOK, SessionType
<1>4. ASSUME Seals(s)
      PROVE  /\ session'[s].status = "CLOSED"
             /\ session'[s].register = session[s].register
             /\ session'[s].opening = session[s].opening
  BY <1>0, <1>4 DEF Seals, Sealed, TypeOK, SessionType, SessionRow
<1> QED BY <1>1, <1>2, <1>3, <1>4 DEF SessionEffect, Staffs

\* A movement, once used, keeps all but its status.
LEMMA MovementsStay ==
    ASSUME TypeOK, MovementEffect, NEW m \in Movements, movement[m].status # "NONE"
    PROVE  /\ movement'[m].status # "NONE"
           /\ movement'[m].session = movement[m].session
           /\ movement'[m].type = movement[m].type
           /\ movement'[m].amount = movement[m].amount
           /\ movement'[m].ref = movement[m].ref
  BY DEF MovementEffect, Posts, Voids, TypeOK, MovementRow

\* What a forced close holds is a session that was read OPEN.
LEMMA ForcingStep ==
    ASSUME TypeOK, [Next]_vars, NEW u \in Approvers, forcing'[u] # forcing[u],
           forcing'[u] \in Sessions
    PROVE  session[forcing'[u]].status # "NONE"
<1>1. CASE SessionStep
  <2>1. PICK w \in Approvers, s \in Sessions : ForceCloseRead(w, s)
    <3>1. ASSUME NEW w \in Approvers, forcing' = [forcing EXCEPT ![w] = NULL] PROVE FALSE
      BY <3>1, NullIsNoRow DEF TypeOK
    <3> QED
      BY <1>1, <3>1 DEF SessionStep, UpdateRegister, OpenSession, CloseSession,
           ForceCloseSeal, ForceCloseReject, AssignOperator, ExitOperator, SealSession
  <2> QED BY <2>1 DEF ForceCloseRead, IsOpen, TypeOK
<1>2. UNCHANGED forcing \/ SessionStep
  <2>1. MovementStep => UNCHANGED forcing
    BY DEF MovementStep, ManualMovement, VoidMovement, ChargeSale, PersistPayments
  <2>2. TransferStep => UNCHANGED forcing
    BY DEF TransferStep, CreateTransfer, ApproveTransfer, CompleteToVault,
           CompleteToRegister, RejectTransfer, CancelTransfer
  <2>3. ClosingStep => UNCHANGED forcing
    BY DEF ClosingStep, StartClosing, RegisterCount, CompleteClosing, CloseWith,
           RejectClosing, StartCount, UpsertItems, CompleteCount, CancelCount
  <2> QED BY <2>1, <2>2, <2>3 DEF Next, vars
<1> QED BY <1>1, <1>2

\* Rows not in use stay empty.
LEMMA RowsStep ==
    ASSUME TypeOK, RowsInv, Effects, CashEffect, [Next]_vars
    PROVE  RowsInv'
<1>0. movement \in [Movements -> MovementRow] /\ transfer \in [Transfers -> TransferRow]
  BY DEF TypeOK
<1>1. \A s \in Sessions :
        /\ session'[s].status = "NONE" => session'[s] = NoSession
        /\ session[s].status # "NONE" => session'[s].status # "NONE"
  BY SessionsStay DEF Effects, RowsInv
<1>2. ASSUME NEW m \in Movements, movement[m].status = "NONE" => movement'[m] = movement[m]
      PROVE  IF movement'[m].status = "NONE" THEN movement'[m] = NoMovement
             ELSE /\ movement'[m].session \in Sessions
                  /\ session'[movement'[m].session].status # "NONE"
  <2>1. CASE movement[m].status = "NONE"
    BY <1>2, <2>1 DEF RowsInv
  <2>2. CASE movement[m].status # "NONE"
    BY <1>1, <2>2, MovementsStay DEF RowsInv, Effects
  <2> QED BY <2>1, <2>2
<1>3. ASSUME NEW m \in Movements, NEW s \in Sessions, NEW type, NEW a, NEW ref, IsOpen(s),
             movement'[m] = Posting(s, type, a, ref)
      PROVE  IF movement'[m].status = "NONE" THEN movement'[m] = NoMovement
             ELSE /\ movement'[m].session \in Sessions
                  /\ session'[movement'[m].session].status # "NONE"
  BY <1>1, <1>3, PostingRow DEF IsOpen
<1>4. ASSUME NEW t \in Transfers, transfer'[t] = transfer[t]
      PROVE  IF transfer'[t].status = "NONE" THEN transfer'[t] = NoTransfer
             ELSE /\ transfer'[t].source \in Sessions
                  /\ transfer'[t].amount > 0
                  /\ transfer'[t].destination \in Registers \cup {Vault}
  BY <1>4 DEF RowsInv
<1>5. ASSUME NEW t \in Transfers, InProgress(t), NEW u, NEW d, NEW m, NEW n,
             transfer'[t] = CompletedRow(t, u, d, m, n)
      PROVE  IF transfer'[t].status = "NONE" THEN transfer'[t] = NoTransfer
             ELSE /\ transfer'[t].source \in Sessions
                  /\ transfer'[t].amount > 0
                  /\ transfer'[t].destination \in Registers \cup {Vault}
  BY <1>0, <1>5 DEF RowsInv, CompletedRow, InProgress, OpenTransfer, TransferRow
<1>6. ASSUME NEW t \in Transfers, InProgress(t)
      PROVE  transfer[t].source \in Sessions
  BY <1>6 DEF RowsInv, InProgress, OpenTransfer
<1>7. ASSUME \A m \in Movements :
               IF movement'[m].status = "NONE" THEN movement'[m] = NoMovement
               ELSE /\ movement'[m].session \in Sessions
                    /\ session'[movement'[m].session].status # "NONE",
             \A v \in Sales : sale'[v].status = "NONE" => sale'[v] = sale[v],
             \A t \in Transfers :
               IF transfer'[t].status = "NONE" THEN transfer'[t] = NoTransfer
               ELSE /\ transfer'[t].source \in Sessions
                    /\ transfer'[t].amount > 0
                    /\ transfer'[t].destination \in Registers \cup {Vault}
      PROVE  RowsInv'
  <2>1. \A u \in Approvers :
          forcing'[u] \in Sessions => session'[forcing'[u]].status # "NONE"
    BY <1>1, ForcingStep DEF RowsInv
  <2> QED BY <1>1, <1>7, <2>1 DEF RowsInv
<1>8. CASE Quiet
  <2>1. ASSUME NEW t \in Transfers
        PROVE  IF transfer'[t].status = "NONE" THEN transfer'[t] = NoTransfer
               ELSE /\ transfer'[t].source \in Sessions
                    /\ transfer'[t].amount > 0
                    /\ transfer'[t].destination \in Registers \cup {Vault}
    <3>1. CASE Asks(t)
      BY <3>1 DEF Asks
    <3>2. CASE Turns(t)
      BY <3>2 DEF Turns, RowsInv, InProgress, OpenTransfer, DeadTransfer
    <3> QED BY <1>4, <1>8, <3>1, <3>2 DEF Quiet
  <2> QED BY <1>2, <1>7, <1>8, <2>1 DEF Quiet
<1>9. CASE PostsManual
  BY <1>2, <1>3, <1>4, <1>7, <1>9 DEF PostsManual, Fresh
<1>10. ASSUME NEW m \in Movements, Counters(m) PROVE RowsInv'
  <2>1. movement[m].session \in Sessions /\ movement[m].status # "NONE"
    BY <1>10 DEF RowsInv, Counters
  <2> QED BY <1>2, <1>3, <1>4, <1>7, <1>10, <2>1 DEF Counters, Fresh
<1>11. ASSUME NEW v \in Sales, Pays(v) PROVE RowsInv'
  BY <1>2, <1>3, <1>4, <1>7, <1>11 DEF Pays, Fresh
<1>12. ASSUME NEW t \in Transfers, GoesToVault(t) PROVE RowsInv'
  BY <1>2, <1>3, <1>4, <1>5, <1>6, <1>7, <1>12 DEF GoesToVault, Fresh, TransferPosting
<1>13. ASSUME NEW t \in Transfers, GoesToRegister(t) PROVE RowsInv'
  BY <1>2, <1>3, <1>4, <1>5, <1>6, <1>7, <1>13 DEF GoesToRegister, Fresh, TransferPosting
<1> QED BY <1>8, <1>9, <1>10, <1>11, <1>12, <1>13 DEF CashEffect

LEMMA RowsHold == Spec => [](TypeOK /\ RowsInv)
<1>1. Init => RowsInv
  BY NullIsNoRow DEF Init, RowsInv, NoSession, NoMovement, NoSale, NoTransfer
<1>2. TypeOK /\ RowsInv /\ [Next]_vars => RowsInv'
  BY StepEffects, CashEffects, RowsStep
<1> QED BY <1>1, <1>2, TypeCorrect, PTL DEF Spec

-----------------------------------------------------------------------------
(* What the rows of a transfer, a sale and a void are.                     *)

\* Only the step a reference is about writes rows with it.
LEMMA ReferenceStep ==
    ASSUME TypeOK, RowsInv, CashEffect, NEW ref, ref.kind # "MANUAL"
    PROVE  \/ With(ref)' = With(ref)
           \/ \E m \in Movements : Counters(m) /\ ref = Reference("CASH_MOVEMENT", m)
           \/ \E v \in Sales : Pays(v) /\ ref = Reference("SALE", v)
           \/ \E t \in Transfers : /\ GoesToVault(t) \/ GoesToRegister(t)
                                   /\ ref = Reference("CASH_TRANSFER", t)
<1>0. movement \in [Movements -> MovementRow]
  BY DEF TypeOK
<1>1. ASSUME NEW N \in SUBSET Fresh, \A m \in N : movement'[m].ref # ref,
             \A k \in Movements \ N : movement'[k].ref = movement[k].ref
      PROVE  With(ref)' = With(ref)
  <2>1. {m \in N : movement'[m].ref = ref} = {}
    BY <1>1
  <2>2. With(ref)' = With(ref) \cup {m \in N : movement'[m].ref = ref}
    BY <1>1, NewRows
  <2> QED BY <2>1, <2>2
<1>2. CASE Quiet
  BY <1>2 DEF Quiet, With
<1>3. CASE PostsManual
  <2>1. PICK m \in Fresh : /\ movement'[m].ref = Reference("MANUAL", 0)
                           /\ \A k \in Movements \ {m} : movement'[k] = movement[k]
    BY <1>3, PostingRow DEF PostsManual
  <2>2. movement'[m].ref # ref
    BY <2>1, ReferenceKinds
  <2>3. {m} \in SUBSET Fresh
    OBVIOUS
  <2> QED BY <1>1, <2>1, <2>2, <2>3
<1>4. ASSUME NEW m \in Movements, Counters(m), ref # Reference("CASH_MOVEMENT", m)
      PROVE  With(ref)' = With(ref)
  <2>1. PICK n \in Fresh \ {m} :
          /\ movement'[n].ref = Reference("CASH_MOVEMENT", m)
          /\ movement'[m] = [movement[m] EXCEPT !.status = "VOIDED"]
          /\ \A k \in Movements \ {m, n} : movement'[k] = movement[k]
    BY <1>4, PostingRow DEF Counters
  <2>2. movement'[m].ref = movement[m].ref
    BY <1>0, <2>1 DEF MovementRow
  <2>3. \A k \in Movements \ {n} : movement'[k].ref = movement[k].ref
    BY <2>1, <2>2
  <2>4. {n} \in SUBSET Fresh
    BY <2>1
  <2> QED BY <1>1, <1>4, <2>1, <2>3, <2>4
<1>5. ASSUME NEW v \in Sales, Pays(v), ref # Reference("SALE", v)
      PROVE  With(ref)' = With(ref)
  <2>1. PICK N \in SUBSET Fresh : /\ \A m \in N : movement'[m].ref = Reference("SALE", v)
                                  /\ \A k \in Movements \ N : movement'[k] = movement[k]
    BY <1>5, PostingRow DEF Pays
  <2> QED BY <1>1, <1>5, <2>1
<1>6. ASSUME NEW t \in Transfers, GoesToVault(t), ref # Reference("CASH_TRANSFER", t)
      PROVE  With(ref)' = With(ref)
  <2>1. PICK m \in Fresh : /\ movement'[m].ref = Reference("CASH_TRANSFER", t)
                           /\ \A k \in Movements \ {m} : movement'[k] = movement[k]
    BY <1>6, PostingRow DEF GoesToVault, TransferPosting
  <2>2. {m} \in SUBSET Fresh
    OBVIOUS
  <2> QED BY <1>1, <1>6, <2>1, <2>2
<1>7. ASSUME NEW t \in Transfers, GoesToRegister(t), ref # Reference("CASH_TRANSFER", t)
      PROVE  With(ref)' = With(ref)
  <2>1. PICK m, n \in Fresh :
          /\ movement'[m].ref = Reference("CASH_TRANSFER", t)
          /\ movement'[n].ref = Reference("CASH_TRANSFER", t)
          /\ \A k \in Movements \ {m, n} : movement'[k] = movement[k]
    BY <1>7, PostingRow DEF GoesToRegister, TransferPosting
  <2>2. {m, n} \in SUBSET Fresh
    OBVIOUS
  <2> QED BY <1>1, <1>7, <2>1, <2>2
<1> QED BY <1>2, <1>3, <1>4, <1>5, <1>6, <1>7 DEF CashEffect

\* TransferMovesCashOnce with the rows its columns point to.
TransferInv ==
    \A t \in Transfers :
        LET row == transfer[t] IN
        IF row.status # "COMPLETED" THEN TransferMovements(t) = {}
        ELSE /\ row.sourceMovement \in Movements
             /\ TransferMovements(t) = {row.sourceMovement, row.destMovement} \ {NULL}
             /\ LET out == movement[row.sourceMovement] IN
                  out.session = row.source /\ out.type = "CASH_OUT"
                    /\ out.amount = row.amount
             /\ IF row.destination = Vault THEN row.destMovement = NULL
                ELSE LET in == movement[row.destMovement] IN
                       /\ row.destMovement \in Movements
                       /\ row.destSession \in Sessions
                       /\ in.session = row.destSession /\ in.type = "CASH_IN"
                       /\ in.amount = row.amount
                       /\ row.destSession # row.source
                       /\ session[row.destSession].register = row.destination

\* A transfer gets its two movements when it is completed, and never again.
LEMMA TransferInvStep ==
    ASSUME TypeOK, RowsInv, Effects, CashEffect, TransferInv
    PROVE  TransferInv'
<1>0. movement \in [Movements -> MovementRow] /\ transfer \in [Transfers -> TransferRow]
  BY DEF TypeOK
<1> SUFFICES ASSUME NEW t \in Transfers
             PROVE  LET row == transfer'[t] IN
        IF row.status # "COMPLETED" THEN TransferMovements(t)' = {}
        ELSE /\ row.sourceMovement \in Movements
             /\ TransferMovements(t)' = {row.sourceMovement, row.destMovement} \ {NULL}
             /\ LET out == movement'[row.sourceMovement] IN
                  out.session = row.source /\ out.type = "CASH_OUT"
                    /\ out.amount = row.amount
             /\ IF row.destination = Vault THEN row.destMovement = NULL
                ELSE LET in == movement'[row.destMovement] IN
                       /\ row.destMovement \in Movements
                       /\ row.destSession \in Sessions
                       /\ in.session = row.destSession /\ in.type = "CASH_IN"
                       /\ in.amount = row.amount
                       /\ row.destSession # row.source
                       /\ session'[row.destSession].register = row.destination
  BY DEF TransferInv
<1> DEFINE ref == Reference("CASH_TRANSFER", t)
<1>1. ref.kind = "CASH_TRANSFER" /\ TransferMovements(t) = With(ref)
        /\ TransferMovements(t)' = With(ref)'
  BY ReferenceKinds DEF TransferMovements, With
<1>2. ASSUME NEW m, m \in TransferMovements(t)
      PROVE  /\ m \in Movements /\ movement[m].status # "NONE"
             /\ movement[m].session \in Sessions
             /\ session[movement[m].session].status # "NONE"
  <2>1. movement[m].ref.kind = "CASH_TRANSFER" /\ m \in Movements
    BY <1>1, <1>2 DEF TransferMovements
  <2>2. NoMovement.ref.kind = "MANUAL"
    BY ReferenceKinds DEF NoMovement
  <2> QED BY <2>1, <2>2 DEF RowsInv
<1>3. ASSUME ~GoesToVault(t), ~GoesToRegister(t)
      PROVE  /\ TransferMovements(t)' = TransferMovements(t)
             /\ \/ transfer'[t] = transfer[t]
                \/ transfer[t].status # "COMPLETED" /\ transfer'[t].status # "COMPLETED"
  <2>1. TransferMovements(t)' = TransferMovements(t)
    BY <1>1, <1>3, ReferenceStep, ReferenceKinds
  <2>2. \/ transfer'[t] = transfer[t]
        \/ transfer[t].status # "COMPLETED" /\ transfer'[t].status # "COMPLETED"
    <3>1. CASE Quiet
      BY <3>1 DEF Quiet, Asks, Turns, InProgress, OpenTransfer, DeadTransfer
    <3>2. CASE UNCHANGED transfer
      BY <3>2
    <3>3. ASSUME NEW r \in Transfers \ {t}, GoesToVault(r) \/ GoesToRegister(r)
          PROVE  transfer'[t] = transfer[t]
      BY <3>3 DEF GoesToVault, GoesToRegister
    <3>4. PostsManual \/ (\E m \in Movements : Counters(m)) \/ (\E v \in Sales : Pays(v))
            => UNCHANGED transfer
      BY DEF PostsManual, Counters, Pays
    <3> QED BY <1>3, <3>1, <3>2, <3>3, <3>4 DEF CashEffect
  <2> QED BY <2>1, <2>2
<1>4. CASE ~GoesToVault(t) /\ ~GoesToRegister(t) /\ transfer'[t].status # "COMPLETED"
  BY <1>3, <1>4 DEF TransferInv
<1>5. CASE ~GoesToVault(t) /\ ~GoesToRegister(t) /\ transfer'[t].status = "COMPLETED"
  <2> DEFINE row == transfer[t]
  <2>1. transfer'[t] = row /\ TransferMovements(t)' = TransferMovements(t)
    BY <1>3, <1>5
  <2>2. /\ row.sourceMovement \in Movements
        /\ row.sourceMovement \in TransferMovements(t)
        /\ row.destination # Vault => row.destMovement \in TransferMovements(t)
    BY <1>5, <2>1, NullIsNoRow DEF TransferInv
  <2>3. \A m \in TransferMovements(t) :
          /\ movement'[m].session = movement[m].session
          /\ movement'[m].type = movement[m].type
          /\ movement'[m].amount = movement[m].amount
          /\ session'[movement[m].session].register
               = session[movement[m].session].register
    BY <1>2, MovementsStay, SessionsStay DEF Effects
  <2> QED BY <1>5, <2>1, <2>2, <2>3 DEF TransferInv
<1>6. CASE GoesToVault(t)
  <2>1. PICK u \in Users, m \in Fresh :
          /\ InProgress(t)
          /\ transfer[t].destination = Vault
          /\ movement'[m] = TransferPosting(t, transfer[t].source, "CASH_OUT")
          /\ \A k \in Movements \ {m} : movement'[k] = movement[k]
          /\ transfer'[t] = CompletedRow(t, u, NULL, m, NULL)
    BY <1>6 DEF GoesToVault
  <2>2. /\ movement'[m].session = transfer[t].source /\ movement'[m].type = "CASH_OUT"
        /\ movement'[m].amount = transfer[t].amount /\ movement'[m].ref = ref
    BY <2>1, PostingRow DEF TransferPosting
  <2>3. TransferMovements(t) = {}
    BY <2>1 DEF TransferInv, InProgress, OpenTransfer
  <2>4. TransferMovements(t)' = {m}
    <3>1. {m} \in SUBSET Fresh /\ \A k \in Movements \ {m} : movement'[k].ref = movement[k].ref
      BY <2>1
    <3>2. With(ref)' = With(ref) \cup {k \in {m} : movement'[k].ref = ref}
      BY <1>1, <3>1, NewRows
    <3> QED BY <1>1, <2>2, <2>3, <3>2
  <2>5. /\ transfer'[t].status = "COMPLETED" /\ transfer'[t].sourceMovement = m
        /\ transfer'[t].destMovement = NULL /\ transfer'[t].source = transfer[t].source
        /\ transfer'[t].amount = transfer[t].amount /\ transfer'[t].destination = Vault
    BY <1>0, <2>1 DEF CompletedRow, TransferRow
  <2>6. m \in Movements /\ {m, NULL} \ {NULL} = {m}
    BY <2>1, NullIsNoRow DEF Fresh
  <2> QED BY <2>2, <2>4, <2>5, <2>6
<1>7. CASE GoesToRegister(t)
  <2>1. PICK u \in Users, d \in Sessions \ {transfer[t].source}, m, n \in Fresh :
          /\ InProgress(t)
          /\ transfer[t].destination \in Registers
          /\ session[d].register = transfer[t].destination
          /\ m # n
          /\ movement'[m] = TransferPosting(t, transfer[t].source, "CASH_OUT")
          /\ movement'[n] = TransferPosting(t, d, "CASH_IN")
          /\ \A k \in Movements \ {m, n} : movement'[k] = movement[k]
          /\ transfer'[t] = CompletedRow(t, u, d, m, n)
          /\ UNCHANGED session
    BY <1>7 DEF GoesToRegister
  <2>2. /\ movement'[m].session = transfer[t].source /\ movement'[m].type = "CASH_OUT"
        /\ movement'[m].amount = transfer[t].amount /\ movement'[m].ref = ref
        /\ movement'[n].session = d /\ movement'[n].type = "CASH_IN"
        /\ movement'[n].amount = transfer[t].amount /\ movement'[n].ref = ref
    BY <2>1, PostingRow DEF TransferPosting
  <2>3. TransferMovements(t) = {}
    BY <2>1 DEF TransferInv, InProgress, OpenTransfer
  <2>4. TransferMovements(t)' = {m, n}
    <3>1. {m, n} \in SUBSET Fresh /\ \A k \in Movements \ {m, n} : movement'[k].ref = movement[k].ref
      BY <2>1
    <3>2. With(ref)' = With(ref) \cup {k \in {m, n} : movement'[k].ref = ref}
      BY <1>1, <3>1, NewRows
    <3> QED BY <1>1, <2>2, <2>3, <3>2
  <2>5. /\ transfer'[t].status = "COMPLETED" /\ transfer'[t].sourceMovement = m
        /\ transfer'[t].destMovement = n /\ transfer'[t].source = transfer[t].source
        /\ transfer'[t].amount = transfer[t].amount /\ transfer'[t].destSession = d
        /\ transfer'[t].destination = transfer[t].destination
    BY <1>0, <2>1 DEF CompletedRow, TransferRow
  <2>6. m \in Movements /\ n \in Movements /\ {m, n} \ {NULL} = {m, n}
    BY <2>1, NullIsNoRow DEF Fresh
  <2>7. transfer[t].destination # Vault
    BY <2>1, NullAssumption
  <2> QED BY <2>1, <2>2, <2>4, <2>5, <2>6, <2>7
<1> QED BY <1>4, <1>5, <1>6, <1>7

\* The movements of every transfer are as its row says.
LEMMA TransferInvHolds == Spec => []TransferInv
<1>1. Init => TransferInv
  BY ReferenceKinds DEF Init, TransferInv, NoTransfer, TransferMovements, NoMovement
<1>2. TypeOK /\ RowsInv /\ TransferInv /\ [Next]_vars => TransferInv'
  BY StepEffects, CashEffects, TransferInvStep
<1> QED BY <1>1, <1>2, RowsHold, PTL DEF Spec

\* A COMPLETED transfer took its amount out of its source and put it, once, in
\* a session of its destination; no other transfer moved cash.
THEOREM TransfersMoveCashOnce == Spec => []TransferMovesCashOnce
<1>1. TransferInv => TransferMovesCashOnce
  BY DEF TransferInv, TransferMovesCashOnce
<1> QED BY <1>1, TransferInvHolds, PTL

\* A charge writes its entry in the step that writes the sale.
LEMMA SaleCashStep ==
    ASSUME TypeOK, RowsInv, Effects, CashEffect, SaleCashEntersOnce
    PROVE  SaleCashEntersOnce'
<1> SUFFICES ASSUME NEW v \in Sales
             PROVE  LET entries == With(Reference("SALE", v))'
                    IN IF sale'[v].cash = 0 THEN entries = {}
                       ELSE \E m \in entries :
                              /\ entries = {m}
                              /\ movement'[m].session = sale'[v].session
                              /\ movement'[m].type = "CASH_IN"
                              /\ movement'[m].amount = sale'[v].cash
  BY DEF SaleCashEntersOnce, With
<1> DEFINE ref == Reference("SALE", v)
<1>0. ref.kind = "SALE"
  BY ReferenceKinds
<1>1. IF sale[v].cash = 0 THEN With(ref) = {}
      ELSE \E m \in With(ref) :
             /\ With(ref) = {m}
             /\ movement[m].session = sale[v].session
             /\ movement[m].type = "CASH_IN"
             /\ movement[m].amount = sale[v].cash
  BY DEF SaleCashEntersOnce, With
<1>2. CASE ~Pays(v)
  <2>1. With(ref)' = With(ref)
    BY <1>0, <1>2, ReferenceStep, ReferenceKinds
  <2>2. sale'[v] = sale[v]
    <3>1. ASSUME NEW w \in Sales \ {v}, Pays(w) PROVE sale'[v] = sale[v]
      BY <3>1 DEF Pays
    <3> QED
      BY <1>2, <3>1 DEF CashEffect, Quiet, PostsManual, Counters, GoesToVault, GoesToRegister
  <2>3. \A m \in With(ref) : m \in Movements /\ movement[m].status # "NONE"
    BY <1>0, ReferenceKinds DEF With, RowsInv, NoMovement
  <2>4. \A m \in With(ref) :
          /\ movement'[m].session = movement[m].session
          /\ movement'[m].type = movement[m].type
          /\ movement'[m].amount = movement[m].amount
    BY <2>3, MovementsStay DEF Effects
  <2> HIDE DEF ref
  <2>5. CASE sale[v].cash = 0
    BY <1>1, <2>1, <2>2, <2>5 DEF ref
  <2>6. CASE sale[v].cash # 0
    BY <1>1, <2>1, <2>2, <2>4, <2>6 DEF ref
  <2> QED BY <2>5, <2>6
<1>3. CASE Pays(v)
  <2>1. PICK s \in Sessions, cash \in Nat, N \in SUBSET Fresh :
          /\ sale[v].status = "NONE"
          /\ sale'[v].session = s /\ sale'[v].cash = cash
          /\ IF cash = 0 THEN N = {}
             ELSE \E m \in Fresh :
                    /\ N = {m}
                    /\ movement'[m] = Posting(s, "CASH_IN", cash, ref)
          /\ \A k \in Movements \ N : movement'[k] = movement[k]
    BY <1>3 DEF Pays
  <2>2. With(ref) = {}
    BY <1>1, <2>1 DEF RowsInv, NoSale
  <2>3. With(ref)' = {m \in N : movement'[m].ref = ref}
    <3>1. With(ref)' = With(ref) \cup {m \in N : movement'[m].ref = ref}
      BY <1>0, <2>1, NewRows
    <3> QED BY <2>2, <3>1
  <2> HIDE DEF ref
  <2>4. CASE cash = 0
    BY <2>1, <2>3, <2>4 DEF ref
  <2>5. CASE cash # 0
    <3>1. PICK m \in Fresh : N = {m} /\ movement'[m] = Posting(s, "CASH_IN", cash, ref)
      BY <2>1, <2>5
    <3>2. /\ movement'[m].session = s /\ movement'[m].type = "CASH_IN"
          /\ movement'[m].amount = cash /\ movement'[m].ref = ref
      BY <3>1, PostingRow
    <3>3. With(ref)' = {m}
      BY <2>3, <3>1, <3>2
    <3> QED BY <2>1, <2>5, <3>2, <3>3 DEF ref
  <2> QED BY <2>4, <2>5
<1> QED BY <1>2, <1>3

\* What a sale was paid in cash entered the drawer it was charged at, once.
THEOREM SaleCashEnters == Spec => []SaleCashEntersOnce
<1>1. Init => SaleCashEntersOnce
  BY ReferenceKinds DEF Init, SaleCashEntersOnce, NoSale, NoMovement
<1>2. TypeOK /\ RowsInv /\ SaleCashEntersOnce /\ [Next]_vars => SaleCashEntersOnce'
  BY StepEffects, CashEffects, SaleCashStep
<1> QED BY <1>1, <1>2, RowsHold, PTL DEF Spec

\* VoidsAreCountered, over the rows that refer to the void.
VoidInv ==
    \A m \in Movements :
        LET counters == With(Reference("CASH_MOVEMENT", m))
        IN IF movement[m].status # "VOIDED" THEN counters = {}
           ELSE \E n \in counters :
                  /\ counters = {n}
                  /\ movement[n].session = movement[m].session
                  /\ movement[n].amount = movement[m].amount
                  /\ movement[n].type = Opposite(movement[m].type)

\* The counter-movements of a movement are those that refer to it.
LEMMA VoidRows ==
    ASSUME RowsInv, NEW m \in Movements
    PROVE  With(Reference("CASH_MOVEMENT", m))
             = {n \in Movements : /\ movement[n].status # "NONE"
                                  /\ movement[n].ref = Reference("CASH_MOVEMENT", m)}
  BY ReferenceKinds DEF With, RowsInv, NoMovement

\* A movement is voided together with the step that counters it.
LEMMA VoidInvStep ==
    ASSUME TypeOK, RowsInv, Effects, CashEffect, VoidInv
    PROVE  VoidInv'
<1> SUFFICES ASSUME NEW m \in Movements
             PROVE  LET counters == With(Reference("CASH_MOVEMENT", m))'
                    IN IF movement'[m].status # "VOIDED" THEN counters = {}
                       ELSE \E n \in counters :
                              /\ counters = {n}
                              /\ movement'[n].session = movement'[m].session
                              /\ movement'[n].amount = movement'[m].amount
                              /\ movement'[n].type = Opposite(movement'[m].type)
  BY DEF VoidInv, Opposite
<1> DEFINE ref == Reference("CASH_MOVEMENT", m)
<1>0. ref.kind = "CASH_MOVEMENT"
  BY ReferenceKinds
<1>1. IF movement[m].status # "VOIDED" THEN With(ref) = {}
      ELSE \E n \in With(ref) :
             /\ With(ref) = {n}
             /\ movement[n].session = movement[m].session
             /\ movement[n].amount = movement[m].amount
             /\ movement[n].type = Opposite(movement[m].type)
  BY DEF VoidInv
<1>2. CASE ~Counters(m)
  <2>1. With(ref)' = With(ref)
    BY <1>0, <1>2, ReferenceStep, ReferenceKinds
  <2>2. \A n \in With(ref) : n \in Movements /\ movement[n].status # "NONE"
    BY <1>0, ReferenceKinds DEF With, RowsInv, NoMovement
  <2>3. \A n \in With(ref) :
          /\ movement'[n].session = movement[n].session
          /\ movement'[n].type = movement[n].type
          /\ movement'[n].amount = movement[n].amount
    BY <2>2, MovementsStay DEF Effects
  <2>4. \/ movement'[m] = movement[m]
        \/ movement[m].status # "VOIDED" /\ movement'[m].status # "VOIDED"
    <3>1. CASE Posts(m)
      BY <3>1 DEF Posts
    <3>2. CASE movement[m].status = "POSTED" /\ movement'[m] # movement[m]
      <4>1. m \notin Fresh
        BY <3>2 DEF Fresh
      <4>2. ASSUME NEW k \in Movements \ {m}, Counters(k) PROVE movement'[m] = movement[m]
        BY <4>1, <4>2 DEF Counters
      <4>3. ASSUME NEW v \in Sales, Pays(v) PROVE movement'[m] = movement[m]
        BY <4>1, <4>3 DEF Pays
      <4>4. ASSUME NEW t \in Transfers, GoesToVault(t) \/ GoesToRegister(t)
            PROVE  movement'[m] = movement[m]
        BY <4>1, <4>4 DEF GoesToVault, GoesToRegister
      <4>5. Quiet \/ PostsManual => movement'[m] = movement[m]
        BY <4>1 DEF Quiet, PostsManual
      <4> QED BY <1>2, <3>2, <4>2, <4>3, <4>4, <4>5 DEF CashEffect
    <3> QED BY <3>1, <3>2 DEF Effects, MovementEffect, Voids
  <2> HIDE DEF ref
  <2>5. CASE movement'[m] = movement[m]
    BY <1>1, <2>1, <2>3, <2>5 DEF ref
  <2>6. CASE movement[m].status # "VOIDED" /\ movement'[m].status # "VOIDED"
    BY <1>1, <2>1, <2>6 DEF ref
  <2> QED BY <2>4, <2>5, <2>6
<1>3. CASE Counters(m)
  <2>1. PICK n \in Fresh \ {m} :
          /\ movement[m].status = "POSTED"
          /\ movement'[n] = Posting(movement[m].session, Opposite(movement[m].type),
                                    movement[m].amount, ref)
          /\ movement'[m] = [movement[m] EXCEPT !.status = "VOIDED"]
          /\ \A k \in Movements \ {m, n} : movement'[k] = movement[k]
    BY <1>3 DEF Counters
  <2>2. /\ movement'[n].session = movement[m].session
        /\ movement'[n].type = Opposite(movement[m].type)
        /\ movement'[n].amount = movement[m].amount /\ movement'[n].ref = ref
    BY <2>1, PostingRow
  <2>3. /\ movement'[m].status = "VOIDED"
        /\ movement'[m].session = movement[m].session
        /\ movement'[m].type = movement[m].type
        /\ movement'[m].amount = movement[m].amount
        /\ movement'[m].ref = movement[m].ref
    BY <2>1 DEF TypeOK, MovementRow
  <2>4. With(ref) = {}
    BY <1>1, <2>1
  <2>5. {n} \in SUBSET Fresh /\ \A k \in Movements \ {n} : movement'[k].ref = movement[k].ref
    BY <2>1, <2>3
  <2>6. With(ref)' = With(ref) \cup {k \in {n} : movement'[k].ref = ref}
    <3> HIDE DEF ref
    <3> QED BY <1>0, <2>5, NewRows
  <2>7. With(ref)' = {n}
    BY <2>2, <2>4, <2>6
  <2> HIDE DEF ref
  <2> QED BY <2>2, <2>3, <2>7 DEF ref
<1> QED BY <1>2, <1>3

\* A voided movement has one counter-movement and no other movement has any.
THEOREM VoidsCountered == Spec => []VoidsAreCountered
<1>1. Init => VoidInv
  BY ReferenceKinds DEF Init, VoidInv, With, NoMovement
<1>2. TypeOK /\ RowsInv /\ VoidInv /\ [Next]_vars => VoidInv'
  BY StepEffects, CashEffects, VoidInvStep
<1>3. RowsInv /\ VoidInv => VoidsAreCountered
  BY VoidRows DEF VoidInv, VoidsAreCountered
<1> QED BY <1>1, <1>2, <1>3, RowsHold, PTL DEF Spec

-----------------------------------------------------------------------------
(* The refinement of CashLedger.                                           *)

\* The net cash of a session is a sum of integers over a finite set of rows.
CashIsSum ==
    \A s \in Sessions :
        /\ IsFiniteSet(PostedOf(s))
        /\ NetCash(s) = SumFunctionOnSet([m \in Movements |-> Signed(movement[m])],
                                         PostedOf(s))
        /\ \A m \in Movements : Signed(movement[m]) \in Int
        /\ NetCash(s) \in Int /\ ExpectedCash(s) \in Int

\* The balance of a session is the sum of its signed movements.
LEMMA NetIsSum == TypeOK => CashIsSum
<1> SUFFICES ASSUME TypeOK, NEW s \in Sessions
             PROVE  /\ IsFiniteSet(PostedOf(s))
                    /\ NetCash(s) = SumFunctionOnSet(
                         [m \in Movements |-> Signed(movement[m])], PostedOf(s))
                    /\ \A m \in Movements : Signed(movement[m]) \in Int
                    /\ NetCash(s) \in Int /\ ExpectedCash(s) \in Int
  BY DEF CashIsSum
<1> DEFINE all == [m \in Movements |-> Signed(movement[m])]
           own == [m \in PostedOf(s) |-> Signed(movement[m])]
<1>1. MaxMovements \in Nat
  BY BoundAssumption
<1>2. IsFiniteSet(Movements) /\ PostedOf(s) \subseteq Movements
  BY <1>1, FS_Interval DEF Movements, PostedOf
<1>3. IsFiniteSet(PostedOf(s))
  BY <1>2, FS_Subset
<1>4. \A m \in Movements : Signed(movement[m]) \in Int
  BY DEF TypeOK, MovementRow, Signed
<1>5. DOMAIN own = PostedOf(s) /\ \A m \in PostedOf(s) : own[m] = all[m] /\ all[m] \in Int
  BY <1>2, <1>4
<1>6. NetCash(s) = SumFunctionOnSet(own, PostedOf(s))
  BY <1>5, SumWhole DEF NetCash
<1> HIDE DEF own, all
<1>7. SumFunctionOnSet(own, PostedOf(s)) = SumFunctionOnSet(all, PostedOf(s))
  BY <1>3, <1>5, SumSame
<1>8. NetCash(s) \in Int
  BY <1>3, <1>5, <1>6, <1>7, SumInt
<1>9. session[s].opening \in Int
  BY DEF TypeOK, SessionType, SessionRow
<1> QED BY <1>3, <1>4, <1>6, <1>7, <1>8, <1>9 DEF all, ExpectedCash

\* A row posted to a session adds to its expected cash.
LEMMA CashPosted ==
    ASSUME TypeOK, TypeOK', NEW s \in Sessions, NEW m \in Fresh,
           UNCHANGED session,
           movement'[m].status = "POSTED", movement'[m].session = s,
           \A k \in PostedOf(s) : movement'[k] = movement[k],
           \A k \in Movements \ {m} : movement'[k] = movement[k] \/ movement'[k].session # s
    PROVE  ExpectedCash(s)' = ExpectedCash(s) + Signed(movement'[m])
<1> DEFINE old == [k \in Movements |-> Signed(movement[k])]
           new == [k \in Movements |-> Signed(movement'[k])]
<1>1. /\ IsFiniteSet(PostedOf(s)) /\ NetCash(s) = SumFunctionOnSet(old, PostedOf(s))
      /\ \A k \in Movements : Signed(movement[k]) \in Int
      /\ NetCash(s) \in Int
  BY NetIsSum DEF CashIsSum
<1>2. /\ NetCash(s)' = SumFunctionOnSet(new, PostedOf(s)')
      /\ \A k \in Movements : Signed(movement'[k]) \in Int
  <2>1. CashIsSum'
    BY NetIsSum, PTL
  <2>2. /\ NetCash(s)' = SumFunctionOnSet([k \in Movements |-> Signed(movement[k])],
                                          PostedOf(s))'
        /\ \A k \in Movements : Signed(movement[k])' \in Int
    BY <2>1 DEF CashIsSum
  <2>3. \A k : Signed(movement[k])' = Signed(movement'[k])
    BY DEF Signed
  <2> QED BY <2>2, <2>3
<1>3. m \notin PostedOf(s) /\ m \in Movements /\ PostedOf(s) \subseteq Movements
  BY DEF Fresh, PostedOf
<1>4. PostedOf(s)' = PostedOf(s) \cup {m}
  BY <1>3 DEF PostedOf
<1>5. /\ \A k \in PostedOf(s) : new[k] = old[k]
      /\ \A k \in PostedOf(s) \cup {m} : new[k] \in Int
      /\ new[m] = Signed(movement'[m])
  BY <1>2, <1>3
<1> DEFINE rest == SumFunctionOnSet(old, PostedOf(s))
<1> HIDE DEF old, new
<1>6. SumFunctionOnSet(new, PostedOf(s) \cup {m}) = new[m] + SumFunctionOnSet(new, PostedOf(s))
  BY <1>1, <1>3, <1>5, SumAdd
<1>7. SumFunctionOnSet(new, PostedOf(s)) = rest
  BY <1>1, <1>5, SumSame
<1> HIDE DEF rest
<1>8. NetCash(s)' = Signed(movement'[m]) + rest
  BY <1>2, <1>4, <1>5, <1>6, <1>7
<1>9. NetCash(s) = rest /\ rest \in Int
  BY <1>1 DEF rest
<1>10. session[s].opening \in Int /\ session'[s].opening = session[s].opening
  BY DEF TypeOK, SessionType, SessionRow
<1>11. Signed(movement'[m]) \in Int
  BY <1>2, <1>3
<1> QED BY <1>8, <1>9, <1>10, <1>11 DEF ExpectedCash

\* A session none of whose rows is written keeps its expected cash.
LEMMA CashKept ==
    ASSUME NEW s \in Sessions, session'[s].opening = session[s].opening,
           \A m \in Movements :
              \/ movement'[m] = movement[m]
              \/ /\ movement[m].status = "NONE" \/ movement[m].session # s
                 /\ movement'[m].session # s
    PROVE  ExpectedCash(s)' = ExpectedCash(s)
<1>1. PostedOf(s)' = PostedOf(s) /\ \A m \in PostedOf(s) : movement'[m] = movement[m]
  BY DEF PostedOf
<1> QED BY <1>1, SameCash

Phase == [s \in Sessions |-> session[s].status]
Balance == [s \in Sessions |-> ExpectedCash(s)]
Recorded == [s \in Sessions |-> session[s].expected]

\* The start of the cash desk is that of the ledger.
LEMMA LedgerStarts == ASSUME Init PROVE Ledger!LedgerInit
<1>1. ASSUME NEW s \in Sessions PROVE ExpectedCash(s) = 0
  <2>1. PostedOf(s) = {}
    BY DEF Init, PostedOf, NoMovement
  <2>2. DOMAIN [m \in PostedOf(s) |-> Signed(movement[m])] = {}
    BY <2>1
  <2>3. NetCash(s) = 0
    BY <2>2, SumWhole, SumEmpty DEF NetCash
  <2> QED BY <2>3 DEF Init, ExpectedCash, NoSession
<1>2. /\ [s \in Sessions |-> session[s].status] = [s \in Sessions |-> "NONE"]
      /\ [s \in Sessions |-> session[s].expected] = [s \in Sessions |-> NULL]
  BY DEF Init, NoSession
<1> QED BY <1>1, <1>2 DEF Ledger!LedgerInit

\* Rows written to one open session are a Post of the ledger.
LEMMA LedgerPosts ==
    ASSUME TypeOK, NEW s \in Sessions, IsOpen(s), UNCHANGED session,
           \A m \in Movements :
              \/ movement'[m] = movement[m]
              \/ /\ movement[m].status = "NONE" \/ movement[m].session = s
                 /\ movement'[m].session = s
    PROVE  Ledger!LedgerNext
<1>1. ASSUME NEW r \in Sessions \ {s} PROVE ExpectedCash(r)' = ExpectedCash(r)
  BY CashKept
<1>2. Balance' = [Balance EXCEPT ![s] = Balance'[s]]
  BY <1>1 DEF Balance
<1>3. Phase[s] = "OPEN" /\ Phase' = Phase /\ Recorded' = Recorded
  BY DEF IsOpen, Phase, Recorded
<1>4. Ledger!Post(s)
  BY <1>2, <1>3 DEF Ledger!Post, Ledger!Rebalanced, Phase, Balance, Recorded
<1> QED BY <1>4 DEF Ledger!LedgerNext

\* A transfer completed between two registers is a Move.
LEMMA LedgerMoves ==
    ASSUME TypeOK, TypeOK', RowsInv, NEW t \in Transfers, GoesToRegister(t)
    PROVE  Ledger!LedgerNext
<1>a. InProgress(t) /\ transfer[t].source \in Sessions
  BY DEF GoesToRegister, RowsInv, InProgress, OpenTransfer
<1> PICK s \in Sessions : s = transfer[t].source
  BY <1>a
<1> PICK a : a = transfer[t].amount
  OBVIOUS
<1>1. PICK d \in Sessions \ {s}, m, n \in Fresh :
        /\ IsOpen(s) /\ IsOpen(d) /\ Covered(t) /\ InProgress(t)
        /\ m # n
        /\ movement'[m] = TransferPosting(t, s, "CASH_OUT")
        /\ movement'[n] = TransferPosting(t, d, "CASH_IN")
        /\ \A k \in Movements \ {m, n} : movement'[k] = movement[k]
        /\ UNCHANGED session
  BY DEF GoesToRegister
<1>2. a > 0 /\ a \in Nat
  BY <1>1 DEF RowsInv, InProgress, OpenTransfer, TypeOK, TransferRow
<1>3. a <= ExpectedCash(s)
  BY <1>1 DEF Covered
<1>4. /\ movement'[m].status = "POSTED" /\ movement'[m].session = s
      /\ movement'[m].type = "CASH_OUT" /\ movement'[m].amount = a
      /\ movement'[n].status = "POSTED" /\ movement'[n].session = d
      /\ movement'[n].type = "CASH_IN" /\ movement'[n].amount = a
  BY <1>1, PostingRow DEF TransferPosting
<1>5. Signed(movement'[m]) = 0 - a /\ Signed(movement'[n]) = a
  BY <1>4 DEF Signed
<1>6. \A k \in Movements : k \in {m, n} => movement[k].status = "NONE"
  BY <1>1 DEF Fresh
<1>7. ExpectedCash(s)' = ExpectedCash(s) - a /\ ExpectedCash(s) \in Int
  <2>1. ExpectedCash(s)' = ExpectedCash(s) + Signed(movement'[m])
    <3>1. \A k \in PostedOf(s) : movement'[k] = movement[k]
      BY <1>1, <1>6 DEF PostedOf
    <3>2. \A k \in Movements \ {m} : movement'[k] = movement[k] \/ movement'[k].session # s
      BY <1>1, <1>4
    <3> QED BY <1>1, <1>2, <1>4, <3>1, <3>2, CashPosted
  <2>2. ExpectedCash(s) \in Int
    BY <1>2, NetIsSum DEF CashIsSum
  <2> QED BY <1>2, <1>5, <2>1, <2>2
<1>8. ExpectedCash(d)' = ExpectedCash(d) + a /\ ExpectedCash(d) \in Int
  <2>1. ExpectedCash(d)' = ExpectedCash(d) + Signed(movement'[n])
    <3>1. \A k \in PostedOf(d) : movement'[k] = movement[k]
      BY <1>1, <1>6 DEF PostedOf
    <3>2. \A k \in Movements \ {n} : movement'[k] = movement[k] \/ movement'[k].session # d
      BY <1>1, <1>4
    <3> QED BY <1>1, <1>4, <3>1, <3>2, CashPosted
  <2>2. ExpectedCash(d) \in Int
    BY NetIsSum DEF CashIsSum
  <2> QED BY <1>2, <1>5, <2>1, <2>2
<1>9. \A r \in Sessions \ {s, d} : ExpectedCash(r)' = ExpectedCash(r)
  <2> SUFFICES ASSUME NEW r \in Sessions \ {s, d} PROVE ExpectedCash(r)' = ExpectedCash(r)
    OBVIOUS
  <2> QED BY <1>1, <1>4, <1>6, CashKept
<1>b. /\ Balance[s] = ExpectedCash(s) /\ Balance'[s] = ExpectedCash(s)'
      /\ Balance[d] = ExpectedCash(d)
  BY <1>2 DEF Balance
<1>10. Balance[s] - Balance'[s] = a /\ Balance'[s] >= 0
  BY <1>2, <1>3, <1>7, <1>b
<1>11. Balance' = [Balance EXCEPT ![s] = Balance[s] - a, ![d] = Balance[d] + a]
  <2> DEFINE moved == [Balance EXCEPT ![s] = Balance[s] - a, ![d] = Balance[d] + a]
  <2>1. ASSUME NEW r \in Sessions PROVE moved[r] = ExpectedCash(r)'
    <3>1. CASE r = s
      BY <1>1, <1>2, <1>7, <1>b, <3>1 DEF Balance
    <3>2. CASE r = d
      BY <1>1, <1>8, <1>b, <3>2 DEF Balance
    <3>3. CASE r \notin {s, d}
      BY <1>9, <3>3 DEF Balance
    <3> QED BY <3>1, <3>2, <3>3
  <2>2. moved = [r \in Sessions |-> moved[r]]
    BY DEF Balance
  <2>3. Balance' = [r \in Sessions |-> ExpectedCash(r)']
    BY DEF Balance
  <2> HIDE DEF moved
  <2>4. Balance' = moved
    BY <2>1, <2>2, <2>3
  <2> QED BY <2>4 DEF moved
<1>12. /\ Phase[s] = "OPEN" /\ Phase[d] = "OPEN" /\ s # d
       /\ Phase' = Phase /\ Recorded' = Recorded
  BY <1>1, <1>2 DEF Phase, Recorded, IsOpen
<1>13. Ledger!Move(s, d)
  BY <1>2, <1>10, <1>11, <1>12 DEF Ledger!Move, Phase, Balance, Recorded
<1> QED BY <1>1, <1>2, <1>13 DEF Ledger!LedgerNext

\* What is done to the sessions, with the movements as they are.
LEMMA LedgerSessions ==
    ASSUME TypeOK, RowsInv, SealedBalance, SessionEffect, UNCHANGED movement
    PROVE  Ledger!LedgerNext \/ UNCHANGED <<Phase, Balance, Recorded>>
<1>0. ASSUME NEW s \in Sessions, session'[s].opening = session[s].opening
      PROVE  ExpectedCash(s)' = ExpectedCash(s)
  BY <1>0, CashKept
<1>1. CASE UNCHANGED session
  BY <1>0, <1>1 DEF Phase, Balance, Recorded
<1>2. ASSUME NEW s \in Sessions, Opens(s) PROVE Ledger!LedgerNext
  <2>1. /\ session[s] = NoSession
        /\ session'[s].status = "OPEN" /\ session'[s].opening \in Nat
        /\ session'[s].expected = NULL
        /\ \A r \in Sessions \ {s} : session'[r] = session[r]
    BY <1>2 DEF Opens, RowsInv
  <2>2. PostedOf(s)' = {}
    <3>1. ASSUME NEW m \in Movements, movement[m].status = "POSTED"
          PROVE  movement[m].session # s
      BY <2>1, <3>1 DEF RowsInv, NoSession
    <3> QED BY <3>1 DEF PostedOf
  <2>3. ExpectedCash(s)' = session'[s].opening
    <3>1. NetCash(s)' = SumFunction([m \in PostedOf(s) |-> Signed(movement[m])])'
      BY DEF NetCash
    <3>2. ([m \in PostedOf(s) |-> Signed(movement[m])])' = [m \in {} |-> 0]
      BY <2>2
    <3>3. DOMAIN [m \in {} |-> 0] = {}
      OBVIOUS
    <3>4. SumFunction([m \in {} |-> 0]) = 0
      BY <3>3, SumWhole, SumEmpty
    <3>5. NetCash(s)' = 0
      BY <3>1, <3>2, <3>4
    <3> QED BY <2>1, <3>5 DEF ExpectedCash
  <2>4. \A r \in Sessions \ {s} : ExpectedCash(r)' = ExpectedCash(r)
    BY <1>0, <2>1
  <2>5. Balance' = [Balance EXCEPT ![s] = Balance'[s]] /\ Balance'[s] >= 0
    <3>1. Balance' = [Balance EXCEPT ![s] = Balance'[s]]
      BY <2>4 DEF Balance
    <3>2. Balance'[s] = session'[s].opening
      BY <2>3 DEF Balance
    <3> QED BY <2>1, <3>1, <3>2
  <2>6. /\ Phase[s] = "NONE" /\ Phase' = [Phase EXCEPT ![s] = "OPEN"]
        /\ Recorded' = Recorded
    <3>1. session[s].status = "NONE" /\ session[s].expected = NULL
      BY <2>1 DEF NoSession
    <3>2. \A r \in Sessions \ {s} : session'[r] = session[r]
      BY <2>1
    <3>3. session'[s].status = "OPEN" /\ session'[s].expected = NULL
      BY <2>1
    <3>4. Phase[s] = "NONE" /\ Phase' = [Phase EXCEPT ![s] = "OPEN"]
      BY <3>1, <3>2, <3>3 DEF Phase
    <3>5. Recorded' = Recorded
      BY <3>1, <3>2, <3>3 DEF Recorded
    <3> QED BY <3>4, <3>5
  <2>7. Ledger!Open(s)
    BY <2>5, <2>6 DEF Ledger!Open, Ledger!Rebalanced, Phase, Balance, Recorded
  <2> QED BY <2>7 DEF Ledger!LedgerNext
<1>3. ASSUME NEW s \in Sessions, Seals(s)
      PROVE  Ledger!LedgerNext \/ UNCHANGED <<Phase, Balance, Recorded>>
  <2>0. session[s] \in SessionRow(session[s].expected, session[s].counted)
    BY DEF TypeOK, SessionType
  <2>1. /\ session'[s].status = "CLOSED" /\ session'[s].expected = ExpectedCash(s)
        /\ session'[s].opening = session[s].opening
        /\ \A r \in Sessions \ {s} : session'[r] = session[r]
    BY <1>3, <2>0 DEF Seals, Sealed, TypeOK, SessionType, SessionRow
  <2>2. \A r \in Sessions : ExpectedCash(r)' = ExpectedCash(r)
    <3> SUFFICES ASSUME NEW r \in Sessions PROVE ExpectedCash(r)' = ExpectedCash(r)
      OBVIOUS
    <3> QED BY <1>0, <2>1
  <2>3. Balance' = Balance
    BY <2>2 DEF Balance
  <2>4. CASE session[s].status = "OPEN"
    <3>1. /\ Phase[s] = "OPEN" /\ Phase' = [Phase EXCEPT ![s] = "CLOSED"]
          /\ Recorded' = [Recorded EXCEPT ![s] = Balance[s]]
      BY <2>1, <2>4 DEF Phase, Recorded, Balance
    <3>2. Ledger!Seal(s)
      BY <2>3, <3>1 DEF Ledger!Seal, Phase, Balance, Recorded
    <3> QED BY <3>2 DEF Ledger!LedgerNext
  <2>5. CASE session[s].status = "CLOSED"
    <3>1. session'[s].expected = session[s].expected
      BY <2>1, <2>5 DEF SealedBalance
    <3>2. Phase' = Phase /\ Recorded' = Recorded
      BY <2>1, <2>5, <3>1 DEF Phase, Recorded
    <3> QED BY <2>3, <3>2
  <2>6. session[s].status # "NONE"
    BY <1>3 DEF Seals, RowsInv
  <2> QED BY <2>0, <2>4, <2>5, <2>6 DEF SessionRow
<1> QED BY <1>1, <1>2, <1>3 DEF SessionEffect, Staffs

\* Each step opens, posts, moves between two sessions, seals, or changes nothing
\* the ledger tells apart.
LEMMA LedgerSteps ==
    ASSUME TypeOK, TypeOK', RowsInv, SealedBalance, Effects, CashEffect
    PROVE  Ledger!LedgerNext \/ UNCHANGED <<Phase, Balance, Recorded>>
<1>1. CASE Quiet
  BY <1>1, LedgerSessions DEF Quiet, Effects
<1>2. CASE PostsManual
  <2>1. PICK s \in Sessions, m \in Fresh :
          /\ IsOpen(s) /\ UNCHANGED session
          /\ movement'[m].session = s
          /\ \A k \in Movements \ {m} : movement'[k] = movement[k]
    BY <1>2, PostingRow DEF PostsManual
  <2> QED BY <2>1, LedgerPosts DEF Fresh
<1>3. ASSUME NEW m \in Movements, Counters(m) PROVE Ledger!LedgerNext
  <2> DEFINE s == movement[m].session
  <2>1. PICK n \in Fresh \ {m} :
          /\ IsOpen(s) /\ UNCHANGED session
          /\ movement[m].status = "POSTED"
          /\ movement'[n] = Posting(s, Opposite(movement[m].type), movement[m].amount,
                                    Reference("CASH_MOVEMENT", m))
          /\ movement'[m] = [movement[m] EXCEPT !.status = "VOIDED"]
          /\ \A k \in Movements \ {m, n} : movement'[k] = movement[k]
    BY <1>3 DEF Counters
  <2>2. s \in Sessions /\ movement'[m].session = s
    BY <2>1 DEF RowsInv, TypeOK, MovementRow
  <2>3. movement'[n].session = s /\ movement[n].status = "NONE"
    BY <2>1, PostingRow DEF Fresh
  <2> HIDE DEF s
  <2>4. \A k \in Movements :
              \/ movement'[k] = movement[k]
              \/ /\ movement[k].status = "NONE" \/ movement[k].session = s
                 /\ movement'[k].session = s
    BY <2>1, <2>2, <2>3 DEF s
  <2> QED BY <2>1, <2>2, <2>4, LedgerPosts
<1>4. ASSUME NEW v \in Sales, Pays(v) PROVE Ledger!LedgerNext
  <2>1. PICK s \in Sessions, N \in SUBSET Fresh :
          /\ IsOpen(s) /\ UNCHANGED session
          /\ \A m \in N : movement'[m].session = s
          /\ \A k \in Movements \ N : movement'[k] = movement[k]
    BY <1>4, PostingRow DEF Pays
  <2> QED BY <2>1, LedgerPosts DEF Fresh
<1>5. ASSUME NEW t \in Transfers, GoesToVault(t) PROVE Ledger!LedgerNext
  <2> DEFINE s == transfer[t].source
  <2>1. PICK m \in Fresh :
          /\ IsOpen(s) /\ UNCHANGED session /\ InProgress(t)
          /\ movement'[m] = TransferPosting(t, s, "CASH_OUT")
          /\ \A k \in Movements \ {m} : movement'[k] = movement[k]
    BY <1>5 DEF GoesToVault
  <2>2. s \in Sessions
    BY <2>1 DEF RowsInv, InProgress, OpenTransfer
  <2>3. movement'[m].session = s /\ movement[m].status = "NONE"
    BY <2>1, PostingRow DEF TransferPosting, Fresh
  <2> HIDE DEF s
  <2> QED BY <2>1, <2>2, <2>3, LedgerPosts
<1> QED BY <1>1, <1>2, <1>3, <1>4, <1>5, LedgerMoves DEF CashEffect

\* The tables of the cash module implement the ledger: cash is posted to open
\* sessions only, moved between two of them only when covered, sealed as it is.
THEOREM LedgerImplemented == Spec => ImplementsLedger
<1>1. Init => Ledger!LedgerInit
  BY LedgerStarts
<1>2. TypeOK /\ TypeOK' /\ RowsInv /\ SealedBalance /\ [Next]_vars
        => [Ledger!LedgerNext]_(Ledger!ledgerVars)
  BY StepEffects, CashEffects, LedgerSteps DEF Ledger!ledgerVars, Phase, Balance, Recorded
<1> QED
  BY <1>1, <1>2, RowsHold, SealedBalanceHolds, PTL
     DEF Spec, ImplementsLedger, Ledger!LedgerSpec

-----------------------------------------------------------------------------
(* The reports: totals of groups of rows, and the groups of the sessions.   *)

Totals == [count : Int, amount : Int]
Plus(a, b) == [count |-> a.count + b.count, amount |-> a.amount + b.amount]
TotalOf(ids, total) ==
    [count  |-> SumFunctionOnSet([i \in ids |-> total[i].count], ids),
     amount |-> SumFunctionOnSet([i \in ids |-> total[i].amount], ids)]

Ones(table) == [i \in DOMAIN table |-> 1]
Column(table, field) == [i \in DOMAIN table |-> table[i][field]]

\* An aggregate over some rows of a table is two sums over its rows.
LEMMA TotalIsSums ==
    ASSUME NEW table, NEW ids \in SUBSET DOMAIN table, IsFiniteSet(ids), NEW field,
           \A i \in DOMAIN table : table[i][field] \in Int
    PROVE  /\ Total(table, ids, field)
                = [count  |-> SumFunctionOnSet(Ones(table), ids),
                   amount |-> SumFunctionOnSet(Column(table, field), ids)]
           /\ Total(table, ids, field) \in Totals
<1> DEFINE ones == [i \in ids |-> 1]
           own == [i \in ids |-> table[i][field]]
<1>1. Cardinality(ids) = SumFunctionOnSet(ones, ids)
  BY CountIsSum
<1>2. SumFunction(own) = SumFunctionOnSet(own, ids)
  BY SumWhole
<1>3. /\ \A i \in ids : ones[i] = Ones(table)[i] /\ ones[i] \in Int
      /\ \A i \in ids : own[i] = Column(table, field)[i] /\ own[i] \in Int
  BY DEF Ones, Column
<1> HIDE DEF ones
<1>4. SumFunctionOnSet(ones, ids) = SumFunctionOnSet(Ones(table), ids)
  BY <1>3, SumSame
<1>5. SumFunctionOnSet(own, ids) = SumFunctionOnSet(Column(table, field), ids)
  <2> HIDE DEF own
  <2> QED BY <1>3, SumSame
<1>6. SumFunctionOnSet(ones, ids) \in Int /\ SumFunctionOnSet(own, ids) \in Int
  <2> HIDE DEF own
  <2> QED BY <1>3, SumInt
<1>7. Total(table, ids, field) = [count |-> Cardinality(ids), amount |-> SumFunction(own)]
  BY DEF Total
<1> HIDE DEF own
<1> QED BY <1>1, <1>2, <1>4, <1>5, <1>6, <1>7 DEF Totals

\* Two aggregates over rows apart.
LEMMA TotalUnion ==
    ASSUME NEW table, NEW A \in SUBSET DOMAIN table, NEW B \in SUBSET DOMAIN table,
           IsFiniteSet(A), IsFiniteSet(B), A \cap B = {}, NEW field,
           \A i \in DOMAIN table : table[i][field] \in Int
    PROVE  Total(table, A \cup B, field) = Plus(Total(table, A, field), Total(table, B, field))
<1>1. IsFiniteSet(A \cup B)
  BY FS_Union
<1>2. /\ \A i \in A \cup B : Ones(table)[i] \in Int
      /\ \A i \in A \cup B : Column(table, field)[i] \in Int
  BY DEF Ones, Column
<1>3. SumFunctionOnSet(Ones(table), A \cup B)
        = SumFunctionOnSet(Ones(table), A) + SumFunctionOnSet(Ones(table), B)
  BY <1>2, SumUnion
<1>4. SumFunctionOnSet(Column(table, field), A \cup B)
        = SumFunctionOnSet(Column(table, field), A) + SumFunctionOnSet(Column(table, field), B)
  BY <1>2, SumUnion
<1> DEFINE Sums(ids) == [count  |-> SumFunctionOnSet(Ones(table), ids),
                        amount |-> SumFunctionOnSet(Column(table, field), ids)]
<1>5. /\ Total(table, A, field) = Sums(A)
      /\ Total(table, B, field) = Sums(B)
      /\ Total(table, A \cup B, field) = Sums(A \cup B)
  BY <1>1, TotalIsSums
<1>6. Sums(A \cup B) = Plus(Sums(A), Sums(B))
  BY <1>3, <1>4 DEF Plus
<1> HIDE DEF Sums
<1> QED BY <1>5, <1>6

\* The aggregate of some rows is that of their groups.
LEMMA TotalByKey ==
    ASSUME NEW table, NEW ids \in SUBSET DOMAIN table, IsFiniteSet(ids), NEW field,
           \A i \in DOMAIN table : table[i][field] \in Int,
           NEW K, IsFiniteSet(K), NEW key, \A i \in ids : key[i] \in K
    PROVE  Total(table, ids, field)
             = TotalOf(K, [k \in K |-> Total(table, {i \in ids : key[i] = k}, field)])
<1> DEFINE group(k) == {i \in ids : key[i] = k}
           totals == [k \in K |-> Total(table, group(k), field)]
           counts == [k \in K |-> SumFunctionOnSet(Ones(table), group(k))]
           amounts == [k \in K |-> SumFunctionOnSet(Column(table, field), group(k))]
<1>1. /\ \A i \in ids : Ones(table)[i] \in Int
      /\ \A i \in ids : Column(table, field)[i] \in Int
  BY DEF Ones, Column
<1>2. SumFunctionOnSet(Ones(table), ids) = SumFunctionOnSet(counts, K)
  BY <1>1, SumByKey
<1>3. SumFunctionOnSet(Column(table, field), ids) = SumFunctionOnSet(amounts, K)
  BY <1>1, SumByKey
<1>4. ASSUME NEW k \in K
      PROVE  totals[k].count = counts[k] /\ totals[k].amount = amounts[k]
  <2>1. IsFiniteSet(group(k)) /\ group(k) \in SUBSET DOMAIN table
    BY FS_Subset
  <2>2. Total(table, group(k), field)
          = [count  |-> SumFunctionOnSet(Ones(table), group(k)),
             amount |-> SumFunctionOnSet(Column(table, field), group(k))]
    <3> HIDE DEF group
    <3> QED BY <2>1, TotalIsSums
  <2>3. /\ totals[k] = Total(table, group(k), field)
        /\ counts[k] = SumFunctionOnSet(Ones(table), group(k))
        /\ amounts[k] = SumFunctionOnSet(Column(table, field), group(k))
    OBVIOUS
  <2> HIDE DEF totals, counts, amounts, group
  <2> QED BY <2>2, <2>3
<1>5. counts = [k \in K |-> counts[k]] /\ amounts = [k \in K |-> amounts[k]]
  OBVIOUS
<1>6. [k \in K |-> totals[k].count] = counts /\ [k \in K |-> totals[k].amount] = amounts
  <2> HIDE DEF totals, counts, amounts
  <2> QED BY <1>4, <1>5
<1>7. Total(table, ids, field)
        = [count  |-> SumFunctionOnSet(Ones(table), ids),
           amount |-> SumFunctionOnSet(Column(table, field), ids)]
  BY TotalIsSums
<1> HIDE DEF totals, counts, amounts
<1>8. TotalOf(K, totals) = [count |-> SumFunctionOnSet(counts, K),
                            amount |-> SumFunctionOnSet(amounts, K)]
  BY <1>6 DEF TotalOf
<1>9. TotalOf(K, totals) = Total(table, ids, field)
  BY <1>2, <1>3, <1>7, <1>8
<1> QED BY <1>9 DEF totals

\* What rows of an aggregate query add up to, one for each of some sessions.
LEMMA BothIsTotal ==
    ASSUME NEW K, IsFiniteSet(K), NEW row,
           \A k \in K : row[k].total \in Totals,
           \A j, k \in K : row[j] = row[k] => j = k
    PROVE  /\ Both({row[k] : k \in K}) = TotalOf(K, [k \in K |-> row[k].total])
           /\ IsFiniteSet({row[k] : k \in K})
<1> DEFINE rows == {row[k] : k \in K}
           counts == [r \in rows |-> r.total.count]
           amounts == [r \in rows |-> r.total.amount]
<1>1. /\ \A k \in K : counts[row[k]] = row[k].total.count /\ counts[row[k]] \in Int
      /\ \A k \in K : amounts[row[k]] = row[k].total.amount /\ amounts[row[k]] \in Int
      /\ DOMAIN counts = rows /\ DOMAIN amounts = rows
  BY DEF Totals
<1>2. Both(rows) = [count |-> SumFunctionOnSet(counts, rows),
                    amount |-> SumFunctionOnSet(amounts, rows)]
  BY <1>1, SumWhole DEF Both
<1> HIDE DEF counts, amounts
<1>3. /\ IsFiniteSet(rows)
      /\ SumFunctionOnSet(counts, rows) = SumFunctionOnSet([k \in K |-> counts[row[k]]], K)
  BY <1>1, SumImage
<1>4. SumFunctionOnSet(amounts, rows) = SumFunctionOnSet([k \in K |-> amounts[row[k]]], K)
  BY <1>1, SumImage
<1> DEFINE totals == [k \in K |-> row[k].total]
<1>5. \A k \in K : totals[k].count = counts[row[k]] /\ totals[k].amount = amounts[row[k]]
  BY <1>1
<1> HIDE DEF totals
<1>6. /\ [k \in K |-> counts[row[k]]] = [k \in K |-> totals[k].count]
      /\ [k \in K |-> amounts[row[k]]] = [k \in K |-> totals[k].amount]
  BY <1>5
<1>7. Both(rows) = TotalOf(K, totals)
  BY <1>2, <1>3, <1>4, <1>6 DEF TotalOf
<1> QED BY <1>3, <1>7 DEF totals

\* Two sets of such rows.
LEMMA BothUnion ==
    ASSUME NEW A, NEW B, IsFiniteSet(A), IsFiniteSet(B), A \cap B = {},
           \A r \in A \cup B : r.total \in Totals
    PROVE  Both(A \cup B) = Plus(Both(A), Both(B))
<1> DEFINE counts(S) == [r \in S |-> r.total.count]
           amounts(S) == [r \in S |-> r.total.amount]
<1>1. ASSUME NEW S \in {A, B, A \cup B}
      PROVE  Both(S) = [count  |-> SumFunctionOnSet(counts(A \cup B), S),
                        amount |-> SumFunctionOnSet(amounts(A \cup B), S)]
  <2>1. IsFiniteSet(S)
    BY FS_Union
  <2>2. /\ \A r \in S : counts(S)[r] = counts(A \cup B)[r]
        /\ \A r \in S : amounts(S)[r] = amounts(A \cup B)[r]
        /\ DOMAIN counts(S) = S /\ DOMAIN amounts(S) = S
    OBVIOUS
  <2>3. Both(S) = [count |-> SumFunction(counts(S)), amount |-> SumFunction(amounts(S))]
    BY DEF Both
  <2> HIDE DEF counts, amounts
  <2>4. /\ SumFunction(counts(S)) = SumFunctionOnSet(counts(S), S)
        /\ SumFunction(amounts(S)) = SumFunctionOnSet(amounts(S), S)
    BY <2>2, SumWhole
  <2>5. SumFunctionOnSet(counts(S), S) = SumFunctionOnSet(counts(A \cup B), S)
    BY <2>1, <2>2, SumSame
  <2>6. SumFunctionOnSet(amounts(S), S) = SumFunctionOnSet(amounts(A \cup B), S)
    BY <2>1, <2>2, SumSame
  <2> QED BY <2>3, <2>4, <2>5, <2>6
<1>2. /\ \A r \in A \cup B : counts(A \cup B)[r] \in Int
      /\ \A r \in A \cup B : amounts(A \cup B)[r] \in Int
  BY DEF Totals
<1> HIDE DEF counts, amounts
<1>3. /\ SumFunctionOnSet(counts(A \cup B), A \cup B)
           = SumFunctionOnSet(counts(A \cup B), A) + SumFunctionOnSet(counts(A \cup B), B)
      /\ SumFunctionOnSet(amounts(A \cup B), A \cup B)
           = SumFunctionOnSet(amounts(A \cup B), A) + SumFunctionOnSet(amounts(A \cup B), B)
  BY <1>2, SumUnion
<1> QED BY <1>1, <1>3 DEF Plus

\* Totals of groups of two parts.
LEMMA TotalOfPlus ==
    ASSUME NEW K, IsFiniteSet(K), NEW f, NEW g, NEW h,
           \A k \in K : f[k] \in Totals /\ g[k] \in Totals /\ h[k] = Plus(f[k], g[k])
    PROVE  TotalOf(K, h) = Plus(TotalOf(K, f), TotalOf(K, g))
<1> DEFINE counts(t) == [k \in K |-> t[k].count]
           amounts(t) == [k \in K |-> t[k].amount]
<1>1. /\ \A k \in K : /\ counts(f)[k] \in Int /\ counts(g)[k] \in Int
                      /\ counts(h)[k] = counts(f)[k] + counts(g)[k]
      /\ \A k \in K : /\ amounts(f)[k] \in Int /\ amounts(g)[k] \in Int
                      /\ amounts(h)[k] = amounts(f)[k] + amounts(g)[k]
  <2> SUFFICES ASSUME NEW k \in K
               PROVE  /\ f[k].count \in Int /\ g[k].count \in Int
                      /\ h[k].count = f[k].count + g[k].count
                      /\ f[k].amount \in Int /\ g[k].amount \in Int
                      /\ h[k].amount = f[k].amount + g[k].amount
    OBVIOUS
  <2>1. f[k] \in Totals /\ g[k] \in Totals /\ h[k] = Plus(f[k], g[k])
    OBVIOUS
  <2> QED BY <2>1 DEF Totals, Plus
<1> HIDE DEF counts, amounts
<1>2. SumFunctionOnSet(counts(h), K) = SumFunctionOnSet(counts(f), K) + SumFunctionOnSet(counts(g), K)
  BY <1>1, SumPlus
<1>3. SumFunctionOnSet(amounts(h), K) = SumFunctionOnSet(amounts(f), K) + SumFunctionOnSet(amounts(g), K)
  BY <1>1, SumPlus
<1> QED BY <1>2, <1>3 DEF TotalOf, Plus, counts, amounts

-----------------------------------------------------------------------------
(* What the reports read of a state.                                        *)

\* The session where cash arrives is set by the completion of a transfer to a
\* register, and an OPEN session has no sealed balance.
ReportRows ==
    /\ \A t \in Transfers :
         transfer[t].destSession \in Sessions =>
            transfer[t].status = "COMPLETED" /\ transfer[t].destination # Vault
    /\ \A s \in Sessions : IsOpen(s) => session[s].expected = NULL

\* Only a completion sets where a transfer went, and only a seal the balance.
LEMMA ReportRowsStep ==
    ASSUME TypeOK, RowsInv, ReportRows, [Next]_vars
    PROVE  ReportRows'
<1>0. transfer \in [Transfers -> TransferRow]
  BY DEF TypeOK
<1>1. \A s \in Sessions : IsOpen(s)' => session'[s].expected = NULL
  <2>0. Effects
    BY StepEffects
  <2>1. CASE UNCHANGED session
    BY <2>1 DEF ReportRows, IsOpen
  <2>2. ASSUME NEW s \in Sessions, Opens(s)
        PROVE  \A t \in Sessions : IsOpen(t)' => session'[t].expected = NULL
    BY <2>2 DEF ReportRows, IsOpen, Opens
  <2>3. ASSUME NEW s \in Sessions, Seals(s)
        PROVE  \A t \in Sessions : IsOpen(t)' => session'[t].expected = NULL
    <3>1. /\ session'[s].status = "CLOSED"
          /\ \A t \in Sessions \ {s} : session'[t] = session[t]
      BY <2>3 DEF Seals, Sealed, TypeOK, SessionType, SessionRow
    <3> QED BY <3>1 DEF ReportRows, IsOpen
  <2> QED BY <2>0, <2>1, <2>2, <2>3 DEF Effects, SessionEffect, Staffs
<1>2. ASSUME NEW t \in Transfers, transfer'[t].destSession \in Sessions
      PROVE  transfer'[t].status = "COMPLETED" /\ transfer'[t].destination # Vault
  <2>1. CASE UNCHANGED transfer
    BY <1>2, <2>1 DEF ReportRows
  <2>2. ASSUME NEW s \in Sessions, NEW u \in Users, NEW d \in Registers \cup {Vault},
               NEW a \in Amounts, CreateTransfer(s, u, d, a)
        PROVE  transfer'[t].status = "COMPLETED" /\ transfer'[t].destination # Vault
    <3>1. PICK r \in NextId(Unused(transfer)) :
            transfer' = [transfer EXCEPT ![r] =
              [NoTransfer EXCEPT !.status = "PENDING", !.source = s,
                                 !.destination = d, !.amount = a,
                                 !.requestedBy = u]]
      BY <2>2 DEF CreateTransfer
    <3>2. transfer'[t] = transfer[t]
      BY <1>0, <1>2, <3>1, NullIsNoRow DEF NoTransfer
    <3> QED BY <1>2, <3>2 DEF ReportRows
  <2>3. ASSUME NEW r \in Transfers, NEW u \in Users,
               ApproveTransfer(r, u) \/ RejectTransfer(r, u) \/ CancelTransfer(r, u)
        PROVE  transfer'[t].status = "COMPLETED" /\ transfer'[t].destination # Vault
    <3>1. /\ transfer'[t].destSession = transfer[t].destSession
          /\ r # t => transfer'[t] = transfer[t]
          /\ InProgress(r)
      BY <1>0, <2>3 DEF ApproveTransfer, RejectTransfer, CancelTransfer, TransferRow
    <3>2. transfer[r].destSession \notin Sessions
      BY <3>1 DEF ReportRows, InProgress, OpenTransfer
    <3> QED BY <1>2, <3>1, <3>2 DEF ReportRows
  <2>4. ASSUME NEW r \in Transfers, NEW u \in Users, CompleteToVault(r, u)
        PROVE  transfer'[t].status = "COMPLETED" /\ transfer'[t].destination # Vault
    <3>1. PICK m : transfer' = [transfer EXCEPT ![r] = CompletedRow(r, u, NULL, m, NULL)]
      BY <2>4 DEF CompleteToVault
    <3>2. transfer'[t] = transfer[t]
      BY <1>0, <1>2, <3>1, NullIsNoRow DEF CompletedRow, TransferRow
    <3> QED BY <1>2, <3>2 DEF ReportRows
  <2>5. ASSUME NEW r \in Transfers, NEW u \in Users, CompleteToRegister(r, u)
        PROVE  transfer'[t].status = "COMPLETED" /\ transfer'[t].destination # Vault
    <3>1. PICK d, m, n : transfer' = [transfer EXCEPT ![r] = CompletedRow(r, u, d, m, n)]
      BY <2>5 DEF CompleteToRegister
    <3>2. transfer[r].destination # Vault
      BY <2>5, NullAssumption DEF CompleteToRegister
    <3>3. CASE r = t
      BY <1>0, <3>1, <3>2, <3>3 DEF CompletedRow, TransferRow
    <3>4. CASE r # t
      BY <1>0, <1>2, <3>1, <3>4 DEF ReportRows
    <3> QED BY <3>3, <3>4
  <2>6. CASE TransferStep
    BY <2>2, <2>3, <2>4, <2>5, <2>6 DEF TransferStep
  <2>7. CASE SessionStep
    BY <2>1, <2>7 DEF SessionStep, UpdateRegister, OpenSession, CloseSession, ForceCloseRead,
         ForceCloseSeal, ForceCloseReject, AssignOperator, ExitOperator, SealSession
  <2>8. CASE ClosingStep
    BY <2>1, <2>8 DEF ClosingStep, StartClosing, RegisterCount, CompleteClosing, CloseWith,
         RejectClosing, StartCount, UpsertItems, CompleteCount, CancelCount
  <2>9. CASE MovementStep
    BY <2>1, <2>9 DEF MovementStep, ManualMovement, VoidMovement, ChargeSale, PersistPayments
  <2>10. CASE UNCHANGED vars
    BY <2>1, <2>10 DEF vars
  <2> QED BY <2>6, <2>7, <2>8, <2>9, <2>10 DEF Next
<1> QED BY <1>1, <1>2 DEF ReportRows

\* They hold in every state.
LEMMA ReportRowsHold == Spec => []ReportRows
<1>1. Init => ReportRows
  BY NullIsNoRow DEF Init, ReportRows, NoTransfer, NoSession, IsOpen
<1>2. TypeOK /\ RowsInv /\ ReportRows /\ [Next]_vars => ReportRows'
  BY ReportRowsStep
<1> QED BY <1>1, <1>2, RowsHold, PTL DEF Spec

Existing == {s \in Sessions : session[s].status # "NONE"}

\* Everything a report reads, in one.
ReportInv == TypeOK /\ RowsInv /\ ReportRows /\ TransferInv /\ SealedBalance

\* Rows of the tables are finitely many and their amounts are numbers.
LEMMA Tables ==
    ASSUME TypeOK
    PROVE  /\ DOMAIN movement = Movements /\ DOMAIN sale = Sales /\ DOMAIN transfer = Transfers
           /\ \A ids \in SUBSET Movements : IsFiniteSet(ids)
           /\ \A ids \in SUBSET Sales : IsFiniteSet(ids)
           /\ \A ids \in SUBSET Transfers : IsFiniteSet(ids)
           /\ \A ids \in SUBSET Sessions : IsFiniteSet(ids)
           /\ \A i \in Movements : movement[i]["amount"] \in Int
           /\ \A i \in Sales : sale[i]["cash"] \in Int /\ sale[i]["other"] \in Int
           /\ \A i \in Transfers : transfer[i]["amount"] \in Int
           /\ \A s \in Sessions : session[s].opening \in Int
<1>1. {MaxMovements, MaxSales, MaxTransfers, MaxSessions} \subseteq Nat
  BY BoundAssumption
<1>2. /\ IsFiniteSet(Movements) /\ IsFiniteSet(Sales) /\ IsFiniteSet(Transfers)
      /\ IsFiniteSet(Sessions)
  BY <1>1, FS_Interval DEF Movements, Sales, Transfers, Sessions
<1>3. /\ \A ids \in SUBSET Movements : IsFiniteSet(ids)
      /\ \A ids \in SUBSET Sales : IsFiniteSet(ids)
      /\ \A ids \in SUBSET Transfers : IsFiniteSet(ids)
      /\ \A ids \in SUBSET Sessions : IsFiniteSet(ids)
  BY <1>2, FS_Subset
<1>4. \A s \in Sessions : session[s].opening \in Int
  BY DEF TypeOK, SessionType, SessionRow
<1> QED BY <1>3, <1>4 DEF TypeOK, MovementRow, SaleRow, TransferRow

\* The aggregates of the reports are totals.
LEMMA Aggregates ==
    ASSUME TypeOK
    PROVE  /\ \A ids \in SUBSET Movements : Total(movement, ids, "amount") \in Totals
           /\ \A ids \in SUBSET Sales, field \in {"cash", "other"} :
                Total(sale, ids, field) \in Totals
           /\ \A ids \in SUBSET Transfers : Total(transfer, ids, "amount") \in Totals
  BY Tables, TotalIsSums

\* The cash of a session is its opening, what came in and what went out.
LEMMA ExpectedSplit ==
    ASSUME TypeOK, NEW s \in Sessions
    PROVE  ExpectedCash(s) = session[s].opening + Posted(s, "CASH_IN").amount
                               - Posted(s, "CASH_OUT").amount
<1> DEFINE all == [m \in Movements |-> Signed(movement[m])]
           amounts == Column(movement, "amount")
           none == [m \in Movements |-> 0]
           Of(type) == {m \in PostedOf(s) : movement[m].type = type}
<1>1. CashIsSum /\ movement \in [Movements -> MovementRow]
  BY NetIsSum DEF TypeOK
<1>2. /\ PostedOf(s) = Of("CASH_IN") \cup Of("CASH_OUT") /\ Of("CASH_IN") \cap Of("CASH_OUT") = {}
      /\ Of("CASH_IN") \in SUBSET Movements /\ Of("CASH_OUT") \in SUBSET Movements
  BY <1>1 DEF PostedOf, MovementRow
<1>3. /\ \A m \in Movements : all[m] \in Int /\ amounts[m] \in Int /\ none[m] = 0
      /\ \A m \in Of("CASH_IN") : all[m] = amounts[m]
      /\ \A m \in Of("CASH_OUT") : none[m] = all[m] + amounts[m]
  <2>1. \A m \in Movements : amounts[m] = movement[m].amount /\ movement[m].amount \in Int
    BY <1>1 DEF Column, MovementRow
  <2>2. /\ \A m \in Of("CASH_IN") : Signed(movement[m]) = movement[m].amount
        /\ \A m \in Of("CASH_OUT") : Signed(movement[m]) = 0 - movement[m].amount
    BY DEF Signed
  <2>3. \A m \in Movements : Signed(movement[m]) \in Int
    BY <2>1 DEF Signed
  <2> HIDE DEF amounts
  <2> QED BY <1>2, <2>1, <2>2, <2>3
<1>4. /\ Posted(s, "CASH_IN").amount = SumFunctionOnSet(amounts, Of("CASH_IN"))
      /\ Posted(s, "CASH_OUT").amount = SumFunctionOnSet(amounts, Of("CASH_OUT"))
  <2>1. ASSUME NEW type \in {"CASH_IN", "CASH_OUT"}
        PROVE  Posted(s, type).amount = SumFunctionOnSet(amounts, Of(type))
    <3>1. Posted(s, type) = Total(movement, Of(type), "amount")
      BY DEF Posted
    <3>2. Of(type) \in SUBSET DOMAIN movement /\ IsFiniteSet(Of(type))
      BY <1>2, Tables
    <3>3. \A m \in DOMAIN movement : movement[m]["amount"] \in Int
      BY Tables
    <3> HIDE DEF Of
    <3>4. Total(movement, Of(type), "amount")
            = [count |-> SumFunctionOnSet(Ones(movement), Of(type)),
               amount |-> SumFunctionOnSet(amounts, Of(type))]
      BY <3>2, <3>3, TotalIsSums
    <3> QED BY <3>1, <3>4
  <2> HIDE DEF Of, amounts
  <2> QED BY <2>1
<1>5. IsFiniteSet(Of("CASH_IN")) /\ IsFiniteSet(Of("CASH_OUT"))
  BY <1>2, Tables
<1>6. NetCash(s) = SumFunctionOnSet(all, PostedOf(s))
  BY <1>1 DEF CashIsSum
<1> HIDE DEF all, amounts, none, Of
<1>7. SumFunctionOnSet(all, PostedOf(s))
        = SumFunctionOnSet(all, Of("CASH_IN")) + SumFunctionOnSet(all, Of("CASH_OUT"))
  BY <1>2, <1>3, <1>5, SumUnion
<1>8. SumFunctionOnSet(all, Of("CASH_IN")) = SumFunctionOnSet(amounts, Of("CASH_IN"))
  BY <1>3, <1>5, SumSame
<1>9. SumFunctionOnSet(none, Of("CASH_OUT"))
        = SumFunctionOnSet(all, Of("CASH_OUT")) + SumFunctionOnSet(amounts, Of("CASH_OUT"))
  BY <1>2, <1>3, <1>5, SumPlus
<1>10. SumFunctionOnSet(none, Of("CASH_OUT")) = 0
  BY <1>2, <1>3, <1>5, SumZero
<1>11. /\ SumFunctionOnSet(all, Of("CASH_OUT")) \in Int
       /\ SumFunctionOnSet(amounts, Of("CASH_OUT")) \in Int
       /\ SumFunctionOnSet(amounts, Of("CASH_IN")) \in Int
  BY <1>2, <1>3, <1>5, SumInt
<1>12. session[s].opening \in Int
  BY Tables
<1> QED BY <1>4, <1>6, <1>7, <1>8, <1>9, <1>10, <1>11, <1>12 DEF ExpectedCash

\* The totals of a session are totals, its cash and payments numbers.
LEMMA SummaryTyped ==
    ASSUME TypeOK, NEW s \in Sessions
    PROVE  /\ \A type \in {"CASH_IN", "CASH_OUT"} : Posted(s, type) \in Totals
           /\ \A field \in {"cash", "other"} : Charged(s, field) \in Int
           /\ ExpectedCash(s) \in Int
           /\ \A field \in {"out", "toRegister", "toVault", "in", "pending"} :
                SumSessionTransferTotals(s)[field] \in Totals
<1>1. \A type \in {"CASH_IN", "CASH_OUT"} : Posted(s, type) \in Totals
  BY Aggregates DEF Posted, PostedOf
<1>2. \A field \in {"cash", "other"} : Charged(s, field) \in Int
  BY Aggregates DEF Charged, Totals
<1>3. ExpectedCash(s) \in Int
  BY NetIsSum DEF CashIsSum
<1>4. \A field \in {"out", "toRegister", "toVault", "in", "pending"} :
        SumSessionTransferTotals(s)[field] \in Totals
  BY Aggregates DEF SumSessionTransferTotals, OpenTransfersOf
<1> QED BY <1>1, <1>2, <1>3, <1>4

\* Totals of groups depend on the totals alone.
LEMMA TotalOfSame ==
    ASSUME NEW K, NEW f, NEW g, \A k \in K : f[k] = g[k]
    PROVE  TotalOf(K, f) = TotalOf(K, g)
<1>1. /\ [k \in K |-> f[k].count] = [k \in K |-> g[k].count]
      /\ [k \in K |-> f[k].amount] = [k \in K |-> g[k].amount]
  OBVIOUS
<1> QED BY <1>1 DEF TotalOf

\* The total of one group is its total.
LEMMA TotalOfOne ==
    ASSUME NEW k, NEW f, f[k] \in Totals
    PROVE  TotalOf({k}, f) = f[k]
<1> DEFINE counts == [j \in {k} |-> f[j].count]
           amounts == [j \in {k} |-> f[j].amount]
<1>1. /\ \A j \in {k} : counts[j] \in Int /\ counts[k] = f[k].count
      /\ \A j \in {k} : amounts[j] \in Int /\ amounts[k] = f[k].amount
      /\ IsFiniteSet({k}) /\ k \in {k} /\ {k} \ {k} = {}
  BY FS_Singleton DEF Totals
<1>2. TotalOf({k}, f) = [count  |-> SumFunctionOnSet(counts, {k}),
                         amount |-> SumFunctionOnSet(amounts, {k})]
  BY DEF TotalOf
<1> HIDE DEF counts, amounts
<1>3. /\ SumFunctionOnSet(counts, {k}) = counts[k] + SumFunctionOnSet(counts, {})
      /\ SumFunctionOnSet(amounts, {k}) = amounts[k] + SumFunctionOnSet(amounts, {})
  <2>1. SumFunctionOnSet(counts, {k}) = counts[k] + SumFunctionOnSet(counts, {k} \ {k})
    BY <1>1, SumRemove
  <2>2. SumFunctionOnSet(amounts, {k}) = amounts[k] + SumFunctionOnSet(amounts, {k} \ {k})
    BY <1>1, SumRemove
  <2> QED BY <1>1, <2>1, <2>2
<1>4. SumFunctionOnSet(counts, {}) = 0 /\ SumFunctionOnSet(amounts, {}) = 0
  BY SumEmpty
<1>5. SumFunctionOnSet(counts, {k}) = f[k].count /\ SumFunctionOnSet(amounts, {k}) = f[k].amount
  BY <1>1, <1>3, <1>4
<1> QED BY <1>2, <1>5 DEF Totals

RowsOf(row, K) == {row[k] : k \in K}

\* Rows with one total for each of some sessions.
LEMMA BothRows ==
    ASSUME NEW K, IsFiniteSet(K), NEW row, NEW T,
           \A k \in K : row[k].total = T[k] /\ T[k] \in Totals,
           \A j, k \in K : row[j] = row[k] => j = k
    PROVE  /\ Both(RowsOf(row, K)) = TotalOf(K, T)
           /\ IsFiniteSet(RowsOf(row, K))
<1> DEFINE totals == [k \in K |-> row[k].total]
<1>1. Both(RowsOf(row, K)) = TotalOf(K, totals) /\ IsFiniteSet(RowsOf(row, K))
  BY BothIsTotal DEF RowsOf
<1>2. \A k \in K : totals[k] = T[k]
  OBVIOUS
<1> HIDE DEF totals
<1> QED BY <1>1, <1>2, TotalOfSame

\* A store's movements of a type are those of its sessions.
LEMMA MovementsAgree ==
    ASSUME TypeOK, NEW range \in SUBSET Sessions, NEW type \in {"CASH_IN", "CASH_OUT"}
    PROVE  /\ Both({row \in FetchMovementRows(range) : row.type = type})
                = TotalOf(range, [s \in range |-> Posted(s, type)])
           /\ \A s \in range :
                Both({row \in FetchMovementRows(range) : row.session = s /\ row.type = type})
                  = Posted(s, type)
<1> DEFINE own == [s \in range |-> Posted(s, type)]
           Row(s, y) == [session |-> s, type |-> y, total |-> Posted(s, y)]
           entry == [s \in range |-> Row(s, type)]
<1>1. \A s \in range, y \in {"CASH_IN", "CASH_OUT"} :
        Posted(s, y) = Total(movement, {m \in Movements : /\ movement[m].status = "POSTED"
                                                          /\ movement[m].session = s
                                                          /\ movement[m].type = y}, "amount")
  <2> SUFFICES ASSUME NEW s \in range, NEW y \in {"CASH_IN", "CASH_OUT"}
               PROVE  Posted(s, y)
                        = Total(movement, {m \in Movements : /\ movement[m].status = "POSTED"
                                                             /\ movement[m].session = s
                                                             /\ movement[m].type = y}, "amount")
    OBVIOUS
  <2>1. {m \in PostedOf(s) : movement[m].type = y}
          = {m \in Movements : /\ movement[m].status = "POSTED"
                               /\ movement[m].session = s
                               /\ movement[m].type = y}
    BY DEF PostedOf
  <2> QED BY <2>1 DEF Posted
<1>2. FetchMovementRows(range) = {Row(s, y) : s \in range, y \in {"CASH_IN", "CASH_OUT"}}
  <2> DEFINE Fetched(s, y) ==
               [session |-> s, type |-> y,
                total |-> Total(movement, {m \in Movements : /\ movement[m].status = "POSTED"
                                                             /\ movement[m].session = s
                                                             /\ movement[m].type = y}, "amount")]
  <2>1. FetchMovementRows(range)
          = {Fetched(s, y) : s \in range, y \in {"CASH_IN", "CASH_OUT"}}
    BY DEF FetchMovementRows
  <2>2. \A s \in range, y \in {"CASH_IN", "CASH_OUT"} : Fetched(s, y) = Row(s, y)
    BY <1>1
  <2> HIDE DEF Fetched, Row
  <2> QED BY <2>1, <2>2
<1>3. \A s \in range : own[s] \in Totals /\ entry[s].total = own[s]
  BY SummaryTyped
<1>4. \A r, s \in range : entry[r] = entry[s] => r = s
  OBVIOUS
<1>5. {r \in FetchMovementRows(range) : r.type = type} = RowsOf(entry, range)
  BY <1>2 DEF RowsOf
<1>6. \A s \in range :
        {r \in FetchMovementRows(range) : r.session = s /\ r.type = type} = RowsOf(entry, {s})
  BY <1>2 DEF RowsOf
<1>7. IsFiniteSet(range)
  BY Tables
<1> HIDE DEF entry, own
<1>8. Both({r \in FetchMovementRows(range) : r.type = type}) = TotalOf(range, own)
  <2>1. Both(RowsOf(entry, range)) = TotalOf(range, own)
    BY <1>3, <1>4, <1>7, BothRows
  <2> QED BY <1>5, <2>1
<1>9. ASSUME NEW s \in range
      PROVE  Both({r \in FetchMovementRows(range) : r.session = s /\ r.type = type}) = own[s]
  <2>1. Both(RowsOf(entry, {s})) = TotalOf({s}, own)
    <3>1. /\ \A k \in {s} : entry[k].total = own[k] /\ own[k] \in Totals
          /\ \A j, k \in {s} : entry[j] = entry[k] => j = k
          /\ IsFiniteSet({s})
      BY <1>3, FS_Singleton
    <3> QED BY <3>1, BothRows
  <2>2. TotalOf({s}, own) = own[s]
    BY <1>3, TotalOfOne
  <2> QED BY <1>6, <2>1, <2>2
<1>10. \A s \in range : own[s] = Posted(s, type)
  BY DEF own
<1> QED BY <1>8, <1>9, <1>10 DEF own

\* The expected cash of a store adds up sealed balances and movements to what
\* its sessions expect.
LEMMA ExpectedAgrees ==
    ASSUME ReportInv, NEW range \in SUBSET Existing, NEW s \in range
    PROVE  ExpectedIn(s, FetchMovementRows(range)) = ExpectedCash(s)
<1>0. TypeOK /\ range \in SUBSET Sessions /\ s \in Sessions
  BY DEF ReportInv, Existing
<1>1. CASE session[s].status = "CLOSED"
  <2>1. session[s].expected = ExpectedCash(s) /\ ExpectedCash(s) \in Int
    BY <1>0, <1>1, SummaryTyped DEF ReportInv, SealedBalance
  <2> QED BY <2>1, NullAssumption DEF ExpectedIn
<1>2. CASE session[s].status = "OPEN"
  <2>1. session[s].expected = NULL
    BY <1>0, <1>2 DEF ReportInv, ReportRows, IsOpen
  <2>2. \A type \in {"CASH_IN", "CASH_OUT"} :
          Both({row \in FetchMovementRows(range) : row.session = s /\ row.type = type})
            = Posted(s, type)
    BY <1>0, MovementsAgree
  <2> QED BY <1>0, <2>1, <2>2, ExpectedSplit DEF ExpectedIn
<1>3. session[s].status \in {"OPEN", "CLOSED"}
  <2>1. session[s].status \in {"NONE", "OPEN", "CLOSED"} /\ session[s].status # "NONE"
    BY <1>0 DEF TypeOK, SessionType, SessionRow, Existing
  <2> QED BY <2>1
<1> QED BY <1>1, <1>2, <1>3

\* What is charged in the sessions of a store, by the effect on the cash.
LEMMA PaymentsAgree ==
    ASSUME TypeOK, NEW range \in SUBSET Sessions
    PROVE  /\ Both(FetchPaymentRows(range)).amount
                = SumFunctionOnSet([s \in range |-> Charged(s, "cash") + Charged(s, "other")], range)
           /\ Both({row \in FetchPaymentRows(range) : row.method = "other"}).amount
                = SumFunctionOnSet([s \in range |-> NonCash(s)], range)
<1> DEFINE Of(s, method) == Total(sale, {v \in Sales : sale[v].session = s}, method)
           Row(s, method) == [session |-> s, method |-> method, total |-> Of(s, method)]
           rows == FetchPaymentRows(range)
           cash == [s \in range |-> Row(s, "cash")]
           other == [s \in range |-> Row(s, "other")]
           cashTotal == [s \in range |-> Of(s, "cash")]
           otherTotal == [s \in range |-> Of(s, "other")]
           C == RowsOf(cash, range)
           O == RowsOf(other, range)
<1>1. rows = {Row(s, method) : s \in range, method \in {"cash", "other"}}
  BY DEF FetchPaymentRows
<1>2. \A s \in range, method \in {"cash", "other"} : Of(s, method) \in Totals
  BY Aggregates
<1>3. \A s \in range : /\ Of(s, "cash").amount = Charged(s, "cash")
                       /\ Of(s, "other").amount = Charged(s, "other")
                       /\ NonCash(s) = Charged(s, "other")
  BY DEF Charged, NonCash, Total
<1> HIDE DEF Of
<1>4. rows = C \cup O /\ C \cap O = {}
  BY <1>1 DEF RowsOf
<1>5. {row \in rows : row.method = "other"} = O
  BY <1>1 DEF RowsOf
<1>6. IsFiniteSet(range)
  BY Tables
<1>7. /\ \A s \in range : cash[s].total = cashTotal[s] /\ cashTotal[s] \in Totals
      /\ \A s \in range : other[s].total = otherTotal[s] /\ otherTotal[s] \in Totals
      /\ \A r, s \in range : cash[r] = cash[s] => r = s
      /\ \A r, s \in range : other[r] = other[s] => r = s
      /\ \A row \in C \cup O : row.total \in Totals
  BY <1>2 DEF RowsOf
<1> DEFINE cashes == [s \in range |-> cashTotal[s].amount]
           others == [s \in range |-> otherTotal[s].amount]
           both == [s \in range |-> Charged(s, "cash") + Charged(s, "other")]
<1>8. /\ \A s \in range : cashes[s] \in Int /\ others[s] \in Int
      /\ \A s \in range : both[s] = cashes[s] + others[s]
      /\ \A s \in range : others[s] = [r \in range |-> NonCash(r)][s]
  BY <1>2, <1>3 DEF Totals
<1> HIDE DEF cash, other, cashTotal, otherTotal, rows
<1>9. Both(C) = TotalOf(range, cashTotal) /\ IsFiniteSet(C)
  BY <1>6, <1>7, BothRows
<1>10. Both(O) = TotalOf(range, otherTotal) /\ IsFiniteSet(O)
  BY <1>6, <1>7, BothRows
<1>11. Both(C).amount = SumFunctionOnSet(cashes, range) /\ Both(O).amount = SumFunctionOnSet(others, range)
  BY <1>9, <1>10 DEF TotalOf
<1>12. Both(C \cup O) = Plus(Both(C), Both(O))
  <2> HIDE DEF C, O
  <2> QED BY <1>4, <1>7, <1>9, <1>10, BothUnion
<1>13. Both(rows).amount = SumFunctionOnSet(cashes, range) + SumFunctionOnSet(others, range)
  <2>1. Both(rows) = Plus(Both(C), Both(O))
    BY <1>4, <1>12
  <2> HIDE DEF C, O, cashes, others
  <2> QED BY <1>11, <2>1 DEF Plus
<1> HIDE DEF cashes, others, both, C, O
<1>14. SumFunctionOnSet(both, range) = SumFunctionOnSet(cashes, range) + SumFunctionOnSet(others, range)
  BY <1>6, <1>8, SumPlus
<1>15. SumFunctionOnSet(others, range) = SumFunctionOnSet([s \in range |-> NonCash(s)], range)
  BY <1>6, <1>8, SumSame
<1>16. Both({row \in rows : row.method = "other"}).amount
         = SumFunctionOnSet([s \in range |-> NonCash(s)], range)
  BY <1>5, <1>11, <1>15
<1>17. Both(rows).amount = SumFunctionOnSet(both, range)
  BY <1>13, <1>14
<1> QED BY <1>16, <1>17 DEF rows, both

\* Transfers out of the sessions of a store, by where they went.
LEMMA TransfersOutAgree ==
    ASSUME TypeOK, RowsInv, NEW range \in SUBSET Sessions, NEW sent,
           sent = {row \in FetchTransferOutRows(range) : row.status = "COMPLETED"}
    PROVE  /\ Both(sent) = TotalOf(range, [s \in range |-> SumSessionTransferTotals(s).out])
           /\ Both({row \in sent : ~row.toVault})
                = TotalOf(range, [s \in range |-> SumSessionTransferTotals(s).toRegister])
           /\ Both({row \in sent : row.toVault})
                = TotalOf(range, [s \in range |-> SumSessionTransferTotals(s).toVault])
<1> DEFINE Of(ids) == Total(transfer, ids, "amount")
           Sent(s, vault) == {t \in Transfers : /\ transfer[t].source = s
                                                /\ transfer[t].status = "COMPLETED"
                                                /\ (transfer[t].destination = Vault) = vault}
           Row(s, status, vault) ==
             [session |-> s, status |-> status, toVault |-> vault,
              total |-> Of({t \in Transfers : /\ transfer[t].source = s
                                              /\ transfer[t].status = status
                                              /\ (transfer[t].destination = Vault) = vault})]
           vaults == [s \in range |-> Row(s, "COMPLETED", TRUE)]
           registers == [s \in range |-> Row(s, "COMPLETED", FALSE)]
           V == RowsOf(vaults, range)
           R == RowsOf(registers, range)
           out == [s \in range |-> SumSessionTransferTotals(s).out]
           toRegister == [s \in range |-> SumSessionTransferTotals(s).toRegister]
           toVault == [s \in range |-> SumSessionTransferTotals(s).toVault]
<1>0. /\ transfer \in [Transfers -> TransferRow] /\ IsFiniteSet(range)
      /\ Vault \notin Registers
  BY Tables, NullAssumption DEF TypeOK
<1>1. ASSUME NEW s \in range
      PROVE  /\ out[s] = Plus(toRegister[s], toVault[s])
             /\ toRegister[s] = Of(Sent(s, FALSE)) /\ toVault[s] = Of(Sent(s, TRUE))
             /\ out[s] \in Totals /\ toRegister[s] \in Totals /\ toVault[s] \in Totals
  <2> DEFINE all == {t \in Transfers : transfer[t].source = s /\ transfer[t].status = "COMPLETED"}
  <2>1. /\ out[s] = Of(all)
        /\ toRegister[s] = Of({t \in all : transfer[t].destination \in Registers})
        /\ toVault[s] = Of({t \in all : transfer[t].destination = Vault})
    BY DEF SumSessionTransferTotals
  <2>2. \A t \in all : transfer[t].destination \in Registers \cup {Vault}
    BY DEF RowsInv
  <2>3. /\ {t \in all : transfer[t].destination \in Registers} = Sent(s, FALSE)
        /\ {t \in all : transfer[t].destination = Vault} = Sent(s, TRUE)
    BY <1>0, <2>2
  <2>4. /\ all = Sent(s, FALSE) \cup Sent(s, TRUE) /\ Sent(s, FALSE) \cap Sent(s, TRUE) = {}
        /\ Sent(s, FALSE) \in SUBSET DOMAIN transfer /\ Sent(s, TRUE) \in SUBSET DOMAIN transfer
        /\ all \in SUBSET Transfers
    BY <1>0, <2>2
  <2>5. IsFiniteSet(Sent(s, FALSE)) /\ IsFiniteSet(Sent(s, TRUE))
        /\ \A t \in DOMAIN transfer : transfer[t]["amount"] \in Int
    BY Tables
  <2> HIDE DEF all, Sent
  <2>6. Of(all) = Plus(Of(Sent(s, FALSE)), Of(Sent(s, TRUE)))
    BY <2>4, <2>5, TotalUnion
  <2>7. Of(all) \in Totals /\ Of(Sent(s, FALSE)) \in Totals /\ Of(Sent(s, TRUE)) \in Totals
    BY <1>0, <2>4, Aggregates
  <2> HIDE DEF Of, out, toRegister, toVault
  <2> QED BY <2>1, <2>3, <2>6, <2>7
<1>2. FetchTransferOutRows(range)
        = {Row(s, status, vault) : s \in range, vault \in BOOLEAN,
                                   status \in {"COMPLETED"} \cup OpenTransfer \cup DeadTransfer}
  BY DEF FetchTransferOutRows
<1>3. /\ \A s \in range : vaults[s].total = Of(Sent(s, TRUE)) /\ vaults[s].toVault = TRUE
      /\ \A s \in range : registers[s].total = Of(Sent(s, FALSE)) /\ registers[s].toVault = FALSE
      /\ \A r, s \in range : vaults[r] = vaults[s] => r = s
      /\ \A r, s \in range : registers[r] = registers[s] => r = s
  <2> HIDE DEF Of
  <2> QED OBVIOUS
<1>4. sent = R \cup V
  <2>1. /\ \A s \in range : vaults[s] = Row(s, "COMPLETED", TRUE)
        /\ \A s \in range : registers[s] = Row(s, "COMPLETED", FALSE)
        /\ \A s, status, vault : Row(s, status, vault).status = status
    OBVIOUS
  <2>2. R = RowsOf(registers, range) /\ V = RowsOf(vaults, range)
    OBVIOUS
  <2> HIDE DEF Row, vaults, registers, R, V
  <2>3. ASSUME NEW row \in R \cup V PROVE row \in sent
    <3>1. PICK s \in range, vault \in BOOLEAN : row = Row(s, "COMPLETED", vault)
      BY <2>1, <2>2, <2>3, Zenon DEF RowsOf
    <3>2. row \in FetchTransferOutRows(range)
      BY <1>2, <3>1
    <3> QED BY <2>1, <3>1, <3>2
  <2>4. ASSUME NEW row \in sent PROVE row \in R \cup V
    <3>1. row \in FetchTransferOutRows(range) /\ row.status = "COMPLETED"
      OBVIOUS
    <3>2. PICK s \in range, vault \in BOOLEAN,
               status \in {"COMPLETED"} \cup OpenTransfer \cup DeadTransfer :
                 row = Row(s, status, vault)
      BY <1>2, <3>1
    <3>3. status = "COMPLETED"
      BY <2>1, <3>1, <3>2
    <3>4. CASE vault = TRUE
      BY <2>1, <2>2, <3>2, <3>3, <3>4, Zenon DEF RowsOf
    <3>5. CASE vault = FALSE
      BY <2>1, <2>2, <3>2, <3>3, <3>5, Zenon DEF RowsOf
    <3> QED BY <3>4, <3>5
  <2> QED BY <2>3, <2>4
<1> HIDE DEF out, toRegister, toVault, vaults, registers, Of, Sent, Row
<1>5. /\ {row \in sent : ~row.toVault} = R /\ {row \in sent : row.toVault} = V
      /\ R \cap V = {}
  <2>1. \A row \in R : row.toVault = FALSE
    BY <1>3, Zenon DEF RowsOf
  <2>2. \A row \in V : row.toVault = TRUE
    BY <1>3, Zenon DEF RowsOf
  <2> HIDE DEF R, V
  <2> QED BY <1>4, <2>1, <2>2
<1>6. Both(R) = TotalOf(range, toRegister) /\ IsFiniteSet(R)
  <2>1. \A s \in range : registers[s].total = toRegister[s] /\ toRegister[s] \in Totals
    BY <1>1, <1>3
  <2> QED BY <1>0, <1>3, <2>1, BothRows
<1>7. Both(V) = TotalOf(range, toVault) /\ IsFiniteSet(V)
  <2>1. \A s \in range : vaults[s].total = toVault[s] /\ toVault[s] \in Totals
    BY <1>1, <1>3
  <2> QED BY <1>0, <1>3, <2>1, BothRows
<1>8. \A row \in R \cup V : row.total \in Totals
  <2>1. \A s \in range : registers[s].total \in Totals /\ vaults[s].total \in Totals
    BY <1>1, <1>3
  <2> QED BY <2>1, Zenon DEF RowsOf
<1> HIDE DEF R, V
<1>9. Both(R \cup V) = Plus(Both(R), Both(V))
  BY <1>5, <1>6, <1>7, <1>8, BothUnion
<1>10. TotalOf(range, out) = Plus(TotalOf(range, toRegister), TotalOf(range, toVault))
  BY <1>0, <1>1, TotalOfPlus
<1>11. /\ Both(sent) = TotalOf(range, out)
       /\ Both({row \in sent : ~row.toVault}) = TotalOf(range, toRegister)
       /\ Both({row \in sent : row.toVault}) = TotalOf(range, toVault)
  BY <1>4, <1>5, <1>6, <1>7, <1>9, <1>10
<1> QED BY <1>11 DEF out, toRegister, toVault

\* Transfers that arrive in the sessions of a store.
LEMMA TransfersInAgree ==
    ASSUME TypeOK, NEW range \in SUBSET Sessions
    PROVE  Both(FetchTransferInRows(range))
             = TotalOf(range, [s \in range |-> SumSessionTransferTotals(s).in])
<1> DEFINE in == [s \in range |-> SumSessionTransferTotals(s).in]
           entry == [s \in range |-> [session |-> s, total |-> SumSessionTransferTotals(s).in]]
<1>1. \A s \in range : in[s] \in Totals /\ entry[s].total = in[s]
  <2>1. \A s \in range : SumSessionTransferTotals(s)["in"] \in Totals
    BY SummaryTyped
  <2> QED BY <2>1
<1>2. FetchTransferInRows(range) = RowsOf(entry, range)
  BY DEF FetchTransferInRows, RowsOf, SumSessionTransferTotals
<1>3. \A r, s \in range : entry[r] = entry[s] => r = s
  OBVIOUS
<1>4. IsFiniteSet(range)
  BY Tables
<1> HIDE DEF in, entry
<1>5. Both(FetchTransferInRows(range)) = TotalOf(range, in)
  BY <1>1, <1>2, <1>3, <1>4, BothRows
<1> QED BY <1>5 DEF in

\* Transfers on their way out of the sessions of a store.
LEMMA PendingAgree ==
    ASSUME TypeOK, NEW range \in SUBSET Sessions
    PROVE  Total(transfer, FetchPendingTransfers(range), "amount")
             = TotalOf(range, [s \in range |-> SumSessionTransferTotals(s).pending])
<1> DEFINE open == FetchPendingTransfers(range)
           source == [t \in Transfers |-> transfer[t].source]
           groups == [s \in range |-> Total(transfer, {t \in open : source[t] = s}, "amount")]
           pending == [s \in range |-> SumSessionTransferTotals(s).pending]
<1>1. /\ open \in SUBSET DOMAIN transfer /\ \A t \in open : source[t] \in range
      /\ \A s \in range : {t \in open : source[t] = s} = OpenTransfersOf(s)
  BY Tables DEF FetchPendingTransfers, OpenTransfersOf
<1>2. IsFiniteSet(open) /\ IsFiniteSet(range)
        /\ \A t \in DOMAIN transfer : transfer[t]["amount"] \in Int
  BY <1>1, Tables
<1>3. Total(transfer, open, "amount") = TotalOf(range, groups)
  <2> HIDE DEF open, source
  <2> QED BY <1>1, <1>2, TotalByKey
<1>4. \A s \in range : groups[s] = pending[s]
  <2> HIDE DEF open, source
  <2> QED BY <1>1 DEF SumSessionTransferTotals
<1> HIDE DEF groups, pending
<1>5. Total(transfer, open, "amount") = TotalOf(range, pending)
  BY <1>3, <1>4, TotalOfSame
<1> QED BY <1>5 DEF pending

\* Over all sessions, what leaves a register for another arrives in one.
LEMMA WhatLeavesArrives ==
    ASSUME ReportInv
    PROVE  TotalOf(Existing, [s \in Existing |-> SumSessionTransferTotals(s).in])
             = TotalOf(Existing, [s \in Existing |-> SumSessionTransferTotals(s).toRegister])
<1> DEFINE moved == {t \in Transfers : transfer[t].status = "COMPLETED"
                                         /\ transfer[t].destination \in Registers}
           source == [t \in Transfers |-> transfer[t].source]
           arrival == [t \in Transfers |-> transfer[t].destSession]
           bySource == [s \in Existing |-> Total(transfer, {t \in moved : source[t] = s}, "amount")]
           byArrival == [s \in Existing |-> Total(transfer, {t \in moved : arrival[t] = s}, "amount")]
           in == [s \in Existing |-> SumSessionTransferTotals(s).in]
           toRegister == [s \in Existing |-> SumSessionTransferTotals(s).toRegister]
<1>0. /\ TypeOK /\ RowsInv /\ ReportRows /\ TransferInv
      /\ transfer \in [Transfers -> TransferRow] /\ Existing \in SUBSET Sessions
  BY DEF ReportInv, TypeOK, Existing
<1>1. ASSUME NEW t \in moved
      PROVE  source[t] \in Existing /\ arrival[t] \in Existing
  <2>1. transfer[t].destination # Vault
    BY NullAssumption
  <2> DEFINE out == transfer[t].sourceMovement
             in0 == transfer[t].destMovement
  <2>2. /\ out \in Movements /\ in0 \in Movements
        /\ out \in TransferMovements(t) /\ in0 \in TransferMovements(t)
        /\ movement[out].session = transfer[t].source
        /\ movement[in0].session = transfer[t].destSession
    BY <1>0, <2>1, NullIsNoRow DEF TransferInv
  <2>3. ASSUME NEW m \in Movements, m \in TransferMovements(t)
        PROVE  movement[m].session \in Existing
    <3>1. movement[m].ref = Reference("CASH_TRANSFER", t)
      BY <2>3 DEF TransferMovements
    <3>2. movement[m] # NoMovement
      BY <3>1 DEF NoMovement, Reference
    <3> QED BY <1>0, <3>2 DEF RowsInv, Existing
  <2> QED BY <2>2, <2>3
<1>2. ASSUME NEW s \in Existing
      PROVE  /\ {t \in moved : source[t] = s}
                  = {t \in {r \in Transfers : transfer[r].source = s
                                                /\ transfer[r].status = "COMPLETED"} :
                        transfer[t].destination \in Registers}
             /\ {t \in moved : arrival[t] = s}
                  = {t \in Transfers : transfer[t].destSession = s
                                         /\ transfer[t].status = "COMPLETED"}
  <2>1. \A t \in Transfers : transfer[t].destSession = s => t \in moved
    BY <1>0 DEF ReportRows, RowsInv, NoTransfer
  <2> QED BY <2>1
<1>3. \A s \in Existing : in[s] = byArrival[s] /\ toRegister[s] = bySource[s]
  <2> HIDE DEF moved, source, arrival
  <2> QED BY <1>2 DEF SumSessionTransferTotals
<1>4. /\ moved \in SUBSET DOMAIN transfer /\ IsFiniteSet(moved) /\ IsFiniteSet(Existing)
      /\ \A t \in DOMAIN transfer : transfer[t]["amount"] \in Int
  BY <1>0, Tables
<1>5. Total(transfer, moved, "amount") = TotalOf(Existing, bySource)
  <2> HIDE DEF moved, source
  <2>1. \A t \in moved : source[t] \in Existing
    BY <1>1
  <2> QED BY <1>4, <2>1, TotalByKey
<1>6. Total(transfer, moved, "amount") = TotalOf(Existing, byArrival)
  <2> HIDE DEF moved, arrival
  <2>1. \A t \in moved : arrival[t] \in Existing
    BY <1>1
  <2> QED BY <1>4, <2>1, TotalByKey
<1> HIDE DEF in, toRegister, bySource, byArrival
<1>7. TotalOf(Existing, in) = TotalOf(Existing, toRegister)
  BY <1>3, <1>5, <1>6, TotalOfSame
<1> QED BY <1>7 DEF in, toRegister

SummariesOf(range) == {SessionSummary(s) : s \in range}

\* A column of the summaries of some sessions, added up.
LEMMA SumOfSummaries ==
    ASSUME TypeOK, NEW range \in SUBSET Sessions, NEW field, NEW value,
           \A s \in range : SessionSummary(s)[field] = value[s] /\ value[s] \in Int
    PROVE  SumFunction([one \in SummariesOf(range) |-> one[field]])
             = SumFunctionOnSet(value, range)
<1> DEFINE summary == [s \in range |-> SessionSummary(s)]
           column == [one \in SummariesOf(range) |-> one[field]]
           values == [s \in range |-> column[summary[s]]]
<1>1. /\ SummariesOf(range) = {summary[s] : s \in range}
      /\ \A s \in range : summary[s] = SessionSummary(s) /\ summary[s] \in SummariesOf(range)
  BY DEF SummariesOf
<1>2. \A r, s \in range : summary[r] = summary[s] => r = s
  <2>1. \A s \in range : SessionSummary(s).session = s
    BY DEF SessionSummary
  <2> HIDE DEF summary
  <2> QED BY <1>1, <2>1
<1> HIDE DEF summary
<1>3. \A s \in range : values[s] = value[s] /\ column[summary[s]] \in Int
  BY <1>1
<1>4. IsFiniteSet(range) /\ DOMAIN column = SummariesOf(range)
  BY Tables
<1>5. SumFunction(column) = SumFunctionOnSet(column, SummariesOf(range))
  BY <1>4, SumWhole
<1> HIDE DEF column
<1>6. SumFunctionOnSet(column, {summary[s] : s \in range}) = SumFunctionOnSet(values, range)
  BY <1>2, <1>3, <1>4, SumImage
<1> HIDE DEF values
<1>7. SumFunctionOnSet(values, range) = SumFunctionOnSet(value, range)
  BY <1>3, <1>4, SumSame
<1>8. SumFunction(column) = SumFunctionOnSet(value, range)
  BY <1>1, <1>5, <1>6, <1>7
<1> QED BY <1>8 DEF column

\* An aggregate of theirs, added up.
LEMMA BothOfSummaries ==
    ASSUME TypeOK, NEW range \in SUBSET Sessions, NEW field, NEW T,
           \A s \in range : SessionSummary(s)[field] = T[s] /\ T[s] \in Totals
    PROVE  Both({[session |-> one.session, total |-> one[field]] : one \in SummariesOf(range)})
             = TotalOf(range, T)
<1> DEFINE entry == [s \in range |-> [session |-> s, total |-> SessionSummary(s)[field]]]
           rows == {[session |-> one.session, total |-> one[field]] : one \in SummariesOf(range)}
<1>1. \A s \in range : SessionSummary(s).session = s
  BY DEF SessionSummary
<1>2. rows = RowsOf(entry, range)
  BY <1>1 DEF RowsOf, SummariesOf
<1>3. /\ \A s \in range : entry[s].total = T[s] /\ T[s] \in Totals
      /\ \A r, s \in range : entry[r] = entry[s] => r = s
      /\ IsFiniteSet(range)
  BY Tables
<1> HIDE DEF entry, rows
<1>4. Both(rows) = TotalOf(range, T)
  BY <1>2, <1>3, BothRows
<1> QED BY <1>4 DEF rows

\* And one of their totals of transfers.
LEMMA BothOfTransfers ==
    ASSUME TypeOK, NEW range \in SUBSET Sessions, NEW field, NEW T,
           \A s \in range : SumSessionTransferTotals(s)[field] = T[s] /\ T[s] \in Totals
    PROVE  Both({[session |-> one.session, total |-> one.transfers[field]]
                   : one \in SummariesOf(range)})
             = TotalOf(range, T)
<1> DEFINE entry == [s \in range |-> [session |-> s, total |-> SumSessionTransferTotals(s)[field]]]
           rows == {[session |-> one.session, total |-> one.transfers[field]]
                      : one \in SummariesOf(range)}
<1>1. \A s \in range : /\ SessionSummary(s).session = s
                       /\ SessionSummary(s).transfers = SumSessionTransferTotals(s)
  BY DEF SessionSummary
<1>2. rows = RowsOf(entry, range)
  BY <1>1 DEF RowsOf, SummariesOf
<1>3. /\ \A s \in range : entry[s].total = T[s] /\ T[s] \in Totals
      /\ \A r, s \in range : entry[r] = entry[s] => r = s
      /\ IsFiniteSet(range)
  BY Tables
<1> HIDE DEF entry, rows
<1>4. Both(rows) = TotalOf(range, T)
  BY <1>2, <1>3, BothRows
<1> QED BY <1>4 DEF rows

\* The expected cash of a store is explained by its movements.
LEMMA StoreExplained ==
    ASSUME TypeOK, NEW range \in SUBSET Sessions
    PROVE  SumFunctionOnSet([s \in range |-> ExpectedCash(s)], range)
             = SumFunctionOnSet([s \in range |-> session[s].opening], range)
                 + TotalOf(range, [s \in range |-> Posted(s, "CASH_IN")]).amount
                 - TotalOf(range, [s \in range |-> Posted(s, "CASH_OUT")]).amount
<1> DEFINE opening == [s \in range |-> session[s].opening]
           in == [s \in range |-> [r \in range |-> Posted(r, "CASH_IN")][s].amount]
           out == [s \in range |-> [r \in range |-> Posted(r, "CASH_OUT")][s].amount]
           expected == [s \in range |-> ExpectedCash(s)]
           covered == [s \in range |-> opening[s] + in[s]]
<1>1. \A s \in range :
        /\ opening[s] \in Int /\ in[s] \in Int /\ out[s] \in Int /\ expected[s] \in Int
        /\ covered[s] = opening[s] + in[s] /\ covered[s] = expected[s] + out[s]
  <2> SUFFICES ASSUME NEW s \in range
               PROVE  /\ session[s].opening \in Int /\ Posted(s, "CASH_IN").amount \in Int
                      /\ Posted(s, "CASH_OUT").amount \in Int /\ ExpectedCash(s) \in Int
                      /\ session[s].opening + Posted(s, "CASH_IN").amount
                           = ExpectedCash(s) + Posted(s, "CASH_OUT").amount
    OBVIOUS
  <2>1. /\ Posted(s, "CASH_IN") \in Totals /\ Posted(s, "CASH_OUT") \in Totals
        /\ ExpectedCash(s) \in Int /\ session[s].opening \in Int
    BY SummaryTyped, Tables
  <2>2. Posted(s, "CASH_IN").amount \in Int /\ Posted(s, "CASH_OUT").amount \in Int
    BY <2>1 DEF Totals
  <2> QED BY <2>1, <2>2, ExpectedSplit
<1>2. IsFiniteSet(range)
  BY Tables
<1>3. /\ TotalOf(range, [s \in range |-> Posted(s, "CASH_IN")]).amount = SumFunctionOnSet(in, range)
      /\ TotalOf(range, [s \in range |-> Posted(s, "CASH_OUT")]).amount = SumFunctionOnSet(out, range)
  BY DEF TotalOf
<1> HIDE DEF opening, in, out, expected, covered
<1>4. SumFunctionOnSet(covered, range) = SumFunctionOnSet(opening, range) + SumFunctionOnSet(in, range)
  BY <1>1, <1>2, SumPlus
<1>5. SumFunctionOnSet(covered, range) = SumFunctionOnSet(expected, range) + SumFunctionOnSet(out, range)
  BY <1>1, <1>2, SumPlus
<1>6. /\ SumFunctionOnSet(opening, range) \in Int /\ SumFunctionOnSet(in, range) \in Int
      /\ SumFunctionOnSet(out, range) \in Int /\ SumFunctionOnSet(expected, range) \in Int
  BY <1>1, <1>2, SumInt
<1>7. SumFunctionOnSet(expected, range)
        = SumFunctionOnSet(opening, range) + SumFunctionOnSet(in, range) - SumFunctionOnSet(out, range)
  <2> DEFINE a == SumFunctionOnSet(opening, range)
             b == SumFunctionOnSet(in, range)
             c == SumFunctionOnSet(out, range)
             d == SumFunctionOnSet(expected, range)
  <2>1. a \in Int /\ b \in Int /\ c \in Int /\ d \in Int /\ a + b = d + c
    BY <1>4, <1>5, <1>6
  <2> HIDE DEF a, b, c, d
  <2>2. d = a + b - c
    BY <2>1
  <2> QED BY <2>2 DEF a, b, c, d
<1> QED BY <1>3, <1>7 DEF opening, expected

\* What SummariesAgree says of one range, in the order it says it.
LEMMA RangeAgrees ==
    ASSUME ReportInv, NEW range \in SUBSET Existing
    PROVE  LET store == StoreSummary(range)
               of    == SummariesOf(range)
               Sum(field)   == SumFunction([one \in of |-> one[field]])
               Moves(field) == Both({[session |-> one.session, total |-> one.transfers[field]] : one \in of})
           IN  /\ \A field \in {"expectedCash", "payments", "nonCash"} : store[field] = Sum(field)
               /\ \A field \in {"cashIn", "cashOut"} :
                     store[field] = Both({[session |-> one.session, total |-> one[field]] : one \in of})
               /\ \A field \in {"out", "toRegister", "toVault", "in"} :
                     store.transfers[field] = Moves(field)
               /\ Total(transfer, store.pendingTransfers, "amount") = Moves("pending")
               /\ store.expectedCash
                    = store.opening + store.cashIn.amount - store.cashOut.amount
               /\ range = Existing => store.transfers.in = store.transfers.toRegister
<1> DEFINE store == StoreSummary(range)
           of == SummariesOf(range)
           Sum(field) == SumFunction([one \in of |-> one[field]])
           Moves(field) == Both({[session |-> one.session, total |-> one.transfers[field]] : one \in of})
           Shown(field) == Both({[session |-> one.session, total |-> one[field]] : one \in of})
           movements == FetchMovementRows(range)
           payments == FetchPaymentRows(range)
           outs == FetchTransferOutRows(range)
           ins == FetchTransferInRows(range)
           sent == {row \in outs : row.status = "COMPLETED"}
           expected == [s \in range |-> ExpectedCash(s)]
           charged == [s \in range |-> Charged(s, "cash") + Charged(s, "other")]
           other == [s \in range |-> NonCash(s)]
           cashIn == [s \in range |-> Posted(s, "CASH_IN")]
           cashOut == [s \in range |-> Posted(s, "CASH_OUT")]
<1>0. TypeOK /\ RowsInv /\ range \in SUBSET Sessions
  BY DEF ReportInv, Existing
<1>1. /\ store.opening = SumFunction([s \in range |-> session[s].opening])
      /\ store.expectedCash = SumFunction([s \in range |-> ExpectedIn(s, movements)])
      /\ store.cashIn = Both({row \in movements : row.type = "CASH_IN"})
      /\ store.cashOut = Both({row \in movements : row.type = "CASH_OUT"})
      /\ store.payments = Both(payments).amount
      /\ store.nonCash = Both({row \in payments : row.method = "other"}).amount
      /\ store.transfers.out = Both(sent)
      /\ store.transfers.toRegister = Both({row \in sent : ~row.toVault})
      /\ store.transfers.toVault = Both({row \in sent : row.toVault})
      /\ store.transfers.in = Both(ins)
      /\ store.pendingTransfers = FetchPendingTransfers(range)
  BY DEF StoreSummary, AggregateStoreSummary
<1> HIDE DEF store
<1>2. store.expectedCash = SumFunctionOnSet(expected, range)
  <2>1. [s \in range |-> ExpectedIn(s, movements)] = expected
    BY ExpectedAgrees
  <2> HIDE DEF movements
  <2>2. SumFunction(expected) = SumFunctionOnSet(expected, range)
    BY SumWhole
  <2> QED BY <1>1, <2>1, <2>2
<1>3. store.opening = SumFunctionOnSet([s \in range |-> session[s].opening], range)
  BY <1>1, SumWhole
<1>4. store.cashIn = TotalOf(range, cashIn) /\ store.cashOut = TotalOf(range, cashOut)
  BY <1>0, <1>1, MovementsAgree
<1>5. /\ store.payments = SumFunctionOnSet(charged, range)
      /\ store.nonCash = SumFunctionOnSet(other, range)
  BY <1>0, <1>1, PaymentsAgree
<1>6. ASSUME NEW s \in range
      PROVE  /\ SessionSummary(s)["expectedCash"] = expected[s] /\ expected[s] \in Int
             /\ SessionSummary(s)["payments"] = charged[s] /\ charged[s] \in Int
             /\ SessionSummary(s)["nonCash"] = other[s] /\ other[s] \in Int
             /\ SessionSummary(s)["cashIn"] = cashIn[s] /\ cashIn[s] \in Totals
             /\ SessionSummary(s)["cashOut"] = cashOut[s] /\ cashOut[s] \in Totals
  <2>1. /\ Charged(s, "cash") \in Int /\ Charged(s, "other") \in Int /\ ExpectedCash(s) \in Int
        /\ Posted(s, "CASH_IN") \in Totals /\ Posted(s, "CASH_OUT") \in Totals
    BY <1>0, SummaryTyped
  <2>2. NonCash(s) = Charged(s, "other")
    BY DEF NonCash, Charged, Total
  <2> QED BY <2>1, <2>2 DEF SessionSummary
<1> HIDE DEF expected, charged, other, cashIn, cashOut, of
<1>7. \A field \in {"expectedCash", "payments", "nonCash"} : store[field] = Sum(field)
  <2>1. store["expectedCash"] = Sum("expectedCash")
    BY <1>0, <1>2, <1>6, SumOfSummaries DEF of
  <2>2. store["payments"] = Sum("payments")
    BY <1>0, <1>5, <1>6, SumOfSummaries DEF of
  <2>3. store["nonCash"] = Sum("nonCash")
    BY <1>0, <1>5, <1>6, SumOfSummaries DEF of
  <2> HIDE DEF Sum
  <2> QED BY <2>1, <2>2, <2>3
<1>8. \A field \in {"cashIn", "cashOut"} : store[field] = Shown(field)
  <2>1. store["cashIn"] = Shown("cashIn")
    BY <1>0, <1>4, <1>6, BothOfSummaries DEF of
  <2>2. store["cashOut"] = Shown("cashOut")
    BY <1>0, <1>4, <1>6, BothOfSummaries DEF of
  <2> HIDE DEF Shown
  <2> QED BY <2>1, <2>2
<1>9. ASSUME NEW field \in {"out", "toRegister", "toVault", "in", "pending"}
      PROVE  Moves(field) = TotalOf(range, [s \in range |-> SumSessionTransferTotals(s)[field]])
  <2> DEFINE T == [s \in range |-> SumSessionTransferTotals(s)[field]]
  <2>1. \A s \in range : SumSessionTransferTotals(s)[field] = T[s] /\ T[s] \in Totals
    BY <1>0, SummaryTyped
  <2> HIDE DEF T
  <2>2. Moves(field) = TotalOf(range, T)
    BY <1>0, <2>1, BothOfTransfers DEF of
  <2> QED BY <2>2 DEF T
<1> HIDE DEF Moves, Sum, Shown
<1>10. \A field \in {"out", "toRegister", "toVault", "in"} : store.transfers[field] = Moves(field)
  <2>1. /\ Both(sent) = TotalOf(range, [s \in range |-> SumSessionTransferTotals(s).out])
        /\ Both({row \in sent : ~row.toVault})
             = TotalOf(range, [s \in range |-> SumSessionTransferTotals(s).toRegister])
        /\ Both({row \in sent : row.toVault})
             = TotalOf(range, [s \in range |-> SumSessionTransferTotals(s).toVault])
    BY <1>0, TransfersOutAgree
  <2>2. Both(ins) = TotalOf(range, [s \in range |-> SumSessionTransferTotals(s).in])
    BY <1>0, TransfersInAgree
  <2> HIDE DEF sent, ins
  <2>3. store.transfers["out"] = Moves("out")
    BY <1>1, <1>9, <2>1
  <2>4. store.transfers["toRegister"] = Moves("toRegister")
    BY <1>1, <1>9, <2>1
  <2>5. store.transfers["toVault"] = Moves("toVault")
    BY <1>1, <1>9, <2>1
  <2>6. store.transfers["in"] = Moves("in")
    BY <1>1, <1>9, <2>2
  <2> QED BY <2>3, <2>4, <2>5, <2>6
<1>11. Total(transfer, store.pendingTransfers, "amount") = Moves("pending")
  BY <1>0, <1>1, <1>9, PendingAgree
<1>12. store.expectedCash = store.opening + store.cashIn.amount - store.cashOut.amount
  BY <1>0, <1>2, <1>3, <1>4, StoreExplained DEF expected, cashIn, cashOut
<1>13. range = Existing => store.transfers.in = store.transfers.toRegister
  <2> SUFFICES ASSUME range = Existing PROVE store.transfers.in = store.transfers.toRegister
    OBVIOUS
  <2>1. TotalOf(range, [s \in range |-> SumSessionTransferTotals(s).in])
          = TotalOf(range, [s \in range |-> SumSessionTransferTotals(s).toRegister])
    BY WhatLeavesArrives
  <2>2. /\ store.transfers["in"] = Moves("in")
        /\ store.transfers["toRegister"] = Moves("toRegister")
    BY <1>10
  <2> QED BY <1>9, <2>1, <2>2
<1> QED BY <1>7, <1>8, <1>10, <1>11, <1>12, <1>13 DEF store, of, Sum, Moves, Shown

\* Whatever sessions a report selects, its totals are those of its sessions,
\* its cash is explained by its movements, and what registers sent each other
\* has arrived.
THEOREM SummariesAlwaysAgree == Spec => []SummariesAgree
<1>1. ReportInv => SummariesAgree
  <2> SUFFICES ASSUME ReportInv PROVE SummariesAgree
    OBVIOUS
  <2> QED BY RangeAgrees DEF SummariesAgree, SummariesOf, Existing
<1>2. TypeOK /\ RowsInv /\ ReportRows /\ TransferInv /\ SealedBalance => ReportInv
  BY DEF ReportInv
<1> QED BY <1>1, <1>2, RowsHold, ReportRowsHold, TransferInvHolds, SealedBalanceHolds, PTL
==============================================================================
