------------------------------ MODULE CashDesk ------------------------------
(***************************************************************************)
(* The tables of src/src/cash-registers and the queries its services share *)
(* (cash-registers.helpers.ts).  Every service method runs in one          *)
(* PostgreSQL transaction (TenantContextService.transaction) and takes the *)
(* row of the session it works on FOR UPDATE, re-evaluating "status = OPEN" *)
(* after the wait; a transaction that holds that row is therefore one      *)
(* step here.  The exceptions, where the code reads before it locks, are   *)
(* split by the modules that extend this one.                              *)
(*                                                                         *)
(* Money is an integer number of cents: the DTOs admit two decimals        *)
(* (@IsNumber({maxDecimalPlaces: 2})) and the columns are decimal(12,2),   *)
(* on which toMoney changes nothing.  Row ids are UUIDs in the code and    *)
(* serial numbers here (NextId), so a state is not counted once per way    *)
(* of naming its rows.  A row not inserted yet has status "NONE".          *)
(***************************************************************************)
EXTENDS Integers, FiniteSets, Functions

CONSTANTS
    Registers,      \* the cash registers of the tenant
    Vault,          \* the destination VAULT of a transfer
    Users,          \* users with access to the store of the registers
    Approvers,      \* those whose role isCashApprover accepts
    Operators,      \* those who open sessions and take shifts
    Amounts,        \* the amounts a request may carry, in cents
    Openings,       \* the opening balances a request may carry
    Counts,         \* the counted amounts a request may carry
    Denominations,  \* the bills and coins, each named by its value
    MaxQuantity,    \* bound: pieces of one denomination in a count
    RegisterStatus, \* bound: the CashRegisterStatus values in use
    MaxSessions,    \* bounds: rows a table may come to hold
    MaxMovements,
    MaxSales,
    MaxTransfers,
    MaxClosings,
    MaxCashCounts,
    NULL            \* SQL NULL

ASSUME RoleAssumption == Approvers \subseteq Users /\ Operators \subseteq Users
ASSUME MoneyAssumption ==
    /\ Amounts \subseteq {a \in Int : a > 0}
    /\ Openings \subseteq Nat
    /\ Counts \subseteq Nat
    /\ Denominations \subseteq {d \in Int : d > 0}
    /\ MaxQuantity \in Nat
ASSUME BoundAssumption ==
    /\ "ACTIVE" \in RegisterStatus
    /\ RegisterStatus \subseteq {"ACTIVE", "INACTIVE", "MAINTENANCE"}
    /\ {MaxSessions, MaxMovements, MaxSales, MaxTransfers, MaxClosings,
        MaxCashCounts} \subseteq Nat
ASSUME NullAssumption ==
    /\ NULL \notin Int \cup Registers \cup Users \cup {Vault}
    /\ Vault \notin Registers

VARIABLES
    register,   \* CashRegister.status
    session,    \* CashRegisterSession rows
    onShift,    \* users with an active (leftAt IS NULL) CashRegisterSessionUser
    movement,   \* CashMovement rows
    sale,       \* what a Sale and its Payments tell the cash desk
    transfer,   \* CashTransfer rows
    closing,    \* CashRegisterClosing rows
    count,      \* CashCount rows with their CashCountItems
    forcing     \* session an approver's forceCloseSession has read, not locked

vars == <<register, session, onShift, movement, sale, transfer, closing,
          count, forcing>>

Sessions   == 1..MaxSessions
Movements  == 1..MaxMovements
Sales      == 1..MaxSales
Transfers  == 1..MaxTransfers
Closings   == 1..MaxClosings
CashCounts == 1..MaxCashCounts

-----------------------------------------------------------------------------
(* Rows.  The type of a row with columns that hold a computed sum has them  *)
(* as parameters: it says nothing of those columns.                        *)

SessionRow(expected, counted) ==
    [status   : {"NONE", "OPEN", "CLOSED"},
     register : Registers \cup {NULL},
     opening  : Int,
     expected : {expected},
     counted  : {counted}]

NoSession == [status |-> "NONE", register |-> NULL, opening |-> 0,
              expected |-> NULL, counted |-> NULL]

\* referenceType and referenceID of a movement
Reference(kind, id) == [kind |-> kind, id |-> id]
References ==
    [kind : {"MANUAL", "SALE", "CASH_TRANSFER", "CASH_MOVEMENT"},
     id   : Nat]

MovementRow ==
    [status  : {"NONE", "POSTED", "VOIDED"},
     session : Sessions \cup {NULL},
     type    : {"CASH_IN", "CASH_OUT"},
     amount  : Nat,
     ref     : References]

NoMovement == [status |-> "NONE", session |-> NULL, type |-> "CASH_IN",
               amount |-> 0, ref |-> Reference("MANUAL", 0)]

SaleRow ==
    [status  : {"NONE", "PAID"},
     session : Sessions \cup {NULL},
     total   : Nat,
     cash    : Nat,
     other   : Nat]

NoSale == [status |-> "NONE", session |-> NULL, total |-> 0, cash |-> 0,
           other |-> 0]

OpenTransfer == {"PENDING", "APPROVED"}
DeadTransfer == {"REJECTED", "CANCELLED"}

TransferRow ==
    [status      : {"NONE", "COMPLETED"} \cup OpenTransfer \cup DeadTransfer,
     source      : Sessions \cup {NULL},
     destination : Registers \cup {Vault, NULL},
     destSession : Sessions \cup {NULL},
     amount      : Nat,
     requestedBy : Users \cup {NULL},
     approvedBy  : Users \cup {NULL},
     sourceMovement : Movements \cup {NULL},
     destMovement   : Movements \cup {NULL}]

NoTransfer ==
    [status |-> "NONE", source |-> NULL, destination |-> NULL,
     destSession |-> NULL, amount |-> 0, requestedBy |-> NULL,
     approvedBy |-> NULL, sourceMovement |-> NULL, destMovement |-> NULL]

ClosingRow(expected, total, counted) ==
    [status   : {"NONE", "PENDING", "COMPLETED", "REJECTED"},
     session  : Sessions \cup {NULL},
     expected : {expected},
     total    : {total},
     counted  : {counted}]

NoClosing == [status |-> "NONE", session |-> NULL, expected |-> NULL,
              total |-> NULL, counted |-> NULL]

CountRow(total) ==
    [status  : {"NONE", "DRAFT", "COMPLETED", "CANCELLED"},
     closing : Closings \cup {NULL},
     items   : [Denominations -> 0..MaxQuantity],
     total   : {total}]

NoItems == [d \in Denominations |-> 0]
NoCount == [status |-> "NONE", closing |-> NULL, items |-> NoItems,
            total |-> 0]

-----------------------------------------------------------------------------
(* Queries.                                                                *)

Unused(table)  == {i \in DOMAIN table : table[i].status = "NONE"}
NextId(unused) == {i \in unused : \A j \in unused : i <= j}

IsOpen(s) == session[s].status = "OPEN"

\* The rows sumSessionCashMovements selects, and what each adds.
PostedOf(s) ==
    {m \in Movements : movement[m].status = "POSTED" /\ movement[m].session = s}

Signed(row) == IF row.type = "CASH_IN" THEN row.amount ELSE 0 - row.amount

NetCash(s) == SumFunction([m \in PostedOf(s) |-> Signed(movement[m])])

ExpectedCash(s) == session[s].opening + NetCash(s)

\* sumSessionPaymentsByMethod, restricted to methods with affectsCash = false.
NonCash(s) ==
    SumFunction([v \in {w \in Sales : sale[w].session = s} |-> sale[v].other])

OpenTransfersOf(s) ==
    {t \in Transfers : transfer[t].source = s /\ transfer[t].status \in OpenTransfer}

PendingClosings(s) ==
    {c \in Closings : closing[c].session = s /\ closing[c].status = "PENDING"}

CountsOf(c, status) ==
    {k \in CashCounts : count[k].closing = c /\ count[k].status = status}

\* CashMovementsService.recordSystemMovement: every CashMovement the system
\* writes goes through it, POSTED from birth.
Posting(s, type, amount, ref) ==
    [status |-> "POSTED", session |-> s, type |-> type, amount |-> amount,
     ref |-> ref]

\* Sealing of the session row: CashRegistersService.sealSession and the end of
\* CashClosingsService.completeClosing write the same columns.
Sealed(s, counted) ==
    [session EXCEPT ![s].status = "CLOSED",
                    ![s].expected = ExpectedCash(s),
                    ![s].counted = counted]

Init ==
    /\ register = [r \in Registers |-> "ACTIVE"]
    /\ session  = [s \in Sessions |-> NoSession]
    /\ onShift  = [s \in Sessions |-> {}]
    /\ movement = [m \in Movements |-> NoMovement]
    /\ sale     = [v \in Sales |-> NoSale]
    /\ transfer = [t \in Transfers |-> NoTransfer]
    /\ closing  = [c \in Closings |-> NoClosing]
    /\ count    = [k \in CashCounts |-> NoCount]
    /\ forcing  = [u \in Approvers |-> NULL]

SessionType ==
    /\ session = [s \in Sessions |-> session[s]]
    /\ \A s \in Sessions :
         session[s] \in SessionRow(session[s].expected, session[s].counted)

ClosingType ==
    /\ closing = [c \in Closings |-> closing[c]]
    /\ \A c \in Closings :
         closing[c] \in ClosingRow(closing[c].expected, closing[c].total,
                                   closing[c].counted)

CountType ==
    /\ count = [k \in CashCounts |-> count[k]]
    /\ \A k \in CashCounts : count[k] \in CountRow(count[k].total)

\* Every row has the columns of its entity, with values of their enums and
\* references to rows of the right table.
TypeOK ==
    /\ register \in [Registers -> RegisterStatus]
    /\ SessionType
    /\ onShift  \in [Sessions -> SUBSET Users]
    /\ movement \in [Movements -> MovementRow]
    /\ sale     \in [Sales -> SaleRow]
    /\ transfer \in [Transfers -> TransferRow]
    /\ ClosingType
    /\ CountType
    /\ forcing  \in [Approvers -> Sessions \cup {NULL}]
=============================================================================
