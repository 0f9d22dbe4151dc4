---------------------------- MODULE CashSessions ----------------------------
(***************************************************************************)
(* CashRegistersService (registers, openSession, closeSession,             *)
(* forceCloseSession) and CashRegisterSessionUsersService (shifts).        *)
(* forceCloseSession reads the session, checks that it is OPEN and only    *)
(* then locks the row by id, without checking the status again: two steps. *)
(***************************************************************************)
EXTENDS CashDesk

\* update: only the status matters here; an open session does not stop it.
UpdateRegister(r, status) ==
    /\ register[r] # status
    /\ register' = [register EXCEPT ![r] = status]
    /\ UNCHANGED <<session, onShift, movement, sale, transfer, closing,
                   count, forcing>>

\* No OPEN session of the register: the query of openSession under the lock of
\* the register row, and the partial unique index that backs it.
NoOpenSession(r) ==
    \A s \in Sessions : ~(IsOpen(s) /\ session[s].register = r)

\* openSession inserts the session and puts its opener on shift.  With a
\* session already open it answers that row or 409 and writes nothing.
OpenSession(r, u, opening) ==
    /\ register[r] = "ACTIVE"
    /\ NoOpenSession(r)
    /\ \E s \in NextId(Unused(session)) :
         /\ session' = [session EXCEPT ![s] =
                          [status |-> "OPEN", register |-> r,
                           opening |-> opening, expected |-> NULL,
                           counted |-> NULL]]
         /\ onShift' = [onShift EXCEPT ![s] = {u}]
    /\ UNCHANGED <<register, movement, sale, transfer, closing, count, forcing>>

\* sealSession: the session row and the shifts still running on it.
SealSession(s, counted) ==
    /\ session' = Sealed(s, counted)
    /\ onShift' = [onShift EXCEPT ![s] = {}]
    /\ UNCHANGED <<register, movement, sale, transfer, closing, count>>

\* closeSession: neither a PENDING closing nor a DRAFT count is looked at.
CloseSession(s, counted) ==
    /\ IsOpen(s)
    /\ OpenTransfersOf(s) = {}
    /\ SealSession(s, counted)
    /\ UNCHANGED forcing

\* forceCloseSession up to its unlocked read: anything but OPEN is 409.
ForceCloseRead(u, s) ==
    /\ forcing[u] = NULL
    /\ IsOpen(s)
    /\ forcing' = [forcing EXCEPT ![u] = s]
    /\ UNCHANGED <<register, session, onShift, movement, sale, transfer,
                   closing, count>>

\* Mutation: only the closing in progress stops a forced close.
ForceCloseAllowed_Transfers(s) == PendingClosings(s) = {}

ForceCloseAllowed(s) == OpenTransfersOf(s) = {} /\ PendingClosings(s) = {}

\* forceCloseSession once the row is locked: it seals without a count, ...
ForceCloseSeal(u) ==
    /\ forcing[u] # NULL
    /\ ForceCloseAllowed(forcing[u])
    /\ SealSession(forcing[u], NULL)
    /\ forcing' = [forcing EXCEPT ![u] = NULL]

\* ... or a transfer or a closing in progress makes it roll back.
ForceCloseReject(u) ==
    /\ forcing[u] # NULL
    /\ ~ForceCloseAllowed(forcing[u])
    /\ forcing' = [forcing EXCEPT ![u] = NULL]
    /\ UNCHANGED <<register, session, onShift, movement, sale, transfer,
                   closing, count>>

\* CashRegisterSessionUsersService.assign
AssignOperator(s, u) ==
    /\ IsOpen(s)
    /\ u \notin onShift[s]
    /\ onShift' = [onShift EXCEPT ![s] = @ \cup {u}]
    /\ UNCHANGED <<register, session, movement, sale, transfer, closing,
                   count, forcing>>

\* CashRegisterSessionUsersService.registerExit
ExitOperator(s, u) ==
    /\ IsOpen(s)
    /\ u \in onShift[s]
    /\ onShift' = [onShift EXCEPT ![s] = @ \ {u}]
    /\ UNCHANGED <<register, session, movement, sale, transfer, closing,
                   count, forcing>>

SessionStep ==
    \/ \E r \in Registers, status \in RegisterStatus : UpdateRegister(r, status)
    \/ \E r \in Registers, u \in Operators, b \in Openings : OpenSession(r, u, b)
    \/ \E s \in Sessions, b \in Counts : CloseSession(s, b)
    \/ \E u \in Approvers, s \in Sessions : ForceCloseRead(u, s)
    \/ \E u \in Approvers : ForceCloseSeal(u)
    \/ \E u \in Approvers : ForceCloseReject(u)
    \/ \E s \in Sessions, u \in Operators : AssignOperator(s, u)
    \/ \E s \in Sessions, u \in Operators : ExitOperator(s, u)
=============================================================================
