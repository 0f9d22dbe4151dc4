--------------------------- MODULE AttendanceRecords ---------------------------
(***************************************************************************)
(* The staff of one store: assignments, the overrides of an employee's     *)
(* attendance with their audit log, and the closures of the store.  Ranges *)
(* are compared under an advisory lock, of the employee for overrides and  *)
(* of the store for closures; assignments are checked before it is taken,  *)
(* and a removal takes none.                                               *)
(***************************************************************************)
EXTENDS TenantAccounts, StaffCalendar

CONSTANTS
    Overrides, Closures,   \* bound: rows
    NewOverrides,          \* bound: ranges and types recorded
    OverrideChanges,       \* bound: what an update changes
    ClosureRequests,       \* bound: the ranges of a closure, or of a bulk
    MaxAssignments         \* bound: rows

OverrideTypes ==
    {"VACATION", "MEDICAL_LEAVE", "PERMIT", "JUSTIFIED_ABSENCE", "UNJUSTIFIED_ABSENCE",
     "PRESENT_ON_CLOSED_DAY"}

\* HrAttendanceOverride rows, as they are recorded.
OverrideRow == [employee : Users, from : Days, to : Days, type : OverrideTypes]

\* The days of a bulk are distinct.
ASSUME AttendanceAssumption ==
    /\ IsFiniteSet(Overrides) /\ NULL \notin Overrides
    /\ NewOverrides \subseteq OverrideRow
    /\ \A change \in OverrideChanges :
          /\ DOMAIN change \subseteq {"from", "to", "type"}
          /\ \A f \in DOMAIN change :
                change[f] \in (IF f = "type" THEN OverrideTypes ELSE Days)
    /\ \A ranges \in ClosureRequests : \A r, s \in ranges :
          r # s => ~RangesOverlap(r, s)

VARIABLES
    override,  \* HrAttendanceOverride rows, or NULL
    closure,   \* HrStoreClosure rows (cancelled or not), or NULL
    audit      \* HrAttendanceAuditLog of each override, in order

hrVars == <<override, closure, audit>>

AttendanceInit ==
    /\ override = [o \in Overrides |-> NULL]
    /\ closure = [c \in Closures |-> NULL]
    /\ audit = [o \in Overrides |-> <<>>]

-----------------------------------------------------------------------------
(* userstores.service *)

OpenRows(u) == {i \in DOMAIN assignment : assignment[i].user = u /\ assignment[i].to = 0}

\* The user, of whatever status, and no open assignment.
AssignLook(q, u) ==
    /\ Admitted /\ account[u] # "absent" /\ OpenRows(u) = {}
    /\ Len(assignment) < MaxAssignments
    /\ Begin(q, "staff", [kind |-> "assign", user |-> u])
    /\ UNCHANGED <<tenantVars, assignment, today, hrVars>>

Reopenable(u) ==
    LET closed == {i \in DOMAIN assignment : assignment[i].user = u /\ assignment[i].to >= today}
    IN  {i \in closed : \A j \in closed : assignment[i].from >= assignment[j].from}

\* An assignment closed today is opened again, unless there is an open one.
AssignReopen(q) ==
    /\ Doing(q, "assign") /\ "from" \notin DOMAIN request[q]
    /\ \E i \in Reopenable(request[q].user) :
          assignment' = IF OpenRows(request[q].user) # {} THEN assignment
                        ELSE [assignment EXCEPT ![i].to = 0]
    /\ Done(q) /\ UNCHANGED <<tenantVars, today, hrVars>>

AssignNew(q) ==
    /\ Doing(q, "assign") /\ "from" \notin DOMAIN request[q]
    /\ Reopenable(request[q].user) = {}
    /\ request' = [request EXCEPT ![q] =
          [kind |-> "assign", user |-> request[q].user, from |-> today]]
    /\ UNCHANGED <<tenantVars, assignment, today, left, hrVars>>

\* An open one meanwhile is a repeated key.
AssignInsert(q) ==
    /\ Doing(q, "assign") /\ "from" \in DOMAIN request[q]
    /\ LET r == request[q] IN
       assignment' = IF OpenRows(r.user) # {} \/ Len(assignment) >= MaxAssignments
                     THEN assignment
                     ELSE Append(assignment, [user |-> r.user, from |-> r.from, to |-> 0])
    /\ Done(q) /\ UNCHANGED <<tenantVars, today, hrVars>>

Unassign(q, i) ==
    /\ Admitted /\ AtOnce(q, "staff")
    /\ assignment[i].to = 0
    /\ assignment' = [assignment EXCEPT ![i] = Closed(@)]
    /\ UNCHANGED <<tenantVars, today, hrVars>>

-----------------------------------------------------------------------------
(* attendance-overrides.service *)

\* assertEmployeeAssignment: one row covers all of the range.
Assigned(u, r) ==
    \E i \in DOMAIN assignment :
        /\ assignment[i].user = u /\ assignment[i].from <= r.from
        /\ assignment[i].to = 0 \/ assignment[i].to >= r.to

Recording(q, id, row) ==
    /\ row.from <= row.to /\ Assigned(row.employee, row)
    /\ Begin(q, "staff", [kind |-> "override", id |-> id, row |-> row, locked |-> FALSE])
    /\ UNCHANGED <<tenantVars, assignment, today, hrVars>>

CreateOverride(q, dto) == Admitted /\ Recording(q, NULL, dto)

UpdateOverride(q, o, change) ==
    /\ Admitted /\ override[o] # NULL
    /\ Recording(q, o, [f \in DOMAIN override[o] |->
          IF f \in DOMAIN change THEN change[f] ELSE override[o][f]])

HoldsEmployee(p, e) == Doing(p, "override") /\ request[p].locked /\ request[p].row.employee = e

\* A variant: no advisory lock.
LockOverride_NoWait(q) ==
    /\ Doing(q, "override") /\ ~request[q].locked
    /\ LET r == request[q]
           others == {o \in Overrides \ {r.id} : override[o] # NULL
                                                 /\ override[o].employee = r.row.employee}
       IN  IF \E o \in others : RangesOverlap(override[o], r.row)
           THEN Done(q)
           ELSE request' = [request EXCEPT ![q].locked = TRUE] /\ UNCHANGED left
    /\ UNCHANGED <<tenantVars, assignment, today, hrVars>>

\* assertNoOverlap, once nobody else holds the employee.
LockOverride(q) ==
    /\ Doing(q, "override") /\ ~request[q].locked
    /\ \A p \in Requests : ~HoldsEmployee(p, request[q].row.employee)
    /\ LET r == request[q]
           others == {o \in Overrides \ {r.id} : override[o] # NULL
                                                 /\ override[o].employee = r.row.employee}
       IN  IF \E o \in others : RangesOverlap(override[o], r.row)
           THEN Done(q)
           ELSE request' = [request EXCEPT ![q].locked = TRUE] /\ UNCHANGED left
    /\ UNCHANGED <<tenantVars, assignment, today, hrVars>>

Audited(o, action, row) ==
    audit' = [audit EXCEPT ![o] =
                Append(@, [action |-> action, from |-> row.from, to |-> row.to,
                           type |-> IF action = "DELETED" THEN NULL ELSE row.type])]

Unused(o) == override[o] = NULL /\ audit[o] = <<>>

SaveNewOverride(q, o) ==
    /\ Doing(q, "override") /\ request[q].locked /\ request[q].id = NULL
    /\ Unused(o)
    /\ override' = [override EXCEPT ![o] = request[q].row]
    /\ Audited(o, "CREATED", request[q].row)
    /\ Done(q) /\ UNCHANGED <<tenantVars, assignment, today, closure>>

\* A row removed meanwhile is inserted again, or left removed when the removal
\* ends between the two statements of the save.
SaveOverride(q) ==
    /\ Doing(q, "override") /\ request[q].locked /\ request[q].id # NULL
    /\ LET o == request[q].id IN
       /\ \/ override' = [override EXCEPT ![o] = request[q].row]
          \/ override[o] = NULL /\ override' = override
       /\ Audited(o, "UPDATED", request[q].row)
    /\ Done(q) /\ UNCHANGED <<tenantVars, assignment, today, closure>>

RemoveOverride(q, o) ==
    /\ Admitted /\ override[o] # NULL
    /\ Begin(q, "staff", [kind |-> "remove", id |-> o, row |-> override[o]])
    /\ UNCHANGED <<tenantVars, assignment, today, hrVars>>

\* The row as it was read goes to the audit, without a lock.
DeleteOverride(q) ==
    /\ Doing(q, "remove")
    /\ LET o == request[q].id IN
       /\ override' = [override EXCEPT ![o] = NULL]
       /\ Audited(o, "DELETED", request[q].row)
    /\ Done(q) /\ UNCHANGED <<tenantVars, assignment, today, closure>>

-----------------------------------------------------------------------------
(* store-closures.service *)

ActiveClosures == {c \in Closures : closure[c] # NULL /\ ~closure[c].cancelled}

\* create, and createBulk with a range for each date: all or none.
CreateClosures(q, ranges) ==
    /\ Admitted
    /\ \A p \in Requests : ~Doing(p, "closure")
    /\ \A r \in ranges : r.from <= r.to /\ \A c \in ActiveClosures : ~RangesOverlap(closure[c], r)
    /\ Begin(q, "staff", [kind |-> "closure", ranges |-> ranges])
    /\ UNCHANGED <<tenantVars, assignment, today, hrVars>>

SaveClosures(q) ==
    /\ Doing(q, "closure")
    /\ \E row \in [request[q].ranges -> {c \in Closures : closure[c] = NULL}] :
          /\ \A r, s \in request[q].ranges : row[r] = row[s] => r = s
          /\ closure' = [c \in Closures |->
                IF \E r \in request[q].ranges : row[r] = c
                THEN LET r == CHOOSE r \in request[q].ranges : row[r] = c
                     IN  [from |-> r.from, to |-> r.to, cancelled |-> FALSE]
                ELSE closure[c]]
    /\ Done(q) /\ UNCHANGED <<tenantVars, assignment, today, override, audit>>

CancelClosure(q, c) ==
    /\ Admitted /\ AtOnce(q, "staff")
    /\ c \in ActiveClosures
    /\ closure' = [closure EXCEPT ![c].cancelled = TRUE]
    /\ UNCHANGED <<tenantVars, assignment, today, override, audit>>

-----------------------------------------------------------------------------
\* UserstoresController, AttendanceOverridesController, StoreClosuresController.
AttendanceStep ==
    \E q \in Requests :
        \/ \E u \in Users : AssignLook(q, u)
        \/ AssignReopen(q) \/ AssignNew(q) \/ AssignInsert(q)
        \/ \E i \in DOMAIN assignment : Unassign(q, i)
        \/ \E dto \in NewOverrides : CreateOverride(q, dto)
        \/ \E o \in Overrides :
              \/ \E c \in OverrideChanges : UpdateOverride(q, o, c)
              \/ SaveNewOverride(q, o) \/ RemoveOverride(q, o)
        \/ LockOverride(q) \/ SaveOverride(q) \/ DeleteOverride(q)
        \/ \E ranges \in ClosureRequests : CreateClosures(q, ranges)
        \/ SaveClosures(q)
        \/ \E c \in Closures : CancelClosure(q, c)
================================================================================
