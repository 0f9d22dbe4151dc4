---------------------------- MODULE TenantAccounts ----------------------------
(***************************************************************************)
(* One tenant of the platform: its row, its users and stores, and the      *)
(* assignments of users to a store.  Users and stores are added under a    *)
(* lock of the tenant's row; the master's changes, the suspension of an    *)
(* expired subscription, the provisioning and the changes of a user read a *)
(* row in one transaction and save all of it in another.                   *)
(*                                                                         *)
(* A request is what a handler holds between two of its transactions.  The *)
(* other columns of a row, roles and passwords are left out.               *)
(***************************************************************************)
EXTENDS Integers, Sequences, FiniteSets

CONSTANTS
    Requests, Users,
    NULL,
    TenantRows,     \* bound: the rows a tenant is created with
    MasterChanges,  \* bound: the changes the master sends
    Workloads,      \* bound: requests of each family a behaviour receives
    LastDay         \* bound on the calendar

Statuses == {"PROVISIONING", "ACTIVE", "SUSPENDED", "ARCHIVED"}
Days     == 1..LastDay

TenantRow == [status : Statuses, maxUsers : Nat, maxStores : Nat, expires : Nat]

ASSUME TenantAssumption ==
    /\ IsFiniteSet(Users) /\ LastDay \in Nat
    /\ TenantRows \subseteq TenantRow
    /\ \A change \in MasterChanges : \A f \in DOMAIN change :
          change[f] \in (IF f = "status" THEN Statuses ELSE Nat)

VARIABLES
    tenant,      \* the TenantRow (expires 0: never)
    systemUser,  \* the row with the system email, unique
    account,     \* "absent", or the status of each user
    stores,      \* how many stores there are
    assignment,  \* UserStore rows of one store: user, from, to (0: open)
    today,
    request,     \* what each request holds
    left         \* requests of each family still to come

tenantVars == <<tenant, systemUser, account, stores>>

TenantInit ==
    /\ tenant \in TenantRows
    /\ systemUser = FALSE
    /\ account = [u \in Users |-> "absent"]
    /\ stores = 0
    /\ assignment = <<>>
    /\ today = 1
    /\ request = [q \in Requests |-> NULL]
    /\ left \in Workloads

Begin(q, family, r) ==
    /\ request[q] = NULL /\ left[family] > 0
    /\ left' = [left EXCEPT ![family] = @ - 1]
    /\ request' = [request EXCEPT ![q] = r]

\* A request whose only transaction is this step.
AtOnce(q, family) == Begin(q, family, NULL)

Doing(q, kind) == request[q] # NULL /\ request[q].kind = kind
Done(q)        == request' = [request EXCEPT ![q] = NULL] /\ UNCHANGED left

Expired == tenant.expires # 0 /\ tenant.expires < today

\* TenantContextGuard, before each request of the tenant.
Admitted == tenant.status = "ACTIVE" /\ ~Expired

SeatLocked == \E q \in Requests : Doing(q, "seat")

Existing == {u \in Users : account[u] # "absent"}

-----------------------------------------------------------------------------
(* The master's changes: updateTenant, setStatus and updateSubscription.   *)

MasterRead(q, change) ==
    /\ Begin(q, "master", [kind |-> "master", row |-> [f \in DOMAIN tenant |->
          IF f \in DOMAIN change THEN change[f] ELSE tenant[f]]])
    /\ UNCHANGED <<tenantVars, assignment, today>>

\* All of the row as it was read, with the change.
MasterSave(q) ==
    /\ Doing(q, "master") /\ ~SeatLocked
    /\ tenant' = request[q].row
    /\ Done(q)
    /\ UNCHANGED <<systemUser, account, stores, assignment, today>>

\* The guard finds the subscription expired, and saves the row suspended.
GuardRead(q) ==
    /\ tenant.status = "ACTIVE" /\ Expired
    /\ Begin(q, "master", [kind |-> "guard", row |-> [tenant EXCEPT !.status = "SUSPENDED"]])
    /\ UNCHANGED <<tenantVars, assignment, today>>

GuardSuspend(q) ==
    /\ Doing(q, "guard") /\ ~SeatLocked
    /\ tenant' = request[q].row
    /\ Done(q)
    /\ UNCHANGED <<systemUser, account, stores, assignment, today>>

-----------------------------------------------------------------------------
(* provisionTenant. *)

ProvisionRead(q) ==
    /\ tenant.status # "ACTIVE"
    /\ Begin(q, "master", [kind |-> "provision", row |-> [tenant EXCEPT !.status = "ACTIVE"]])
    /\ UNCHANGED <<tenantVars, assignment, today>>

Hired(u) == Append(assignment, [user |-> u, from |-> today, to |-> 0])

\* A variant: the system user's email may be repeated.
Provision_AnyEmail(q, u) ==
    /\ Doing(q, "provision") /\ ~SeatLocked
    /\ account[u] = "absent"
    /\ systemUser' = TRUE
    /\ account' = [account EXCEPT ![u] = "ACTIVE"]
    /\ stores' = stores + 1
    /\ assignment' = Hired(u)
    /\ tenant' = request[q].row
    /\ Done(q) /\ UNCHANGED today

\* The system user, the central store, its administrator and the assignment,
\* in one transaction: a second one repeats the system user's email.
Provision(q, u) ==
    /\ Doing(q, "provision") /\ ~SeatLocked
    /\ account[u] = "absent" /\ ~systemUser
    /\ systemUser' = TRUE
    /\ account' = [account EXCEPT ![u] = "ACTIVE"]
    /\ stores' = stores + 1
    /\ assignment' = Hired(u)
    /\ tenant' = request[q].row
    /\ Done(q) /\ UNCHANGED today

\* An email that exists, the system user's or the administrator's: rolled back.
ProvisionFails(q) ==
    /\ Doing(q, "provision") /\ ~SeatLocked
    /\ systemUser \/ Existing # {}
    /\ Done(q)
    /\ UNCHANGED <<tenantVars, assignment, today>>

-----------------------------------------------------------------------------
(* Seats: createTenantUser and createTenantStore of the master,            *)
(* UsersService.create and StoresService.create of the tenant.             *)

\* A variant: the row is read without a lock.
LockTenant_NoWait(q, what, by) ==
    /\ by = "master" \/ Admitted
    /\ Begin(q, "seats", [kind |-> "seat", what |-> what, by |-> by])
    /\ UNCHANGED <<tenantVars, assignment, today>>

LockTenant(q, what, by) ==
    /\ ~SeatLocked
    /\ by = "master" \/ Admitted
    /\ Begin(q, "seats", [kind |-> "seat", what |-> what, by |-> by])
    /\ UNCHANGED <<tenantVars, assignment, today>>

Used(what)  == IF what = "user" THEN Cardinality(Existing) ELSE stores
Limit(what) == IF what = "user" THEN tenant.maxUsers ELSE tenant.maxStores

\* What the count under the lock allows; only the master checks the status.
SeatFree(r) ==
    /\ r.by = "master" => tenant.status = "ACTIVE"
    /\ r.count < Limit(r.what)

SeatCounted(q) ==
    /\ Doing(q, "seat") /\ "count" \notin DOMAIN request[q]
    /\ LET r == request[q] IN
       request' = [request EXCEPT ![q] =
          [kind |-> "seat", what |-> r.what, by |-> r.by, count |-> Used(r.what)]]
    /\ UNCHANGED <<tenantVars, assignment, today, left>>

\* The first user of a tenant gets a central store, whatever the limit.
AddUser(q, u) ==
    /\ Doing(q, "seat") /\ "count" \in DOMAIN request[q] /\ request[q].what = "user"
    /\ SeatFree(request[q]) /\ account[u] = "absent"
    /\ account' = [account EXCEPT ![u] = "ACTIVE"]
    /\ IF request[q].by = "tenant" /\ request[q].count = 0
       THEN stores' = stores + 1 /\ assignment' = Hired(u)
       ELSE UNCHANGED <<stores, assignment>>
    /\ Done(q) /\ UNCHANGED <<tenant, systemUser, today>>

AddStore(q) ==
    /\ Doing(q, "seat") /\ "count" \in DOMAIN request[q] /\ request[q].what = "store"
    /\ SeatFree(request[q])
    /\ stores' = stores + 1
    /\ Done(q) /\ UNCHANGED <<tenant, systemUser, account, assignment, today>>

\* The limit, the status or an email that exists.
SeatRefused(q) ==
    /\ Doing(q, "seat") /\ "count" \in DOMAIN request[q]
    /\ ~SeatFree(request[q]) \/ (request[q].what = "user" /\ Existing # {})
    /\ Done(q) /\ UNCHANGED <<tenantVars, assignment, today>>

-----------------------------------------------------------------------------
(* UsersService.update and remove. *)

\* The row read, with the change; an update without a status keeps it.
UserRead(q, u, op) ==
    /\ Admitted /\ account[u] # "absent"
    /\ Begin(q, "staff", [kind |-> "account", user |-> u, op |-> op,
                          row |-> CASE op = "remove" -> "INACTIVE"
                                    [] op = "restore" -> "ACTIVE"
                                    [] OTHER -> account[u]])
    /\ UNCHANGED <<tenantVars, assignment, today>>

Closed(row) == IF row.to = 0 THEN [row EXCEPT !.to = today] ELSE row

\* All of the row as it was read; a removal closes the open assignments.
UserSave(q) ==
    /\ Doing(q, "account")
    /\ account' = [account EXCEPT ![request[q].user] = request[q].row]
    /\ assignment' = IF request[q].op # "remove" THEN assignment
                     ELSE [i \in DOMAIN assignment |->
                             IF assignment[i].user = request[q].user
                             THEN Closed(assignment[i]) ELSE assignment[i]]
    /\ Done(q) /\ UNCHANGED <<tenant, systemUser, stores, today>>

-----------------------------------------------------------------------------
Midnight ==
    /\ today < LastDay
    /\ today' = today + 1
    /\ UNCHANGED <<tenantVars, assignment, request, left>>

\* MasterController, UsersController, StoresController and the guard.
TenantStep ==
    \/ \E q \in Requests :
          \/ \E c \in MasterChanges : MasterRead(q, c)
          \/ MasterSave(q) \/ GuardRead(q) \/ GuardSuspend(q)
          \/ ProvisionRead(q) \/ ProvisionFails(q)
          \/ \E what \in {"user", "store"}, by \in {"master", "tenant"} : LockTenant(q, what, by)
          \/ SeatCounted(q) \/ AddStore(q) \/ SeatRefused(q)
          \/ \E u \in Users :
                \/ Provision(q, u) \/ AddUser(q, u)
                \/ \E op \in {"remove", "restore", "edit"} : UserRead(q, u, op)
          \/ UserSave(q)
    \/ Midnight
================================================================================
