------------------------------ MODULE LockProofs ------------------------------
(***************************************************************************)
(* What the locks are for, where requests meet row by row.  Staff: for any *)
(* number of users, requests, rows and days the ranges recorded never      *)
(* overlap, seats are never sold beyond the plan, and a tenant is          *)
(* provisioned once; and the calendar computed from the rows adds up.      *)
(* Cash desk: for any number of requests, registers and sessions,          *)
(* statements that interleave commit what whole transactions do.  The two  *)
(* systems share nothing but the requests being served.                    *)
(***************************************************************************)
EXTENDS StaffFlow, CashLocks, RowSums, SequenceTheorems

-----------------------------------------------------------------------------
(* Recorded ranges: the advisory locks.                                    *)

\* The request has found no overlap, and holds its employee until it writes.
Holds(q) == Doing(q, "override") /\ request[q].locked = TRUE

\* A request to record an override; once it holds the employee, no other row
\* of the employee overlaps with what it will write.
OverrideFits(q) ==
    Doing(q, "override") =>
        /\ request[q] = [kind |-> "override", id |-> request[q].id, row |-> request[q].row,
                         locked |-> request[q].locked]
        /\ request[q].locked \in BOOLEAN
        /\ request[q].id \in Overrides \cup {NULL}
        /\ request[q].locked = TRUE =>
              \A o \in Overrides \ {request[q].id} :
                  (override[o] # NULL /\ override[o].employee = request[q].row.employee)
                  => ~RangesOverlap(override[o], request[q].row)

ClosureFits(q) ==
    Doing(q, "closure") =>
        /\ request[q].ranges \in ClosureRequests
        /\ \A r \in request[q].ranges, c \in ActiveClosures : ~RangesOverlap(closure[c], r)

ClosureRow(row) ==
    /\ row = [from |-> row.from, to |-> row.to, cancelled |-> row.cancelled]
    /\ row.cancelled \in BOOLEAN

RangesInv ==
    /\ request = [q \in Requests |-> request[q]]
    /\ override = [o \in Overrides |-> override[o]]
    /\ closure = [c \in Closures |-> closure[c]]
    /\ \A q \in Requests : OverrideFits(q) /\ ClosureFits(q)
    /\ \A p, q \in Requests :
          Holds(p) /\ Holds(q) /\ p # q => request[p].row.employee # request[q].row.employee
    /\ \A p, q \in Requests : Doing(p, "closure") /\ Doing(q, "closure") => p = q
    /\ \A c \in Closures : closure[c] # NULL => ClosureRow(closure[c])
    /\ RangesDoNotOverlap

\* A request that moves to what neither holds an employee nor closes the store.
LEMMA Harmless ==
    ASSUME RangesInv, UNCHANGED <<override, closure>>, NEW q \in Requests, NEW r,
           request' = [request EXCEPT ![q] = r],
           r # NULL => r.kind # "closure",
           r # NULL /\ r.kind = "override" =>
              /\ r = [kind |-> "override", id |-> r.id, row |-> r.row, locked |-> FALSE]
              /\ r.id \in Overrides \cup {NULL}
    PROVE  RangesInv'
<1>1. request' = [p \in Requests |-> IF p = q THEN r ELSE request[p]]
  BY DEF RangesInv
<1>2. request' = [p \in Requests |-> request'[p]]
  BY <1>1
<1>3. request'[q] = r /\ \A p \in Requests : p # q => request'[p] = request[p]
  BY <1>1
<1>4. ~Holds(q)' /\ ~Doing(q, "closure")'
  BY <1>3 DEF Holds, Doing
<1>5. OverrideFits(q)' /\ ClosureFits(q)'
  <2>1. ASSUME Doing(q, "override")' PROVE OverrideFits(q)'
    <3>1. /\ r = [kind |-> "override", id |-> r.id, row |-> r.row, locked |-> FALSE]
          /\ r.id \in Overrides \cup {NULL}
      BY <1>3, <2>1 DEF Doing
    <3>2. r.locked = FALSE
      BY <3>1
    <3> QED BY <1>3, <3>1, <3>2 DEF OverrideFits
  <2>2. ASSUME ~Doing(q, "override")' PROVE OverrideFits(q)'
    BY <2>2 DEF OverrideFits
  <2>3. ClosureFits(q)'
    BY <1>4 DEF ClosureFits
  <2> QED BY <2>1, <2>2, <2>3
<1>6. ASSUME NEW p \in Requests, p # q
      PROVE  /\ OverrideFits(p)' /\ ClosureFits(p)'
             /\ Holds(p)' <=> Holds(p)
             /\ Doing(p, "closure")' <=> Doing(p, "closure")
  <2>1. request'[p] = request[p]
    BY <1>3, <1>6
  <2>2. (Doing(p, "override")' <=> Doing(p, "override"))
        /\ (Doing(p, "closure")' <=> Doing(p, "closure")) /\ (Holds(p)' <=> Holds(p))
    BY <2>1 DEF Doing, Holds
  <2>3. OverrideFits(p)'
    BY <2>1, <2>2 DEF RangesInv, OverrideFits
  <2>4. ClosureFits(p)'
    BY <2>1, <2>2 DEF RangesInv, ClosureFits, ActiveClosures
  <2> QED BY <2>2, <2>3, <2>4
<1>7. RangesDoNotOverlap'
  BY DEF RangesInv, RangesDoNotOverlap, ActiveClosures
<1> QED BY <1>2, <1>3, <1>4, <1>5, <1>6, <1>7 DEF RangesInv

\* No request moves, and nothing is recorded.
LEMMA NothingRecorded ==
    ASSUME RangesInv, UNCHANGED <<request, override, closure>>
    PROVE  RangesInv'
<1>1. \A q \in Requests : OverrideFits(q)' /\ ClosureFits(q)'
  BY DEF RangesInv, OverrideFits, ClosureFits, Doing, ActiveClosures
<1>2. \A p, q \in Requests :
          /\ Holds(p)' /\ Holds(q)' /\ p # q => request'[p].row.employee # request'[q].row.employee
          /\ Doing(p, "closure")' /\ Doing(q, "closure")' => p = q
  BY DEF RangesInv, Holds, Doing
<1>3. RangesDoNotOverlap'
  BY DEF RangesInv, RangesDoNotOverlap, ActiveClosures
<1> QED BY <1>1, <1>2, <1>3 DEF RangesInv

\* A request ends, and the rows stay.
LEMMA DoneHarmless ==
    ASSUME RangesInv, UNCHANGED <<override, closure>>, NEW q \in Requests, Done(q)
    PROVE  RangesInv'
  BY Harmless DEF Done

LEMMA BeginHarmless ==
    ASSUME RangesInv, UNCHANGED <<override, closure>>, NEW q \in Requests, NEW family, NEW r,
           Begin(q, family, r), r = NULL \/ r.kind \notin {"override", "closure"}
    PROVE  RangesInv'
  BY Harmless DEF Begin

-----------------------------------------------------------------------------
LEMMA TenantStepRanges ==
    ASSUME RangesInv, TenantStep, UNCHANGED hrVars
    PROVE  RangesInv'
<1>0. UNCHANGED <<override, closure>>
  BY DEF hrVars
<1>1. ASSUME NEW q \in Requests, NEW c \in MasterChanges, MasterRead(q, c) PROVE RangesInv'
  BY <1>0, <1>1, BeginHarmless DEF MasterRead
<1>2. ASSUME NEW q \in Requests, GuardRead(q) \/ ProvisionRead(q) PROVE RangesInv'
  BY <1>0, <1>2, BeginHarmless DEF GuardRead, ProvisionRead
<1>3. ASSUME NEW q \in Requests,
             MasterSave(q) \/ GuardSuspend(q) \/ ProvisionFails(q) \/ AddStore(q)
                \/ SeatRefused(q) \/ UserSave(q)
      PROVE  RangesInv'
  BY <1>0, <1>3, DoneHarmless
     DEF MasterSave, GuardSuspend, ProvisionFails, AddStore, SeatRefused, UserSave
<1>4. ASSUME NEW q \in Requests, NEW what, NEW by, LockTenant(q, what, by) PROVE RangesInv'
  BY <1>0, <1>4, BeginHarmless DEF LockTenant
<1>5. ASSUME NEW q \in Requests, SeatCounted(q) PROVE RangesInv'
  BY <1>0, <1>5, Harmless DEF SeatCounted
<1>6. ASSUME NEW q \in Requests, NEW u \in Users, Provision(q, u) \/ AddUser(q, u)
      PROVE  RangesInv'
  BY <1>0, <1>6, DoneHarmless DEF Provision, AddUser
<1>7. ASSUME NEW q \in Requests, NEW u \in Users, NEW change, UserRead(q, u, change) PROVE RangesInv'
  BY <1>0, <1>7, BeginHarmless DEF UserRead
<1>8. CASE Midnight
  BY <1>0, <1>8, NothingRecorded DEF Midnight
<1> QED BY <1>1, <1>2, <1>3, <1>4, <1>5, <1>6, <1>7, <1>8 DEF TenantStep

LEMMA AssignRanges ==
    ASSUME RangesInv, NEW q \in Requests,
           \/ \E u \in Users : AssignLook(q, u)
           \/ AssignReopen(q) \/ AssignNew(q) \/ AssignInsert(q)
           \/ \E i \in DOMAIN assignment : Unassign(q, i)
    PROVE  RangesInv'
<1>1. ASSUME NEW u \in Users, AssignLook(q, u) PROVE RangesInv'
  BY <1>1, BeginHarmless DEF AssignLook, hrVars
<1>2. ASSUME AssignReopen(q) \/ AssignInsert(q) PROVE RangesInv'
  BY <1>2, DoneHarmless DEF AssignReopen, AssignInsert, hrVars
<1>3. ASSUME AssignNew(q) PROVE RangesInv'
  BY <1>3, Harmless DEF AssignNew, hrVars
<1>4. ASSUME NEW i, Unassign(q, i) PROVE RangesInv'
  BY <1>4, BeginHarmless DEF Unassign, AtOnce, hrVars
<1> QED BY <1>1, <1>2, <1>3, <1>4

LEMMA RecordingRanges ==
    ASSUME RangesInv, NEW q \in Requests, NEW id \in Overrides \cup {NULL}, NEW row,
           Recording(q, id, row)
    PROVE  RangesInv'
  BY Harmless DEF Recording, Begin, hrVars

LEMMA LockedRow ==
    ASSUME NEW id, NEW row, NEW b, NEW r,
           r = [kind |-> "override", id |-> id, row |-> row, locked |-> b]
    PROVE  [r EXCEPT !.locked = TRUE]
              = [kind |-> "override", id |-> id, row |-> row, locked |-> TRUE]
<1>1. r \in [kind : {"override"}, id : {id}, row : {row}, locked : {b}]
  OBVIOUS
<1>2. [r EXCEPT !.locked = TRUE]
         \in [kind : {"override"}, id : {id}, row : {row}, locked : {TRUE}]
  BY <1>1
<1>3. ASSUME NEW s \in [kind : {"override"}, id : {id}, row : {row}, locked : {TRUE}]
      PROVE  s = [kind |-> "override", id |-> id, row |-> row, locked |-> TRUE]
  <2>1. s = [kind |-> s.kind, id |-> s.id, row |-> s.row, locked |-> s.locked]
    OBVIOUS
  <2>2. s.kind = "override" /\ s.id = id /\ s.row = row /\ s.locked = TRUE
    OBVIOUS
  <2> QED BY <2>1, <2>2
<1> QED BY <1>2, <1>3

\* Nobody else holds the employee, and no row of the employee overlaps.
LEMMA LockRanges ==
    ASSUME RangesInv, NEW q \in Requests, LockOverride(q)
    PROVE  RangesInv'
<1> DEFINE r == request[q]
           others == {o \in Overrides \ {r.id} : override[o] # NULL
                                                 /\ override[o].employee = r.row.employee}
<1>1. UNCHANGED <<override, closure>> /\ Doing(q, "override")
  BY DEF LockOverride, hrVars
<1>2. CASE \E o \in others : RangesOverlap(override[o], r.row)
  BY <1>1, <1>2, DoneHarmless DEF LockOverride
<1>3. CASE ~\E o \in others : RangesOverlap(override[o], r.row)
  <2>1. r = [kind |-> "override", id |-> r.id, row |-> r.row, locked |-> r.locked]
        /\ r.id \in Overrides \cup {NULL}
    BY <1>1 DEF RangesInv, OverrideFits
  <2> DEFINE s == [kind |-> "override", id |-> r.id, row |-> r.row, locked |-> TRUE]
  <2>2. [r EXCEPT !.locked = TRUE] = s
    <3> HIDE DEF r
    <3> QED BY <2>1, LockedRow
  <2>3. request' = [request EXCEPT ![q] = s]
    <3>1. request' = [request EXCEPT ![q].locked = TRUE]
      BY <1>3 DEF LockOverride
    <3>2. request' = [request EXCEPT ![q] = [r EXCEPT !.locked = TRUE]]
      BY <3>1 DEF RangesInv
    <3> QED BY <2>2, <3>2
  <2>4. /\ s.kind = "override" /\ s.id = r.id /\ s.row = r.row /\ s.locked = TRUE
        /\ s = [kind |-> "override", id |-> s.id, row |-> s.row, locked |-> s.locked]
    OBVIOUS
  <2> HIDE DEF s
  <2>5. request' = [p \in Requests |-> IF p = q THEN s ELSE request[p]]
    BY <2>3 DEF RangesInv
  <2>6. request' = [p \in Requests |-> request'[p]]
    BY <2>5
  <2>7. request'[q] = s /\ \A p \in Requests : p # q => request'[p] = request[p]
    BY <2>5
  <2>8. OverrideFits(q)' /\ ClosureFits(q)' /\ ~Doing(q, "closure")'
    BY <1>1, <1>3, <2>1, <2>4, <2>7 DEF OverrideFits, ClosureFits, Doing
  <2>9. ASSUME NEW p \in Requests, p # q
        PROVE  /\ OverrideFits(p)' /\ ClosureFits(p)'
               /\ Holds(p)' <=> Holds(p)
               /\ Doing(p, "closure")' <=> Doing(p, "closure")
               /\ Holds(p) => request[p].row.employee # r.row.employee
    <3>1. request'[p] = request[p]
      BY <2>7, <2>9
    <3>2. (Doing(p, "override")' <=> Doing(p, "override"))
          /\ (Doing(p, "closure")' <=> Doing(p, "closure")) /\ (Holds(p)' <=> Holds(p))
      BY <3>1 DEF Doing, Holds
    <3>3. OverrideFits(p)'
      BY <1>1, <3>1, <3>2 DEF RangesInv, OverrideFits
    <3>4. ClosureFits(p)'
      BY <1>1, <3>1, <3>2 DEF RangesInv, ClosureFits, ActiveClosures
    <3>5. Holds(p) => request[p].row.employee # r.row.employee
      BY DEF LockOverride, HoldsEmployee, Holds
    <3> QED BY <3>2, <3>3, <3>4, <3>5
  <2>10. RangesDoNotOverlap'
    BY <1>1 DEF RangesInv, RangesDoNotOverlap, ActiveClosures
  <2> QED BY <1>1, <2>4, <2>6, <2>7, <2>8, <2>9, <2>10 DEF RangesInv
<1> QED BY <1>2, <1>3

\* Once it has written or removed a row, a request ends.
LEMMA WrittenRanges ==
    ASSUME RangesInv, NEW q \in Requests, NEW o \in Overrides, NEW row,
           override' = [override EXCEPT ![o] = row], UNCHANGED closure, Done(q),
           \/ row = NULL
           \/ Holds(q) /\ row = request[q].row /\ (request[q].id \in {o, NULL})
                 /\ (request[q].id = NULL => override[o] = NULL)
    PROVE  RangesInv'
<1>1. request' = [p \in Requests |-> IF p = q THEN NULL ELSE request[p]]
  BY DEF RangesInv, Done
<1>2. request' = [p \in Requests |-> request'[p]]
  BY <1>1
<1>3. request'[q] = NULL /\ \A p \in Requests : p # q => request'[p] = request[p]
  BY <1>1
<1>4. override' = [x \in Overrides |-> IF x = o THEN row ELSE override[x]]
  BY DEF RangesInv
<1>5. override' = [x \in Overrides |-> override'[x]]
  BY <1>4
<1>6. override'[o] = row /\ \A x \in Overrides : x # o => override'[x] = override[x]
  BY <1>4
<1>7. ~Holds(q)' /\ ~Doing(q, "closure")' /\ OverrideFits(q)' /\ ClosureFits(q)'
  BY <1>3 DEF Holds, Doing, OverrideFits, ClosureFits
<1>8. ASSUME NEW p \in Requests, p # q
      PROVE  /\ OverrideFits(p)' /\ ClosureFits(p)'
             /\ Holds(p)' <=> Holds(p)
             /\ Doing(p, "closure")' <=> Doing(p, "closure")
  <2>1. request'[p] = request[p]
    BY <1>3, <1>8
  <2>2. (Doing(p, "override")' <=> Doing(p, "override"))
        /\ (Doing(p, "closure")' <=> Doing(p, "closure")) /\ (Holds(p)' <=> Holds(p))
    BY <2>1 DEF Doing, Holds
  <2>3. OverrideFits(p)'
    <3>1. ASSUME Doing(p, "override"), request[p].locked = TRUE,
                 NEW x \in Overrides \ {request[p].id},
                 override'[x] # NULL, override'[x].employee = request[p].row.employee
          PROVE  ~RangesOverlap(override'[x], request[p].row)
      <4>1. Holds(p)
        BY <3>1 DEF Holds
      <4>2. CASE x # o
        BY <1>6, <3>1, <4>2 DEF RangesInv, OverrideFits
      <4>3. CASE x = o
        <5>1. Holds(q) /\ row = request[q].row
          BY <1>6, <3>1, <4>3
        <5> QED BY <1>6, <1>8, <3>1, <4>1, <4>3, <5>1 DEF RangesInv
      <4> QED BY <4>2, <4>3
    <3> QED BY <2>1, <2>2, <3>1 DEF RangesInv, OverrideFits
  <2>4. ClosureFits(p)'
    BY <2>1, <2>2 DEF RangesInv, ClosureFits, ActiveClosures
  <2> QED BY <2>2, <2>3, <2>4
<1>9. RangesDoNotOverlap'
  <2>1. ASSUME NEW x \in Overrides, x # o, row # NULL, override[x] # NULL,
               override[x].employee = row.employee
        PROVE  ~RangesOverlap(override[x], row)
    <3>1. Holds(q) /\ row = request[q].row /\ request[q].id \in {o, NULL}
      BY <2>1
    <3>2. x \in Overrides \ {request[q].id}
      BY <2>1, <3>1, AttendanceAssumption
    <3> QED BY <2>1, <3>1, <3>2 DEF RangesInv, OverrideFits, Holds
  <2>2. ASSUME NEW x \in Overrides, NEW y \in Overrides, x # y,
               override'[x] # NULL, override'[y] # NULL,
               override'[x].employee = override'[y].employee
        PROVE  ~RangesOverlap(override'[x], override'[y])
    <3>1. CASE x # o /\ y # o
      BY <1>6, <2>2, <3>1 DEF RangesInv, RangesDoNotOverlap
    <3>2. CASE x = o
      BY <1>6, <2>1, <2>2, <3>2 DEF RangesOverlap
    <3>3. CASE y = o
      BY <1>6, <2>1, <2>2, <3>3 DEF RangesOverlap
    <3> QED BY <3>1, <3>2, <3>3
  <2>3. \A c, d \in ActiveClosures' : c # d => ~RangesOverlap(closure'[c], closure'[d])
    BY DEF RangesInv, RangesDoNotOverlap, ActiveClosures
  <2> QED BY <2>2, <2>3 DEF RangesDoNotOverlap
<1> QED BY <1>2, <1>3, <1>5, <1>7, <1>8, <1>9 DEF RangesInv

LEMMA SaveRanges ==
    ASSUME RangesInv, NEW q \in Requests,
           (\E o \in Overrides : SaveNewOverride(q, o)) \/ SaveOverride(q)
    PROVE  RangesInv'
<1>1. ASSUME NEW o \in Overrides, SaveNewOverride(q, o) PROVE RangesInv'
  <2>1. Holds(q) /\ request[q].id = NULL /\ override[o] = NULL
    BY <1>1 DEF SaveNewOverride, Unused, Holds, RangesInv, OverrideFits
  <2> QED BY <1>1, <2>1, WrittenRanges DEF SaveNewOverride
<1>2. CASE SaveOverride(q)
  <2> DEFINE o == request[q].id
  <2>1. Holds(q) /\ o \in Overrides
    BY <1>2 DEF SaveOverride, Holds, RangesInv, OverrideFits
  <2>2. CASE override' = [override EXCEPT ![o] = request[q].row]
    BY <1>2, <2>1, <2>2, WrittenRanges, AttendanceAssumption DEF SaveOverride
  <2>3. CASE override' = override
    BY <1>2, <2>3, DoneHarmless DEF SaveOverride
  <2> QED BY <1>2, <2>2, <2>3 DEF SaveOverride
<1> QED BY <1>1, <1>2

LEMMA RemovalRanges ==
    ASSUME RangesInv, NEW q \in Requests,
           (\E o \in Overrides : RemoveOverride(q, o)) \/ DeleteOverride(q)
    PROVE  RangesInv'
<1>1. ASSUME NEW o \in Overrides, RemoveOverride(q, o) PROVE RangesInv'
  BY <1>1, BeginHarmless DEF RemoveOverride, hrVars
<1>2. CASE DeleteOverride(q)
  <2>1. CASE request[q].id \in Overrides
    BY <1>2, <2>1, WrittenRanges DEF DeleteOverride
  <2>2. CASE request[q].id \notin Overrides
    <3>1. override' = override
      BY <1>2, <2>2 DEF DeleteOverride, RangesInv
    <3> QED BY <1>2, <3>1, DoneHarmless DEF DeleteOverride
  <2> QED BY <2>1, <2>2
<1> QED BY <1>1, <1>2

-----------------------------------------------------------------------------
(* Recorded ranges: the closures of the store.                             *)

\* The request that closes the store is the only one.
LEMMA CreateClosuresRanges ==
    ASSUME RangesInv, NEW q \in Requests, NEW ranges \in ClosureRequests,
           CreateClosures(q, ranges)
    PROVE  RangesInv'
<1> DEFINE r == [kind |-> "closure", ranges |-> ranges]
<1>0. UNCHANGED <<override, closure>> /\ request' = [request EXCEPT ![q] = r]
  BY DEF CreateClosures, Begin, hrVars
<1>a. r.kind = "closure" /\ r.ranges = ranges
  OBVIOUS
<1> HIDE DEF r
<1>1. request' = [p \in Requests |-> IF p = q THEN r ELSE request[p]]
  BY <1>0 DEF RangesInv
<1>2. request' = [p \in Requests |-> request'[p]]
  BY <1>1
<1>3. request'[q] = r /\ \A p \in Requests : p # q => request'[p] = request[p]
  BY <1>1
<1>4. ~Doing(q, "override")' /\ ~Holds(q)' /\ OverrideFits(q)'
  BY <1>3, <1>a DEF Holds, Doing, OverrideFits
<1>5. ClosureFits(q)'
  BY <1>0, <1>3, <1>a DEF ClosureFits, CreateClosures, ActiveClosures
<1>6. ASSUME NEW p \in Requests, p # q
      PROVE  /\ OverrideFits(p)' /\ ClosureFits(p)'
             /\ Holds(p)' <=> Holds(p)
             /\ ~Doing(p, "closure")'
  <2>1. request'[p] = request[p]
    BY <1>3, <1>6
  <2>2. (Doing(p, "override")' <=> Doing(p, "override"))
        /\ ~Doing(p, "closure")' /\ (Holds(p)' <=> Holds(p))
    BY <2>1 DEF Doing, Holds, CreateClosures
  <2>3. OverrideFits(p)'
    BY <1>0, <2>1, <2>2 DEF RangesInv, OverrideFits
  <2>4. ClosureFits(p)'
    BY <2>2 DEF ClosureFits
  <2> QED BY <2>2, <2>3, <2>4
<1>7. RangesDoNotOverlap'
  BY <1>0 DEF RangesInv, RangesDoNotOverlap, ActiveClosures
<1> QED BY <1>0, <1>2, <1>3, <1>4, <1>5, <1>6, <1>7 DEF RangesInv

\* What remains once a step has ended the request and changed the closures.
LEMMA ClosedRanges ==
    ASSUME RangesInv, NEW q \in Requests, request' = [request EXCEPT ![q] = NULL],
           UNCHANGED override,
           closure' = [c \in Closures |-> closure'[c]],
           \A c \in Closures : closure'[c] # NULL => ClosureRow(closure'[c]),
           \A c, d \in ActiveClosures' : c # d => ~RangesOverlap(closure'[c], closure'[d]),
           \A p \in Requests : Doing(p, "closure") /\ p # q =>
              \A c \in ActiveClosures' : c \in ActiveClosures /\ closure'[c] = closure[c]
    PROVE  RangesInv'
<1>1. request' = [p \in Requests |-> IF p = q THEN NULL ELSE request[p]]
  BY DEF RangesInv
<1>2. request' = [p \in Requests |-> request'[p]]
  BY <1>1
<1>3. request'[q] = NULL /\ \A p \in Requests : p # q => request'[p] = request[p]
  BY <1>1
<1>4. ~Holds(q)' /\ ~Doing(q, "closure")' /\ OverrideFits(q)' /\ ClosureFits(q)'
  BY <1>3 DEF Holds, Doing, OverrideFits, ClosureFits
<1>5. ASSUME NEW p \in Requests, p # q
      PROVE  /\ OverrideFits(p)' /\ ClosureFits(p)'
             /\ Holds(p)' <=> Holds(p)
             /\ Doing(p, "closure")' <=> Doing(p, "closure")
  <2>1. request'[p] = request[p]
    BY <1>3, <1>5
  <2>2. (Doing(p, "override")' <=> Doing(p, "override"))
        /\ (Doing(p, "closure")' <=> Doing(p, "closure")) /\ (Holds(p)' <=> Holds(p))
    BY <2>1 DEF Doing, Holds
  <2>3. OverrideFits(p)'
    BY <2>1, <2>2 DEF RangesInv, OverrideFits
  <2>4. ClosureFits(p)'
    <3>1. ASSUME Doing(p, "closure")
          PROVE  \A r \in request[p].ranges, c \in ActiveClosures' : ~RangesOverlap(closure'[c], r)
      BY <1>5, <3>1 DEF RangesInv, ClosureFits
    <3> QED BY <2>1, <2>2, <3>1 DEF RangesInv, ClosureFits
  <2> QED BY <2>2, <2>3, <2>4
<1>6. RangesDoNotOverlap'
  BY DEF RangesInv, RangesDoNotOverlap
<1> QED BY <1>2, <1>3, <1>4, <1>5, <1>6 DEF RangesInv

\* The new rows fit among the active ones, and among themselves.
LEMMA SaveClosuresRanges ==
    ASSUME RangesInv, NEW q \in Requests, SaveClosures(q)
    PROVE  RangesInv'
<1> DEFINE new == request[q].ranges
           Made(c, r) == closure'[c] = [from |-> r.from, to |-> r.to, cancelled |-> FALSE]
<1>1. Doing(q, "closure") /\ new \in ClosureRequests
      /\ \A r \in new, c \in ActiveClosures : ~RangesOverlap(closure[c], r)
  BY DEF SaveClosures, RangesInv, ClosureFits
<1>2. PICK row \in [new -> {c \in Closures : closure[c] = NULL}] :
        /\ \A r, s \in new : row[r] = row[s] => r = s
        /\ closure' = [c \in Closures |->
              IF \E r \in new : row[r] = c
              THEN LET r == CHOOSE r \in new : row[r] = c
                   IN  [from |-> r.from, to |-> r.to, cancelled |-> FALSE]
              ELSE closure[c]]
  BY DEF SaveClosures
<1>3. closure' = [c \in Closures |-> closure'[c]]
  BY <1>2
<1>4. ASSUME NEW c \in Closures, ~\E r \in new : row[r] = c
      PROVE  closure'[c] = closure[c]
  BY <1>2, <1>4
<1>5. ASSUME NEW c \in Closures, NEW r \in new, row[r] = c
      PROVE  Made(c, r)
  <2>1. (CHOOSE s \in new : row[s] = c) = r
    BY <1>2, <1>5
  <2> QED BY <1>2, <1>5, <2>1
<1>6. ASSUME NEW c \in Closures
      PROVE  \/ closure'[c] = closure[c] /\ ~\E r \in new : row[r] = c
             \/ \E r \in new : row[r] = c /\ Made(c, r)
  BY <1>4, <1>5
<1>7. ASSUME NEW c \in Closures, NEW r \in new, Made(c, r)
      PROVE  /\ ClosureRow(closure'[c])
             /\ closure'[c].from = r.from /\ closure'[c].to = r.to
  BY <1>7 DEF ClosureRow
<1> HIDE DEF Made
<1>8. \A c \in Closures : closure'[c] # NULL => ClosureRow(closure'[c])
  BY <1>6, <1>7 DEF RangesInv
<1>9. ASSUME NEW c \in ActiveClosures'
      PROVE  \/ closure'[c] = closure[c] /\ c \in ActiveClosures
             \/ \E r \in new : row[r] = c /\ Made(c, r)
  BY <1>6 DEF ActiveClosures
<1>10. ASSUME NEW c \in ActiveClosures', NEW d \in ActiveClosures', c # d
       PROVE  ~RangesOverlap(closure'[c], closure'[d])
  <2>0. c \in Closures /\ d \in Closures
    BY DEF ActiveClosures
  <2>1. CASE closure'[c] = closure[c] /\ c \in ActiveClosures
             /\ closure'[d] = closure[d] /\ d \in ActiveClosures
    BY <1>10, <2>1 DEF RangesInv, RangesDoNotOverlap
  <2>2. ASSUME closure'[c] = closure[c], c \in ActiveClosures,
               NEW r \in new, row[r] = d, Made(d, r)
        PROVE  ~RangesOverlap(closure'[c], closure'[d])
    <3>1. ~RangesOverlap(closure[c], r)
      BY <1>1, <2>2
    <3> QED BY <1>7, <2>0, <2>2, <3>1 DEF RangesOverlap
  <2>3. ASSUME closure'[d] = closure[d], d \in ActiveClosures,
               NEW r \in new, row[r] = c, Made(c, r)
        PROVE  ~RangesOverlap(closure'[c], closure'[d])
    <3>1. ~RangesOverlap(closure[d], r)
      BY <1>1, <2>3
    <3> QED BY <1>7, <2>0, <2>3, <3>1 DEF RangesOverlap
  <2>4. ASSUME NEW r \in new, row[r] = c, Made(c, r), NEW s \in new, row[s] = d, Made(d, s)
        PROVE  ~RangesOverlap(closure'[c], closure'[d])
    <3>1. ~RangesOverlap(r, s)
      BY <1>1, <1>10, <2>4, AttendanceAssumption
    <3> QED BY <1>7, <2>0, <2>4, <3>1 DEF RangesOverlap
  <2> QED BY <1>9, <2>1, <2>2, <2>3, <2>4
<1>11. \A p \in Requests : Doing(p, "closure") => p = q
  BY <1>1 DEF RangesInv
<1>12. request' = [request EXCEPT ![q] = NULL] /\ UNCHANGED override
  BY DEF SaveClosures, Done
<1> QED BY <1>3, <1>8, <1>10, <1>11, <1>12, ClosedRanges

LEMMA CancelledRow ==
    ASSUME NEW from, NEW to, NEW b, NEW x, x = [from |-> from, to |-> to, cancelled |-> b]
    PROVE  [x EXCEPT !.cancelled = TRUE] = [from |-> from, to |-> to, cancelled |-> TRUE]
<1>1. x \in [from : {from}, to : {to}, cancelled : {b}]
  OBVIOUS
<1>2. [x EXCEPT !.cancelled = TRUE] \in [from : {from}, to : {to}, cancelled : {TRUE}]
  BY <1>1
<1>3. ASSUME NEW y \in [from : {from}, to : {to}, cancelled : {TRUE}]
      PROVE  y = [from |-> from, to |-> to, cancelled |-> TRUE]
  <2>1. y = [from |-> y.from, to |-> y.to, cancelled |-> y.cancelled]
    OBVIOUS
  <2>2. y.from = from /\ y.to = to /\ y.cancelled = TRUE
    OBVIOUS
  <2> QED BY <2>1, <2>2
<1> QED BY <1>2, <1>3

LEMMA CancelRanges ==
    ASSUME RangesInv, NEW q \in Requests, NEW c \in Closures, CancelClosure(q, c)
    PROVE  RangesInv'
<1> DEFINE x == closure[c]
           y == [from |-> x.from, to |-> x.to, cancelled |-> TRUE]
<1>1. x # NULL /\ x = [from |-> x.from, to |-> x.to, cancelled |-> x.cancelled]
  BY DEF CancelClosure, ActiveClosures, RangesInv, ClosureRow
<1>2. [x EXCEPT !.cancelled = TRUE] = y
  <2> HIDE DEF x
  <2> QED BY <1>1, CancelledRow
<1>3. closure' = [closure EXCEPT ![c] = y]
  <2>1. closure' = [closure EXCEPT ![c] = [x EXCEPT !.cancelled = TRUE]]
    BY DEF CancelClosure, RangesInv
  <2> QED BY <1>2, <2>1
<1>4. ClosureRow(y) /\ y.cancelled = TRUE
  BY DEF ClosureRow
<1> HIDE DEF y
<1>5. closure' = [d \in Closures |-> IF d = c THEN y ELSE closure[d]]
  BY <1>3 DEF RangesInv
<1>6. closure' = [d \in Closures |-> closure'[d]]
  BY <1>5
<1>7. closure'[c] = y /\ \A d \in Closures : d # c => closure'[d] = closure[d]
  BY <1>5
<1>8. \A d \in Closures : closure'[d] # NULL => ClosureRow(closure'[d])
  BY <1>4, <1>7 DEF RangesInv
<1>9. \A d \in ActiveClosures' : d \in ActiveClosures /\ closure'[d] = closure[d]
  BY <1>4, <1>7 DEF ActiveClosures
<1>10. \A d, e \in ActiveClosures' : d # e => ~RangesOverlap(closure'[d], closure'[e])
  BY <1>9 DEF RangesInv, RangesDoNotOverlap
<1>11. request' = [request EXCEPT ![q] = NULL] /\ UNCHANGED override
  BY DEF CancelClosure, AtOnce, Begin
<1> QED BY <1>6, <1>8, <1>9, <1>10, <1>11, ClosedRanges

-----------------------------------------------------------------------------
LEMMA RangesInit ==
    ASSUME StaffInit
    PROVE  RangesInv
  BY DEF StaffInit, TenantInit, AttendanceInit, RangesInv, OverrideFits, ClosureFits, Holds,
         Doing, RangesDoNotOverlap, ActiveClosures

LEMMA RangesStep ==
    ASSUME RangesInv, [StaffNext]_staffVars
    PROVE  RangesInv'
<1>1. CASE TenantStep /\ UNCHANGED hrVars
  BY <1>1, TenantStepRanges
<1>2. ASSUME NEW q \in Requests, NEW dto \in NewOverrides, CreateOverride(q, dto)
      PROVE  RangesInv'
  BY <1>2, RecordingRanges DEF CreateOverride
<1>3. ASSUME NEW q \in Requests, NEW o \in Overrides, NEW change \in OverrideChanges,
             UpdateOverride(q, o, change)
      PROVE  RangesInv'
  BY <1>3, RecordingRanges DEF UpdateOverride
<1>4. CASE AttendanceStep
  BY <1>2, <1>3, <1>4, AssignRanges, LockRanges, SaveRanges, RemovalRanges,
     CreateClosuresRanges, SaveClosuresRanges, CancelRanges
     DEF AttendanceStep
<1>5. CASE UNCHANGED staffVars
  BY <1>5, NothingRecorded DEF staffVars, hrVars
<1> QED BY <1>1, <1>4, <1>5 DEF StaffNext

\* Two overrides of an employee, and two active closures of the store, have no
\* day in common, for any number of requests that record, change and remove them
\* (withAttendanceLock of the attendance overrides and of the store closures).
THEOREM RangesDoNotOverlapHolds == StaffSpec => []RangesDoNotOverlap
<1>1. StaffInit => RangesInv
  BY RangesInit
<1>2. RangesInv /\ [StaffNext]_staffVars => RangesInv'
  BY RangesStep
<1>3. RangesInv => RangesDoNotOverlap
  BY DEF RangesInv
<1> QED BY <1>1, <1>2, <1>3, PTL DEF StaffSpec

-----------------------------------------------------------------------------
(* Seats: the lock of the tenant's row.                                    *)

RowFits(row) ==
    /\ {"maxUsers", "maxStores"} \subseteq DOMAIN row
    /\ row.maxUsers \in Nat /\ row.maxStores \in Nat

\* What the lock's holder counted is still so, what is saved is a whole row, and
\* a user who was read still exists.
RequestFits(q) ==
    /\ Doing(q, "seat") =>
          /\ request[q].what \in {"user", "store"}
          /\ "count" \in DOMAIN request[q] => request[q].count = Used(request[q].what)
    /\ Doing(q, "master") \/ Doing(q, "guard") \/ Doing(q, "provision")
          => RowFits(request[q].row)
    /\ Doing(q, "account") => request[q].user \in Existing /\ request[q].row # "absent"

SeatInv ==
    /\ request = [q \in Requests |-> request[q]]
    /\ account = [u \in Users |-> account[u]]
    /\ stores \in Nat /\ RowFits(tenant)
    /\ \A q \in Requests : RequestFits(q)
    /\ \A p, q \in Requests : Doing(p, "seat") /\ Doing(q, "seat") => p = q

LEMMA ExistingIsFinite == IsFiniteSet(Existing) /\ Cardinality(Existing) \in Nat
<1>1. Existing \subseteq Users
  BY DEF Existing
<1> QED BY <1>1, TenantAssumption, FS_Subset, FS_CardinalityType

\* A request moves; users stay, and nobody else holds the lock if seats change.
LEMMA SeatFrame ==
    ASSUME SeatInv, NEW q \in Requests, NEW r, request' = [request EXCEPT ![q] = r],
           account' = [u \in Users |-> account'[u]], stores' \in Nat, RowFits(tenant'),
           Existing \subseteq Existing',
           r # NULL /\ r.kind = "seat" =>
              \A p \in Requests : p # q => ~Doing(p, "seat"),
           \/ Existing' = Existing /\ stores' = stores
           \/ \A p \in Requests : p # q => ~Doing(p, "seat"),
           request'[q] = r => RequestFits(q)'
    PROVE  SeatInv'
<1>1. request' = [p \in Requests |-> IF p = q THEN r ELSE request[p]]
  BY DEF SeatInv
<1>2. request' = [p \in Requests |-> request'[p]]
  BY <1>1
<1>3. request'[q] = r /\ \A p \in Requests : p # q => request'[p] = request[p]
  BY <1>1
<1>4. ASSUME NEW p \in Requests, p # q
      PROVE  RequestFits(p)' /\ (Doing(p, "seat")' <=> Doing(p, "seat"))
  <2>1. request'[p] = request[p]
    BY <1>3, <1>4
  <2>2. \A kind : Doing(p, kind)' <=> Doing(p, kind)
    BY <2>1 DEF Doing
  <2>3. Doing(p, "seat") => Existing' = Existing /\ stores' = stores
    BY <1>4
  <2>4. Doing(p, "seat") => \A what : Used(what)' = Used(what)
    BY <2>3 DEF Used
  <2> QED BY <2>1, <2>2, <2>4 DEF SeatInv, RequestFits
<1>5. Doing(q, "seat")' => \A p \in Requests : p # q => ~Doing(p, "seat")
  BY <1>3 DEF Doing
<1> QED BY <1>2, <1>3, <1>4, <1>5 DEF SeatInv

\* A request of no seat, of no row and of no account, and nothing of the tenant changes.
LEMMA SeatHarmless ==
    ASSUME SeatInv, UNCHANGED tenantVars, NEW q \in Requests, NEW r,
           request' = [request EXCEPT ![q] = r],
           r # NULL => r.kind \notin {"seat", "master", "guard", "provision", "account"}
    PROVE  SeatInv'
<1>1. UNCHANGED <<tenant, account, stores>> /\ Existing' = Existing
  BY DEF tenantVars, Existing
<1>2. request'[q] = r => RequestFits(q)'
  BY DEF RequestFits, Doing
<1>3. r # NULL => r.kind # "seat"
  OBVIOUS
<1> QED BY <1>1, <1>2, <1>3, SeatFrame DEF SeatInv

LEMMA SeatUnmoved ==
    ASSUME SeatInv, UNCHANGED <<request, tenantVars>>
    PROVE  SeatInv'
<1>1. Existing' = Existing /\ \A what : Used(what)' = Used(what)
  BY DEF tenantVars, Existing, Used
<1>2. \A q \in Requests : \A kind : Doing(q, kind)' <=> Doing(q, kind)
  BY DEF Doing
<1>3. \A q \in Requests : RequestFits(q)'
  BY <1>1, <1>2 DEF SeatInv, RequestFits
<1> QED BY <1>2, <1>3 DEF SeatInv, tenantVars

\* Nothing of the staff's attendance touches the tenant.
LEMMA AttendanceSeats ==
    ASSUME SeatInv, AttendanceStep
    PROVE  SeatInv'
<1> SUFFICES ASSUME NEW q \in Requests,
        \/ \E u \in Users : AssignLook(q, u)
        \/ AssignReopen(q) \/ AssignNew(q) \/ AssignInsert(q)
        \/ \E i \in DOMAIN assignment : Unassign(q, i)
        \/ \E dto \in NewOverrides : CreateOverride(q, dto)
        \/ \E o \in Overrides :
              \/ \E c \in OverrideChanges : UpdateOverride(q, o, c)
              \/ SaveNewOverride(q, o) \/ RemoveOverride(q, o)
        \/ LockOverride(q) \/ SaveOverride(q) \/ DeleteOverride(q)
        \/ \E ranges \in ClosureRequests : CreateClosures(q, ranges)
        \/ SaveClosures(q)
        \/ \E c \in Closures : CancelClosure(q, c)
      PROVE SeatInv'
  BY DEF AttendanceStep
<1>1. ASSUME NEW u \in Users, AssignLook(q, u) PROVE SeatInv'
  BY <1>1, SeatHarmless DEF AssignLook, Begin
<1>2. CASE AssignReopen(q) \/ AssignInsert(q)
  BY <1>2, SeatHarmless DEF AssignReopen, AssignInsert, Done
<1>3. CASE AssignNew(q)
  BY <1>3, SeatHarmless DEF AssignNew
<1>4. ASSUME NEW i, Unassign(q, i) PROVE SeatInv'
  BY <1>4, SeatHarmless DEF Unassign, AtOnce, Begin
<1>5. ASSUME NEW id, NEW row, Recording(q, id, row) PROVE SeatInv'
  BY <1>5, SeatHarmless DEF Recording, Begin
<1>6. ASSUME NEW o, \/ \E c \in OverrideChanges : UpdateOverride(q, o, c)
                   \/ SaveNewOverride(q, o) \/ RemoveOverride(q, o)
      PROVE  SeatInv'
  <2>1. CASE \E c \in OverrideChanges : UpdateOverride(q, o, c)
    BY <1>5, <2>1 DEF UpdateOverride
  <2>2. CASE SaveNewOverride(q, o)
    BY <2>2, SeatHarmless DEF SaveNewOverride, Done
  <2>3. CASE RemoveOverride(q, o)
    BY <2>3, SeatHarmless DEF RemoveOverride, Begin
  <2> QED BY <1>6, <2>1, <2>2, <2>3
<1>7. CASE LockOverride(q)
  <2>1. CASE Done(q)
    BY <1>7, <2>1, SeatHarmless DEF LockOverride, Done
  <2>2. CASE request' = [request EXCEPT ![q].locked = TRUE]
    <3>1. request' = [request EXCEPT ![q] = [request[q] EXCEPT !.locked = TRUE]]
      BY <2>2 DEF SeatInv
    <3>2. [request[q] EXCEPT !.locked = TRUE].kind = "override"
      BY <1>7 DEF LockOverride, Doing
    <3> QED BY <1>7, <3>1, <3>2, SeatHarmless DEF LockOverride
  <2> QED BY <1>7, <2>1, <2>2 DEF LockOverride
<1>8. CASE SaveOverride(q) \/ DeleteOverride(q) \/ SaveClosures(q)
  BY <1>8, SeatHarmless DEF SaveOverride, DeleteOverride, SaveClosures, Done
<1>9. ASSUME NEW ranges, CreateClosures(q, ranges) PROVE SeatInv'
  BY <1>9, SeatHarmless DEF CreateClosures, Begin
<1>10. ASSUME NEW c, CancelClosure(q, c) PROVE SeatInv'
  BY <1>10, SeatHarmless DEF CancelClosure, AtOnce, Begin
<1> QED BY <1>1, <1>2, <1>3, <1>4, <1>5, <1>6, <1>7, <1>8, <1>9, <1>10 DEF CreateOverride

\* All of the row as it was read goes back, while nobody holds the lock.
LEMMA RowSeats ==
    ASSUME SeatInv, NEW q \in Requests,
           \/ \E c \in MasterChanges : MasterRead(q, c)
           \/ MasterSave(q) \/ GuardRead(q) \/ GuardSuspend(q)
           \/ ProvisionRead(q) \/ ProvisionFails(q)
    PROVE  SeatInv'
<1>1. ASSUME NEW kind \in {"master", "guard", "provision"}, NEW row, RowFits(row),
             UNCHANGED tenantVars, Begin(q, "master", [kind |-> kind, row |-> row])
      PROVE  SeatInv'
  <2> DEFINE r == [kind |-> kind, row |-> row]
  <2>1. r.kind = kind /\ r.row = row /\ request' = [request EXCEPT ![q] = r]
    BY <1>1 DEF Begin
  <2> HIDE DEF r
  <2>2. UNCHANGED <<tenant, account, stores>> /\ Existing' = Existing
    BY <1>1 DEF tenantVars, Existing
  <2>3. request'[q] = r => RequestFits(q)'
    BY <1>1, <2>1 DEF RequestFits, Doing
  <2> QED BY <2>1, <2>2, <2>3, SeatFrame DEF SeatInv
<1>2. ASSUME NEW c \in MasterChanges, MasterRead(q, c) PROVE SeatInv'
  <2> DEFINE row == [f \in DOMAIN tenant |-> IF f \in DOMAIN c THEN c[f] ELSE tenant[f]]
  <2>1. {"maxUsers", "maxStores"} \subseteq DOMAIN tenant
        /\ tenant["maxUsers"] \in Nat /\ tenant["maxStores"] \in Nat
    BY DEF SeatInv, RowFits
  <2>2. ASSUME NEW f \in {"maxUsers", "maxStores"} PROVE f \in DOMAIN row /\ row[f] \in Nat
    BY <2>1, TenantAssumption
  <2>3. RowFits(row)
    <3>1. "maxUsers" \in DOMAIN row /\ row["maxUsers"] \in Nat
      BY <2>2
    <3>2. "maxStores" \in DOMAIN row /\ row["maxStores"] \in Nat
      BY <2>2
    <3> HIDE DEF row
    <3> QED BY <3>1, <3>2 DEF RowFits
  <2>4. UNCHANGED tenantVars /\ Begin(q, "master", [kind |-> "master", row |-> row])
    BY <1>2 DEF MasterRead
  <2> HIDE DEF row
  <2> QED BY <1>1, <2>3, <2>4
<1>3. CASE GuardRead(q)
  <2>1. RowFits([tenant EXCEPT !.status = "SUSPENDED"])
    BY DEF SeatInv, RowFits
  <2> QED BY <1>1, <1>3, <2>1 DEF GuardRead
<1>4. CASE ProvisionRead(q)
  <2>1. RowFits([tenant EXCEPT !.status = "ACTIVE"])
    BY DEF SeatInv, RowFits
  <2> QED BY <1>1, <1>4, <2>1 DEF ProvisionRead
<1>5. CASE ProvisionFails(q)
  BY <1>5, SeatHarmless DEF ProvisionFails, Done
<1>6. CASE MasterSave(q) \/ GuardSuspend(q)
  <2>1. RowFits(request[q].row) /\ tenant' = request[q].row
    BY <1>6 DEF MasterSave, GuardSuspend, SeatInv, RequestFits
  <2>2. UNCHANGED <<account, stores>> /\ Existing' = Existing
    BY <1>6 DEF MasterSave, GuardSuspend, Existing
  <2>3. request' = [request EXCEPT ![q] = NULL]
    BY <1>6 DEF MasterSave, GuardSuspend, Done
  <2>4. request'[q] = NULL => RequestFits(q)'
    BY DEF RequestFits, Doing
  <2> QED BY <2>1, <2>2, <2>3, <2>4, SeatFrame DEF SeatInv
<1> QED BY <1>2, <1>3, <1>4, <1>5, <1>6

\* A new user takes one seat, and only from the tenant's empty staff a store too.
LEMMA NewUser ==
    ASSUME SeatInv, NEW u \in Users, account[u] = "absent",
           account' = [account EXCEPT ![u] = "ACTIVE"]
    PROVE  /\ account' = [v \in Users |-> account'[v]]
           /\ Existing \subseteq Existing'
           /\ Cardinality(Existing') = Cardinality(Existing) + 1
<1>1. account' = [v \in Users |-> IF v = u THEN "ACTIVE" ELSE account[v]]
  BY DEF SeatInv
<1>2. account' = [v \in Users |-> account'[v]]
  BY <1>1
<1>3. account'[u] = "ACTIVE" /\ \A v \in Users : v # u => account'[v] = account[v]
  BY <1>1
<1>4. Existing' = Existing \cup {u} /\ u \notin Existing
  BY <1>3 DEF Existing
<1> QED BY <1>2, <1>4, ExistingIsFinite, FS_AddElement

LEMMA SaleOfSeats ==
    ASSUME SeatInv, NEW q \in Requests,
           \/ \E what \in {"user", "store"}, by \in {"master", "tenant"} : LockTenant(q, what, by)
           \/ SeatCounted(q) \/ AddStore(q) \/ SeatRefused(q)
           \/ \E u \in Users : Provision(q, u) \/ AddUser(q, u)
    PROVE  SeatInv'
<1>1. ASSUME NEW what \in {"user", "store"}, NEW by, LockTenant(q, what, by) PROVE SeatInv'
  <2> DEFINE r == [kind |-> "seat", what |-> what, by |-> by]
  <2>1. r.kind = "seat" /\ r.what = what /\ "count" \notin DOMAIN r
        /\ request' = [request EXCEPT ![q] = r]
    BY <1>1 DEF LockTenant, Begin
  <2> HIDE DEF r
  <2>2. UNCHANGED <<tenant, account, stores>> /\ Existing' = Existing
    BY <1>1 DEF LockTenant, tenantVars, Existing
  <2>3. request'[q] = r => RequestFits(q)'
    BY <1>1, <2>1 DEF RequestFits, Doing
  <2>4. \A p \in Requests : ~Doing(p, "seat")
    BY <1>1 DEF LockTenant, SeatLocked
  <2> QED BY <2>1, <2>2, <2>3, <2>4, SeatFrame DEF SeatInv
<1>2. CASE SeatCounted(q)
  <2> DEFINE what == request[q].what
             r == [kind |-> "seat", what |-> what, by |-> request[q].by, count |-> Used(what)]
  <2>1. Doing(q, "seat") /\ what \in {"user", "store"}
    BY <1>2 DEF SeatCounted, SeatInv, RequestFits
  <2>2. r.kind = "seat" /\ r.what = what /\ r.count = Used(what)
        /\ request' = [request EXCEPT ![q] = r]
    BY <1>2 DEF SeatCounted
  <2> HIDE DEF r
  <2>3. UNCHANGED <<tenant, account, stores>> /\ Existing' = Existing
    BY <1>2 DEF SeatCounted, tenantVars, Existing
  <2>4. \A w : Used(w)' = Used(w)
    BY <2>3 DEF Used
  <2>5. request'[q] = r => RequestFits(q)'
    BY <2>1, <2>2, <2>4 DEF RequestFits, Doing
  <2>6. \A p \in Requests : p # q => ~Doing(p, "seat")
    BY <2>1 DEF SeatInv
  <2> QED BY <2>2, <2>3, <2>5, <2>6, SeatFrame DEF SeatInv
<1>3. CASE SeatRefused(q)
  BY <1>3, SeatHarmless DEF SeatRefused, Done
<1>4. ASSUME request' = [request EXCEPT ![q] = NULL], stores' \in Nat, RowFits(tenant'),
             \A p \in Requests : p # q => ~Doing(p, "seat"),
             account' = [v \in Users |-> account'[v]], Existing \subseteq Existing'
      PROVE  SeatInv'
  <2>1. request'[q] = NULL => RequestFits(q)'
    BY DEF RequestFits, Doing
  <2> QED BY <1>4, <2>1, SeatFrame
<1>5. CASE AddStore(q)
  <2>1. \A p \in Requests : p # q => ~Doing(p, "seat")
    BY <1>5 DEF AddStore, SeatInv
  <2>2. Existing' = Existing
    BY <1>5 DEF AddStore, Existing
  <2> QED BY <1>4, <1>5, <2>1, <2>2 DEF AddStore, Done, SeatInv
<1>6. ASSUME NEW u \in Users, AddUser(q, u) PROVE SeatInv'
  <2>1. \A p \in Requests : p # q => ~Doing(p, "seat")
    BY <1>6 DEF AddUser, SeatInv
  <2>2. account' = [v \in Users |-> account'[v]] /\ Existing \subseteq Existing'
    BY <1>6, NewUser DEF AddUser
  <2>3. stores' \in Nat
    BY <1>6 DEF AddUser, SeatInv
  <2> QED BY <1>4, <1>6, <2>1, <2>2, <2>3 DEF AddUser, Done, SeatInv
<1>7. ASSUME NEW u \in Users, Provision(q, u) PROVE SeatInv'
  <2>1. \A p \in Requests : ~Doing(p, "seat")
    BY <1>7 DEF Provision, SeatLocked
  <2>2. account' = [v \in Users |-> account'[v]] /\ Existing \subseteq Existing'
    BY <1>7, NewUser DEF Provision
  <2>3. stores' \in Nat /\ RowFits(tenant')
    BY <1>7 DEF Provision, SeatInv, RequestFits
  <2> QED BY <1>4, <1>7, <2>1, <2>2, <2>3 DEF Provision, Done
<1> QED BY <1>1, <1>2, <1>3, <1>5, <1>6, <1>7

\* An update or a removal leaves the same users.
LEMMA SavedUser ==
    ASSUME SeatInv, NEW q \in Requests, UserSave(q)
    PROVE  account' = [v \in Users |-> account'[v]] /\ Existing' = Existing
<1> DEFINE u == request[q].user
<1>1. u \in Users /\ account[u] # "absent" /\ request[q].row # "absent"
  BY DEF UserSave, SeatInv, RequestFits, Existing
<1>2. account' = [v \in Users |-> IF v = u THEN request[q].row ELSE account[v]]
  BY <1>1 DEF UserSave, SeatInv
<1>3. account' = [v \in Users |-> account'[v]]
  BY <1>2
<1>4. \A v \in Users : account'[v] = "absent" <=> account[v] = "absent"
  BY <1>1, <1>2
<1> QED BY <1>3, <1>4 DEF Existing

LEMMA UserSeats ==
    ASSUME SeatInv, NEW q \in Requests,
           \/ \E u \in Users, change \in {"remove", "restore", "edit"} : UserRead(q, u, change)
           \/ UserSave(q)
    PROVE  SeatInv'
<1>1. ASSUME NEW u \in Users, NEW change \in {"remove", "restore", "edit"}, UserRead(q, u, change)
      PROVE  SeatInv'
  <2> DEFINE row == CASE change = "remove" -> "INACTIVE"
                      [] change = "restore" -> "ACTIVE"
                      [] OTHER -> account[u]
             r == [kind |-> "account", user |-> u, op |-> change, row |-> row]
  <2>1. row # "absent" /\ u \in Existing
    BY <1>1 DEF UserRead, Existing
  <2> HIDE DEF row
  <2>2. r.kind = "account" /\ r.user = u /\ r.row = row
    OBVIOUS
  <2>3. request' = [request EXCEPT ![q] = r]
    BY <1>1 DEF UserRead, Begin, row
  <2> HIDE DEF r
  <2>4. UNCHANGED <<tenant, account, stores>> /\ Existing' = Existing
    BY <1>1 DEF UserRead, tenantVars, Existing
  <2>5. request'[q] = r => RequestFits(q)'
    BY <2>1, <2>2, <2>4 DEF RequestFits, Doing
  <2> QED BY <2>2, <2>3, <2>4, <2>5, SeatFrame DEF SeatInv
<1>2. CASE UserSave(q)
  <2>1. account' = [v \in Users |-> account'[v]] /\ Existing' = Existing
    BY <1>2, SavedUser
  <2>2. request' = [request EXCEPT ![q] = NULL] /\ UNCHANGED <<tenant, stores>>
    BY <1>2 DEF UserSave, Done
  <2>3. request'[q] = NULL => RequestFits(q)'
    BY DEF RequestFits, Doing
  <2> QED BY <2>1, <2>2, <2>3, SeatFrame DEF SeatInv
<1> QED BY <1>1, <1>2

LEMMA SeatsStep ==
    ASSUME SeatInv, [StaffNext]_staffVars
    PROVE  SeatInv'
<1>1. CASE TenantStep
  <2>1. CASE Midnight
    BY <2>1, SeatUnmoved DEF Midnight
  <2> QED BY <1>1, <2>1, RowSeats, SaleOfSeats, UserSeats DEF TenantStep
<1>2. CASE UNCHANGED staffVars
  BY <1>2, SeatUnmoved DEF staffVars, tenantVars
<1> QED BY <1>1, <1>2, AttendanceSeats DEF StaffNext

LEMMA TenantKept ==
    ASSUME AttendanceStep
    PROVE  UNCHANGED tenantVars
<1> PICK q \in Requests :
        \/ \E u \in Users : AssignLook(q, u)
        \/ AssignReopen(q) \/ AssignNew(q) \/ AssignInsert(q)
        \/ \E i \in DOMAIN assignment : Unassign(q, i)
        \/ \E dto \in NewOverrides : CreateOverride(q, dto)
        \/ \E o \in Overrides :
              \/ \E c \in OverrideChanges : UpdateOverride(q, o, c)
              \/ SaveNewOverride(q, o) \/ RemoveOverride(q, o)
        \/ LockOverride(q) \/ SaveOverride(q) \/ DeleteOverride(q)
        \/ \E ranges \in ClosureRequests : CreateClosures(q, ranges)
        \/ SaveClosures(q)
        \/ \E c \in Closures : CancelClosure(q, c)
  BY DEF AttendanceStep
<1>1. ASSUME \/ \E u \in Users : AssignLook(q, u)
             \/ AssignReopen(q) \/ AssignNew(q) \/ AssignInsert(q)
             \/ \E i \in DOMAIN assignment : Unassign(q, i)
      PROVE  UNCHANGED tenantVars
  BY <1>1 DEF AssignLook, AssignReopen, AssignNew, AssignInsert, Unassign
<1>2. ASSUME NEW id, NEW row, Recording(q, id, row) PROVE UNCHANGED tenantVars
  BY <1>2 DEF Recording
<1>3. ASSUME NEW o, SaveNewOverride(q, o) \/ RemoveOverride(q, o) PROVE UNCHANGED tenantVars
  BY <1>3 DEF SaveNewOverride, RemoveOverride
<1>4. ASSUME LockOverride(q) \/ SaveOverride(q) \/ DeleteOverride(q) \/ SaveClosures(q)
      PROVE  UNCHANGED tenantVars
  BY <1>4 DEF LockOverride, SaveOverride, DeleteOverride, SaveClosures
<1>5. ASSUME \/ \E ranges \in ClosureRequests : CreateClosures(q, ranges)
             \/ \E c \in Closures : CancelClosure(q, c)
      PROVE  UNCHANGED tenantVars
  BY <1>5 DEF CreateClosures, CancelClosure
<1> QED BY <1>1, <1>2, <1>3, <1>4, <1>5 DEF CreateOverride, UpdateOverride

LEMMA SeatsInit ==
    ASSUME StaffInit
    PROVE  SeatInv
<1>1. RowFits(tenant)
  BY TenantAssumption DEF StaffInit, TenantInit, RowFits, TenantRow
<1>2. \A q \in Requests : \A kind : ~Doing(q, kind)
  BY DEF StaffInit, TenantInit, Doing
<1> QED BY <1>1, <1>2 DEF StaffInit, TenantInit, SeatInv, RequestFits

\* What one step sells.
SeatsSold ==
    systemUser' = systemUser =>
        /\ Cardinality(Existing') > Cardinality(Existing)
              => Cardinality(Existing') <= tenant.maxUsers
        /\ stores' > stores => stores' <= tenant.maxStores \/ Existing = {}

LEMMA StepSells ==
    ASSUME SeatInv, [StaffNext]_staffVars
    PROVE  SeatsSold
<1>0. Cardinality(Existing) \in Nat /\ stores \in Nat
  BY ExistingIsFinite DEF SeatInv
<1>1. ASSUME Existing' = Existing, stores' = stores PROVE SeatsSold
  BY <1>0, <1>1 DEF SeatsSold
<1>2. CASE UNCHANGED <<account, stores>>
  BY <1>1, <1>2 DEF Existing
<1>3. ASSUME NEW q \in Requests, UserSave(q) PROVE SeatsSold
  BY <1>1, <1>3, SavedUser DEF UserSave
<1>4. ASSUME NEW q \in Requests, NEW u \in Users, Provision(q, u) PROVE SeatsSold
  BY <1>4 DEF Provision, SeatsSold
<1>5. ASSUME NEW q \in Requests, AddStore(q) PROVE SeatsSold
  <2>1. request[q].count = stores /\ request[q].count < tenant.maxStores
    BY <1>5 DEF AddStore, SeatInv, RequestFits, Used, SeatFree, Limit
  <2>2. Existing' = Existing
    BY <1>5 DEF AddStore, Existing
  <2>3. tenant.maxStores \in Nat
    BY DEF SeatInv, RowFits
  <2> QED BY <1>0, <1>5, <2>1, <2>2, <2>3 DEF AddStore, SeatsSold
<1>6. ASSUME NEW q \in Requests, NEW u \in Users, AddUser(q, u) PROVE SeatsSold
  <2>1. request[q].count = Cardinality(Existing) /\ request[q].count < tenant.maxUsers
    BY <1>6 DEF AddUser, SeatInv, RequestFits, Used, SeatFree, Limit
  <2>2. Cardinality(Existing') = Cardinality(Existing) + 1
    BY <1>6, NewUser DEF AddUser
  <2>3. stores' > stores => Existing = {}
    <3>1. stores' > stores => request[q].count = 0
      BY <1>0, <1>6 DEF AddUser
    <3> QED BY <2>1, <3>1, ExistingIsFinite, FS_EmptySet
  <2>4. tenant.maxUsers \in Nat
    BY DEF SeatInv, RowFits
  <2> QED BY <1>0, <2>1, <2>2, <2>3, <2>4 DEF SeatsSold
<1>7. CASE AttendanceStep
  BY <1>2, <1>7, TenantKept DEF tenantVars
<1>8. CASE TenantStep
  <2>1. ASSUME NEW q \in Requests,
               \/ \E c \in MasterChanges : MasterRead(q, c)
               \/ MasterSave(q) \/ GuardRead(q) \/ GuardSuspend(q)
               \/ ProvisionRead(q) \/ ProvisionFails(q)
               \/ \E what \in {"user", "store"}, by \in {"master", "tenant"} :
                      LockTenant(q, what, by)
               \/ SeatCounted(q) \/ SeatRefused(q)
               \/ \E u \in Users : \E change \in {"remove", "restore", "edit"} : UserRead(q, u, change)
        PROVE  SeatsSold
    <3>1. UNCHANGED <<account, stores>>
      BY <2>1 DEF MasterRead, MasterSave, GuardRead, GuardSuspend, ProvisionRead,
                  ProvisionFails, LockTenant, SeatCounted, SeatRefused, UserRead, tenantVars
    <3> QED BY <1>2, <3>1
  <2>2. CASE Midnight
    BY <1>2, <2>2 DEF Midnight, tenantVars
  <2> QED BY <1>3, <1>4, <1>5, <1>6, <1>8, <2>1, <2>2 DEF TenantStep
<1> QED BY <1>2, <1>7, <1>8 DEF StaffNext, staffVars, tenantVars

\* Only the provisioning adds a user or a store beyond the limits of the tenant's
\* row, whatever the master changes of it meanwhile; the first user of a tenant
\* brings its store along (createTenantUser, createTenantStore and create of the
\* users and stores services).
THEOREM SeatsWithinPlanHolds == StaffSpec => SeatsWithinPlan
<1>1. StaffInit => SeatInv
  BY SeatsInit
<1>2. SeatInv /\ [StaffNext]_staffVars => SeatInv'
  BY SeatsStep
<1>3. SeatInv /\ [StaffNext]_staffVars => [SeatsSold]_staffVars
  BY StepSells
<1> QED BY <1>1, <1>2, <1>3, PTL DEF StaffSpec, SeatsWithinPlan, SeatsSold

-----------------------------------------------------------------------------
(* Provisioning *)

ProvisionEnds ==
    systemUser => \A q \in Requests :
        (Doing(q, "provision") /\ request'[q] = NULL) => UNCHANGED tenantVars

\* Each request ends by a step of its own, and of its kind.
LEMMA StepProvisions ==
    ASSUME SeatInv, [StaffNext]_staffVars
    PROVE  ProvisionEnds
<1> SUFFICES ASSUME systemUser, NEW q \in Requests, Doing(q, "provision"), request'[q] = NULL
             PROVE  UNCHANGED tenantVars
  BY DEF ProvisionEnds
<1>1. request[q] # NULL /\ request[q].kind = "provision"
  BY DEF Doing
<1>2. ASSUME NEW p \in Requests, NEW r, request' = [request EXCEPT ![p] = r]
      PROVE  p = q
  BY <1>1, <1>2 DEF SeatInv
<1>3. CASE Midnight \/ UNCHANGED staffVars
  BY <1>3 DEF Midnight, staffVars
<1>4. CASE AttendanceStep
  BY <1>4, TenantKept
<1>5. ASSUME NEW p \in Requests,
             MasterSave(p) \/ GuardSuspend(p) \/ AddStore(p) \/ UserSave(p)
             \/ \E u \in Users : AddUser(p, u)
      PROVE  FALSE
  <2>1. p = q
    BY <1>2, <1>5 DEF MasterSave, GuardSuspend, AddStore, UserSave, AddUser, Done
  <2> QED BY <1>1, <1>5, <2>1 DEF MasterSave, GuardSuspend, AddStore, UserSave, AddUser, Doing
<1>6. ASSUME NEW p \in Requests, NEW u \in Users, Provision(p, u)
      PROVE  FALSE
  BY <1>6 DEF Provision
<1>7. ASSUME NEW p \in Requests,
             \/ \E c \in MasterChanges : MasterRead(p, c)
             \/ GuardRead(p) \/ ProvisionRead(p) \/ ProvisionFails(p)
             \/ \E what \in {"user", "store"}, by \in {"master", "tenant"} :
                    LockTenant(p, what, by)
             \/ SeatCounted(p) \/ SeatRefused(p)
             \/ \E u \in Users : \E change \in {"remove", "restore", "edit"} : UserRead(p, u, change)
      PROVE  UNCHANGED tenantVars
  BY <1>7 DEF MasterRead, GuardRead, ProvisionRead, ProvisionFails, LockTenant, SeatCounted,
              SeatRefused, UserRead
<1> QED BY <1>3, <1>4, <1>5, <1>6, <1>7 DEF StaffNext, TenantStep

\* Once a tenant has its system user, a provisioning that ends has changed
\* nothing of it, whatever other requests do at once (provisionTenant).
THEOREM ProvisionedOnceHolds == StaffSpec => ProvisionedOnce
<1>1. StaffInit => SeatInv
  BY SeatsInit
<1>2. SeatInv /\ [StaffNext]_staffVars => SeatInv'
  BY SeatsStep
<1>3. SeatInv /\ [StaffNext]_staffVars => [ProvisionEnds]_staffVars
  BY StepProvisions
<1> QED BY <1>1, <1>2, <1>3, PTL DEF StaffSpec, ProvisionedOnce, ProvisionEnds

-----------------------------------------------------------------------------
(* The calendar: the roster of a day, whatever the order of the rows.      *)

\* A fold over a sequence is a recursion over the sets of its positions.
LEMMA SelectionByPrefixes ==
    ASSUME NEW n \in Nat, NEW entries, DOMAIN entries = 1..n, NEW day
    PROVE  \E c :
             /\ c[1..0] = {}
             /\ \A k \in 0..(n-1) :
                   c[1..(k+1)] = Considered(c[1..k], entries[k+1], day)
             /\ SelectEntriesForDate(entries, day) = c[1..n]
<1> DEFINE D == 1..n
           V == SUBSET {entries[i] : i \in D}
           pick == [s \in SUBSET D |-> Last(s)]
           step == [p \in D \X V |-> Considered(p[2], entries[p[1]], day)]
           Selects(g) == g = [s \in SUBSET D |->
                    IF s = {} THEN {} ELSE Considered(g[s \ {Last(s)}], entries[Last(s)], day)]
           c == CHOOSE g : Selects(g)
<1>1. SelectEntriesForDate(entries, day) = c[D]
  BY DEF SelectEntriesForDate, Seqs!FoldLeft, Seqs!MapThenFoldSet, Seqs!Max, Last
<1>2. IsFiniteSet(D)
  BY FS_Interval
<1>3. \A s \in SUBSET D : s # {} => pick[s] \in s /\ pick[s] = Last(s)
  BY LastIn
<1>4. {} \in V
  OBVIOUS
<1>5. \A i \in D, v \in V : Considered(v, entries[i], day) \in V
  BY DEF Considered
<1>6. step \in [D \X V -> V]
  BY <1>5
<1>7. PICK h \in [SUBSET D -> V] : Recursion(D, pick, {}, step, h)
  <2> HIDE DEF V, pick, step, D
  <2> QED BY <1>2, <1>3, <1>4, <1>6, SubsetRecursion
<1>8. Selects(h)
  <2>1. ASSUME NEW s \in SUBSET D, s # {}
        PROVE  h[s] = Considered(h[s \ {Last(s)}], entries[Last(s)], day)
    <3>1. Last(s) \in D /\ s \ {Last(s)} \in SUBSET D /\ h[s \ {Last(s)}] \in V
      BY <1>3, <1>7, <2>1
    <3>2. h[s] = step[<<Last(s), h[s \ {Last(s)}]>>]
      BY <1>3, <1>7, <2>1 DEF Recursion
    <3> QED BY <3>1, <3>2
  <2>2. h[{}] = {}
    BY <1>7 DEF Recursion
  <2> HIDE DEF V
  <2> QED BY <1>7, <2>1, <2>2
<1>9. Selects(c)
  <2> HIDE DEF Selects
  <2> QED BY <1>8, Zenon
<1> HIDE DEF c
<1>10. c[1..0] = {}
  BY <1>9
<1>11. ASSUME NEW k \in 0..(n-1)
       PROVE  c[1..(k+1)] = Considered(c[1..k], entries[k+1], day)
  <2>1. 1..(k+1) \in SUBSET D /\ 1..(k+1) # {}
    <3>1. k + 1 \in 1..(k+1)
      OBVIOUS
    <3>2. 1..(k+1) \subseteq 1..n
      OBVIOUS
    <3> QED BY <3>1, <3>2
  <2>2. Last(1..(k+1)) = k + 1
    BY LastOfPrefix
  <2>3. (1..(k+1)) \ {k+1} = 1..k
    OBVIOUS
  <2> QED BY <1>9, <2>1, <2>2, <2>3
<1> QED BY <1>1, <1>10, <1>11

-----------------------------------------------------------------------------
Entry == [employee : Users, from : Int, to : Int]

LEMMA PreferenceOrders ==
    ASSUME NEW a \in Entry, NEW b \in Entry, NEW c \in Entry,
           a.employee = b.employee, b.employee = c.employee
    PROVE  /\ ~(IsPreferredEntry(a, b) /\ IsPreferredEntry(b, a))
           /\ IsPreferredEntry(a, b) /\ IsPreferredEntry(b, c) => IsPreferredEntry(a, c)
           /\ a # b => IsPreferredEntry(a, b) \/ IsPreferredEntry(b, a)
<1>1. \A x, y \in Entry :
        IsPreferredEntry(x, y) <=>
          \/ x.to = 0 /\ y.to # 0
          \/ /\ x.to = 0 <=> y.to = 0
             /\ x.from > y.from \/ (x.from = y.from /\ x.to > y.to)
  BY DEF IsPreferredEntry
<1>2. \A x \in Entry : x.from \in Int /\ x.to \in Int
  BY DEF Entry
<1>3. a # b => a.from # b.from \/ a.to # b.to
  BY DEF Entry
<1> QED BY <1>1, <1>2, <1>3

Rival(f, e, day) == OnDuty(f, day) /\ f.employee = e.employee /\ f # e

\* The entries on duty preferred to every other of the employee.
Best(R, day) ==
    {e \in R : OnDuty(e, day) /\ \A f \in R : Rival(f, e, day) => IsPreferredEntry(e, f)}

HasBest(R, day) ==
    \A e \in R : OnDuty(e, day) => \E b \in Best(R, day) : b.employee = e.employee

LEMMA BestIsOne ==
    ASSUME NEW R, R \subseteq Entry, NEW day, NEW a \in Best(R, day), NEW b \in Best(R, day),
           a.employee = b.employee
    PROVE  a = b
<1>1. a \in R /\ b \in R /\ OnDuty(a, day) /\ OnDuty(b, day)
  BY DEF Best
<1>2. a # b => IsPreferredEntry(a, b) /\ IsPreferredEntry(b, a)
  BY <1>1 DEF Best, Rival
<1>3. a \in Entry /\ b \in Entry
  BY <1>1
<1> QED BY <1>2, <1>3, PreferenceOrders

\* One entry more.
LEMMA BestOfOneMore ==
    ASSUME NEW R, R \subseteq Entry, NEW e \in Entry, NEW day, HasBest(R, day)
    PROVE  /\ Considered(Best(R, day), e, day) = Best(R \cup {e}, day)
           /\ HasBest(R \cup {e}, day)
<1> DEFINE B == Best(R, day)
           other == {c \in B : c.employee = e.employee}
           T == R \cup {e}
<1>0. ASSUME NEW b PROVE b \in B <=> b \in R /\ OnDuty(b, day)
                 /\ \A f \in R : Rival(f, b, day) => IsPreferredEntry(b, f)
  BY DEF Best
<1>a. ASSUME NEW b PROVE b \in Best(T, day) <=> b \in T /\ OnDuty(b, day)
                 /\ \A f \in T : Rival(f, b, day) => IsPreferredEntry(b, f)
  BY DEF Best
<1>b. B \subseteq R
  BY DEF Best
<1>1. Considered(B, e, day) =
         IF ~OnDuty(e, day) \/ \E c \in other : ~IsPreferredEntry(e, c)
         THEN B ELSE (B \ other) \cup {e}
  BY DEF Considered
<1>2. ASSUME NEW b \in R, b.employee # e.employee
      PROVE  b \in B <=> b \in Best(T, day)
  BY <1>0, <1>a, <1>2 DEF Rival
<1> HIDE DEF B
<1>3. CASE ~OnDuty(e, day)
  <2>1. Best(T, day) = B
    BY <1>0, <1>a, <1>3 DEF Rival
  <2>2. HasBest(T, day)
    BY <1>3, <2>1 DEF HasBest, B
  <2> QED BY <1>1, <1>3, <2>1, <2>2 DEF B
<1>4. CASE OnDuty(e, day) /\ \E c \in other : ~IsPreferredEntry(e, c)
  <2>1. PICK c \in other : ~IsPreferredEntry(e, c)
    BY <1>4
  <2>2. c \in Entry /\ c \in R /\ c \in B /\ OnDuty(c, day) /\ c.employee = e.employee
    BY <1>0, <1>b, <2>1
  <2>3. e # c => IsPreferredEntry(c, e)
    BY <2>1, <2>2, PreferenceOrders
  <2>4. ASSUME NEW b \in T, b.employee = e.employee
        PROVE  b \in B <=> b \in Best(T, day)
    <3>0. b \in Entry
      OBVIOUS
    <3>1. ASSUME b \in B PROVE b \in Best(T, day)
      <4>1. b = c
        BY <2>2, <2>4, <3>1, BestIsOne DEF B
      <4> QED BY <1>0, <1>a, <2>2, <2>3, <3>1, <4>1
    <3>2. ASSUME b \in Best(T, day) PROVE b \in B
      <4>1. b # c => IsPreferredEntry(b, c) /\ IsPreferredEntry(c, b)
        <5>1. ASSUME b # c PROVE IsPreferredEntry(b, c)
          BY <1>a, <2>2, <2>4, <3>2, <5>1 DEF Rival
        <5>2. ASSUME b # c PROVE IsPreferredEntry(c, b)
          <6>1. CASE b = e
            BY <2>3, <5>2, <6>1
          <6>2. CASE b # e
            <7>1. b \in R /\ OnDuty(b, day)
              BY <1>a, <3>2, <6>2
            <7> QED BY <1>0, <2>2, <2>4, <5>2, <7>1 DEF Rival
          <6> QED BY <6>1, <6>2
        <5> QED BY <5>1, <5>2
      <4>2. b = c
        BY <2>2, <2>4, <3>0, <4>1, PreferenceOrders
      <4> QED BY <2>2, <4>2
    <3> QED BY <3>1, <3>2
  <2>5. Best(T, day) = B
    BY <1>2, <1>a, <1>b, <2>4
  <2>6. HasBest(T, day)
    BY <2>2, <2>5 DEF HasBest, B
  <2> QED BY <1>1, <1>4, <2>5, <2>6 DEF B
<1>5. CASE OnDuty(e, day) /\ \A c \in other : IsPreferredEntry(e, c)
  <2>1. \A f \in T : Rival(f, e, day) => IsPreferredEntry(e, f)
    <3> SUFFICES ASSUME NEW f \in T, Rival(f, e, day) PROVE IsPreferredEntry(e, f)
      OBVIOUS
    <3>1. f \in R /\ OnDuty(f, day) /\ f.employee = e.employee /\ f # e
      BY DEF Rival
    <3>2. PICK c \in B : c.employee = f.employee
      BY <3>1 DEF HasBest, B
    <3>3. c \in other /\ IsPreferredEntry(e, c) /\ c \in Entry /\ f \in Entry
      BY <1>5, <1>b, <3>1, <3>2
    <3>4. c = f \/ IsPreferredEntry(c, f)
      BY <1>0, <3>1, <3>2 DEF Rival
    <3> QED BY <3>1, <3>2, <3>3, <3>4, PreferenceOrders
  <2>2. e \in Best(T, day)
    BY <1>5, <1>a, <2>1
  <2>3. ASSUME NEW b \in Best(T, day), b.employee = e.employee
        PROVE  b = e
    <3>1. T \subseteq Entry
      OBVIOUS
    <3> HIDE DEF T
    <3> QED BY <2>2, <2>3, <3>1, BestIsOne
  <2>4. Best(T, day) = (B \ other) \cup {e}
    BY <1>2, <1>a, <1>b, <2>2, <2>3
  <2>5. HasBest(T, day)
    <3> SUFFICES ASSUME NEW f \in T, OnDuty(f, day)
                 PROVE  \E b \in Best(T, day) : b.employee = f.employee
      BY DEF HasBest
    <3>1. CASE f.employee = e.employee
      BY <2>2, <3>1
    <3>2. CASE f.employee # e.employee
      <4>1. PICK b \in B : b.employee = f.employee
        BY <3>2 DEF HasBest, B
      <4> QED BY <2>4, <3>2, <4>1
    <3> QED BY <3>1, <3>2
  <2> QED BY <1>1, <1>5, <2>4, <2>5 DEF B
<1> QED BY <1>3, <1>4, <1>5

\* Whatever the order of the rows.
LEMMA SelectionIsBest ==
    ASSUME NEW n \in Nat, NEW entries, DOMAIN entries = 1..n,
           \A i \in 1..n : entries[i] \in Entry, NEW day
    PROVE  /\ SelectEntriesForDate(entries, day) = Best({entries[i] : i \in 1..n}, day)
           /\ HasBest({entries[i] : i \in 1..n}, day)
<1>1. PICK c :
        /\ c[1..0] = {}
        /\ \A k \in 0..(n-1) : c[1..(k+1)] = Considered(c[1..k], entries[k+1], day)
        /\ SelectEntriesForDate(entries, day) = c[1..n]
  BY SelectionByPrefixes
<1> DEFINE R(k) == {entries[i] : i \in 1..k}
           Good == {k \in 0..n : c[1..k] = Best(R(k), day) /\ HasBest(R(k), day)}
<1>2. 0 \in Good
  <2>1. R(0) = {}
    OBVIOUS
  <2>2. Best(R(0), day) = {} /\ HasBest(R(0), day)
    BY <2>1 DEF Best, HasBest
  <2>3. 0 \in 0..n
    OBVIOUS
  <2> HIDE DEF R
  <2> QED BY <1>1, <2>2, <2>3
<1>3. ASSUME NEW k \in 0..(n-1), k \in Good PROVE k + 1 \in Good
  <2>1. R(k+1) = R(k) \cup {entries[k+1]}
    OBVIOUS
  <2>2. R(k) \subseteq Entry /\ entries[k+1] \in Entry
    OBVIOUS
  <2>3. c[1..(k+1)] = Considered(Best(R(k), day), entries[k+1], day) /\ HasBest(R(k), day)
    BY <1>1, <1>3
  <2> HIDE DEF R
  <2>4. c[1..(k+1)] = Best(R(k+1), day) /\ HasBest(R(k+1), day)
    BY <2>1, <2>2, <2>3, BestOfOneMore
  <2> QED BY <2>4
<1> HIDE DEF Good, R
<1>4. n \in Good
  <2>1. \A k \in 0..(n-1) : k \in Good => k + 1 \in Good
    BY <1>3
  <2>2. \A k \in 0..n : k \in Good
    BY <1>2, <2>1, PrefixInduction
  <2> QED BY <2>2
<1> QED BY <1>1, <1>4 DEF Good, R

AssignmentRow == [user : Users, from : Int, to : Int]

\* A sequence and another that begins elsewhere in it have the same entries.
LEMMA TurnedSequence ==
    ASSUME NEW E, NEW s \in Seq(E), NEW n \in 0..(Len(s) - 1)
    PROVE  LET t == SubSeq(s, n + 1, Len(s)) \o SubSeq(s, 1, n)
           IN  /\ t \in Seq(E) /\ Len(t) = Len(s)
               /\ {t[i] : i \in 1..Len(s)} = {s[i] : i \in 1..Len(s)}
<1> DEFINE m == Len(s)
           a == SubSeq(s, n + 1, m)
           b == SubSeq(s, 1, n)
           t == a \o b
<1>1. /\ a \in Seq(E) /\ Len(a) = m - n /\ \A i \in 1..(m - n) : a[i] = s[n + i]
      /\ b \in Seq(E) /\ Len(b) = n /\ \A i \in 1..n : b[i] = s[i]
  OBVIOUS
<1>2. m \in Nat
  OBVIOUS
<1> HIDE DEF a, b, m
<1>3. t \in Seq(E) /\ Len(t) = m
  BY <1>1, <1>2
<1>4. \A i \in 1..(m - n) : t[i] = s[n + i]
  BY <1>1, <1>2
<1>5. \A i \in 1..n : t[m - n + i] = s[i]
  BY <1>1, <1>2
<1>6. n \in Nat /\ n < m
  BY <1>2 DEF m
<1> HIDE DEF t
<1>7. ASSUME NEW i \in 1..m PROVE \E j \in 1..m : t[j] = s[i]
  <2>1. CASE i <= n
    <3>1. m - n + i \in 1..m /\ i \in 1..n
      BY <1>2, <1>6, <2>1
    <3> QED BY <1>5, <3>1
  <2>2. CASE i > n
    <3>1. i - n \in 1..(m - n) /\ i - n \in 1..m /\ n + (i - n) = i
      BY <1>2, <1>6, <2>2
    <3> QED BY <1>4, <3>1
  <2> QED BY <1>2, <1>6, <2>1, <2>2
<1>8. ASSUME NEW j \in 1..m PROVE \E i \in 1..m : t[j] = s[i]
  <2>1. CASE j <= m - n
    <3>1. j \in 1..(m - n) /\ n + j \in 1..m
      BY <1>2, <1>6, <2>1
    <3> QED BY <1>4, <3>1
  <2>2. CASE j > m - n
    <3>1. j - (m - n) \in 1..n /\ j - (m - n) \in 1..m /\ m - n + (j - (m - n)) = j
      BY <1>2, <1>6, <2>2
    <3> QED BY <1>5, <3>1
  <2> QED BY <1>2, <1>6, <2>1, <2>2
<1>9. {t[i] : i \in 1..m} = {s[i] : i \in 1..m}
  <2>1. \A x : x \in {t[i] : i \in 1..m} <=> \E i \in 1..m : x = t[i]
    OBVIOUS
  <2>2. \A x : x \in {s[i] : i \in 1..m} <=> \E i \in 1..m : x = s[i]
    OBVIOUS
  <2>3. \A x : (\E i \in 1..m : x = t[i]) <=> (\E i \in 1..m : x = s[i])
    BY <1>7, <1>8
  <2> QED BY <2>1, <2>2, <2>3
<1> QED BY <1>3, <1>9 DEF t, a, b, m

LEMMA RosterRows ==
    ASSUME assignment \in Seq(AssignmentRow)
    PROVE  /\ Roster \in Seq(Entry) /\ Len(Roster) \in Nat
           /\ DOMAIN Roster = 1..Len(Roster)
<1>1. DOMAIN assignment = 1..Len(assignment) /\ Len(assignment) \in Nat
      /\ \A i \in 1..Len(assignment) : assignment[i] \in AssignmentRow
  OBVIOUS
<1>2. Roster \in [1..Len(assignment) -> Entry]
  BY <1>1 DEF Roster, AssignmentRow, Entry
<1> QED BY <1>1, <1>2

LEMMA RosterOnce ==
    ASSUME assignment \in Seq(AssignmentRow)
    PROVE  RosterIsOnePerEmployee
<1> DEFINE n == Len(Roster)
           R == {Roster[i] : i \in 1..n}
<1>1. Roster \in Seq(Entry) /\ n \in Nat /\ DOMAIN Roster = 1..n
  BY RosterRows
<1>2. R \subseteq Entry /\ \A i \in 1..n : Roster[i] \in Entry
  BY <1>1
<1> SUFFICES ASSUME NEW day \in Days, NEW k \in 0..(n - 1)
    PROVE  LET turned  == SubSeq(Roster, k + 1, n) \o SubSeq(Roster, 1, k)
               chosen  == SelectEntriesForDate(turned, day)
               onDuty  == {e \in {Roster[i] : i \in DOMAIN Roster} : OnDuty(e, day)}
           IN  /\ {e.employee : e \in chosen} = {e.employee : e \in onDuty}
               /\ \A e, f \in chosen : e.employee = f.employee => e = f
               /\ \A e \in chosen, f \in onDuty :
                     (f.employee = e.employee /\ f.to = 0) => e.to = 0
               /\ chosen = SelectEntriesForDate(Roster, day)
  BY DEF RosterIsOnePerEmployee
<1> DEFINE turned  == SubSeq(Roster, k + 1, n) \o SubSeq(Roster, 1, k)
           B == Best(R, day)
           onDuty == {e \in {Roster[i] : i \in DOMAIN Roster} : OnDuty(e, day)}
<1>3. /\ turned \in Seq(Entry) /\ Len(turned) = n /\ {turned[i] : i \in 1..n} = R
  BY <1>1, TurnedSequence
<1>4. SelectEntriesForDate(Roster, day) = B /\ HasBest(R, day)
  BY <1>1, <1>2, SelectionIsBest
<1>5. SelectEntriesForDate(turned, day) = B
  <2>1. DOMAIN turned = 1..n /\ \A i \in 1..n : turned[i] \in Entry
    BY <1>3
  <2> HIDE DEF turned, R, n
  <2> QED BY <1>1, <1>3, <2>1, SelectionIsBest
<1>6. onDuty = {e \in R : OnDuty(e, day)}
  BY <1>1
<1> HIDE DEF onDuty, turned, R
<1>7. B \subseteq onDuty
  BY <1>6 DEF Best
<1>8. \A f \in onDuty : \E b \in B : b.employee = f.employee
  BY <1>4, <1>6 DEF HasBest
<1>9. \A e, f \in B : e.employee = f.employee => e = f
  BY <1>2, BestIsOne
<1>10. ASSUME NEW e \in B, NEW f \in onDuty, f.employee = e.employee, f.to = 0
       PROVE  e.to = 0
  <2>1. CASE e = f
    BY <1>10, <2>1
  <2>2. CASE e # f
    <3>1. IsPreferredEntry(e, f)
      BY <1>6, <1>10, <2>2 DEF Best, Rival
    <3>2. f.to = 0 /\ (e.to = 0 \/ e.to # 0)
      BY <1>10
    <3> QED BY <3>1, <3>2 DEF IsPreferredEntry
  <2> QED BY <2>1, <2>2
<1>11. {e.employee : e \in B} = {e.employee : e \in onDuty}
  BY <1>7, <1>8
<1> HIDE DEF B
<1> QED BY <1>4, <1>5, <1>9, <1>10, <1>11 DEF turned, onDuty

-----------------------------------------------------------------------------
\* The first of a set of numbers.
LEMMA FirstIn ==
    ASSUME NEW n \in Nat
    PROVE  \A s \in SUBSET (1..n) : s # {} => Seqs!Min(s) \in s
<1> DEFINE Good == {k \in 0..n : \A s \in SUBSET (1..k) :
                       s # {} => \E x \in s : \A y \in s : x =< y}
<1>1. 0 \in Good
  <2>1. \A s \in SUBSET (1..0) : s = {}
    OBVIOUS
  <2>2. 0 \in 0..n
    OBVIOUS
  <2> QED BY <2>1, <2>2
<1>2. ASSUME NEW k \in 0..(n-1), k \in Good PROVE k + 1 \in Good
  <2> SUFFICES ASSUME NEW s \in SUBSET (1..(k+1)), s # {}
               PROVE  \E x \in s : \A y \in s : x =< y
    OBVIOUS
  <2>1. CASE s \ {k + 1} = {}
    <3>1. \A y \in s : y = k + 1
      BY <2>1
    <3>2. \E x \in s : TRUE
      OBVIOUS
    <3>3. k + 1 \in s
      BY <3>1, <3>2
    <3>4. k + 1 =< k + 1
      OBVIOUS
    <3> QED BY <3>1, <3>3, <3>4
  <2>2. CASE s \ {k + 1} # {}
    <3>1. s \ {k + 1} \in SUBSET (1..k)
      OBVIOUS
    <3>2. PICK x \in s \ {k + 1} : \A y \in s \ {k + 1} : x =< y
      BY <1>2, <2>2, <3>1
    <3> QED BY <3>1, <3>2
  <2> QED BY <2>1, <2>2
<1>3. \A k \in 0..(n-1) : k \in Good => k + 1 \in Good
  BY <1>2
<1> HIDE DEF Good
<1>4. n \in Good
  <2>1. \A k \in 0..n : k \in Good
    BY <1>1, <1>3, PrefixInduction
  <2> QED BY <2>1
<1> QED BY <1>4 DEF Good, Seqs!Min

\* When the overrides that cover a day agree, the calendar shows what they say.
LEMMA OverrideShown ==
    ASSUME NEW n \in Nat, NEW S, NEW xs \in Bijection(1..n, S), NEW o \in S, NEW day,
           InRange(o, day),
           \A p \in S : p.employee = o.employee /\ InRange(p, day) => p.type = o.type
    PROVE  OverrideOn(xs, o.employee, day) = o.type
<1> DEFINE Covers(p) == p.employee = o.employee /\ InRange(p, day)
           I == {i \in 1..Len(xs) : Covers(xs[i])}
<1>1. xs \in [1..n -> S] /\ \E i \in 1..n : xs[i] = o
  BY DEF Bijection, Surjection
<1>2. Len(xs) = n
  BY <1>1
<1>3. I # {} /\ I \in SUBSET (1..n)
  BY <1>1, <1>2
<1>4. Seqs!Min(I) \in I
  <2> HIDE DEF I
  <2> QED BY <1>3, FirstIn
<1>5. OverrideOn(xs, o.employee, day) = xs[Seqs!Min(I)].type
  <2>1. OverrideOn(xs, o.employee, day)
          = LET found == IF I # {} THEN Seqs!Min(I) ELSE 0
            IN  IF found = 0 THEN "none" ELSE xs[found].type
    BY DEF OverrideOn, Seqs!SelectInSeq
  <2>2. Seqs!Min(I) # 0
    <3>1. Seqs!Min(I) \in 1..n
      BY <1>3, <1>4
    <3> QED BY <3>1
  <2> HIDE DEF I
  <2> QED BY <1>3, <2>1, <2>2
<1> QED BY <1>1, <1>2, <1>4, <1>5

-----------------------------------------------------------------------------
(* The calendar: the summary, by adding up the days or the employees.     *)

\* SetToSeq lists a finite set, each element once.
LEMMA ListOfSet ==
    ASSUME NEW S, IsFiniteSet(S)
    PROVE  /\ Cardinality(S) \in Nat
           /\ Seqs!SetToSeq(S) \in Bijection(1..Cardinality(S), S)
<1> DEFINE n == Cardinality(S)
           Lists(f) == f \in [1..n -> S] /\ Seqs!IsInjective(f)
           xs == CHOOSE f \in [1..n -> S] : Seqs!IsInjective(f)
<1>1. n \in Nat /\ ExistsBijection(1..n, S)
  BY FS_CardinalityType
<1>2. \E f \in [1..n -> S] : Seqs!IsInjective(f)
  BY <1>1 DEF ExistsBijection, Bijection, Injection, IsInjective, Seqs!IsInjective
<1>3. xs \in [1..n -> S] /\ Seqs!IsInjective(xs)
  <2> HIDE DEF n
  <2> QED BY <1>2
<1>4. xs = Seqs!SetToSeq(S)
  BY DEF Seqs!SetToSeq, Seqs!IsInjective, Cardinality, Seqs!Cardinality
<1> HIDE DEF xs
<1>5. xs \in Injection(1..n, S)
  BY <1>3 DEF Injection, IsInjective, Seqs!IsInjective
<1>6. Cardinality(1..n) = n
  BY <1>1, FS_Interval
<1>7. xs \in Surjection(1..n, S)
  BY <1>5, <1>6, FS_Injection
<1> QED BY <1>1, <1>4, <1>5, <1>7 DEF Bijection

\* The folds of a summary, as functions that are chosen.
AddsDays(days, D, field, g) ==
    g = [s \in SUBSET D |-> IF s = {} THEN 0 ELSE days[Pick(s)][field] + g[s \ {Pick(s)}]]

LEMMA DaysAdded ==
    ASSUME NEW days, NEW D, NEW field
    PROVE  (CHOOSE g : AddsDays(days, D, field, g))[D]
             = SumFunctionOnSet([d \in D |-> days[d][field]], D)
<1> DEFINE f == [d \in D |-> days[d][field]]
<1>1. ASSUME NEW g PROVE AddsDays(days, D, field, g) <=> IsSum(f, D, g)
  <2>1. \A s \in SUBSET D : s # {} => f[Pick(s)] = days[Pick(s)][field]
    BY PickIn
  <2> HIDE DEF f
  <2> QED BY <2>1 DEF AddsDays, IsSum
<1> HIDE DEF f
<1>2. (CHOOSE g : AddsDays(days, D, field, g)) = (CHOOSE g : IsSum(f, D, g))
  BY <1>1
<1> QED BY <1>2, SumIsChosen DEF f

LEMMA TotalsOfDays ==
    ASSUME NEW days
    PROVE  LET total == Calculate(days)
               D == DOMAIN days
           IN  /\ total.presentCount = SumFunctionOnSet([d \in D |-> days[d].presentCount], D)
               /\ total.absentCount = SumFunctionOnSet([d \in D |-> days[d].absentCount], D)
               /\ total.employeeDays = SumFunctionOnSet([d \in D |-> days[d].employeeCount], D)
               /\ total.employees = [x \in UNION {DOMAIN days[d].status : d \in D} |->
                                        EmployeeSummary(days, x)]
<1>1. Calculate(days).presentCount
        = (CHOOSE g : AddsDays(days, DOMAIN days, "presentCount", g))[DOMAIN days]
  BY DEF Calculate, Sets!MapThenSumSet, Sets!MapThenFoldSet, AddsDays, Pick
<1>2. Calculate(days).absentCount
        = (CHOOSE g : AddsDays(days, DOMAIN days, "absentCount", g))[DOMAIN days]
  BY DEF Calculate, Sets!MapThenSumSet, Sets!MapThenFoldSet, AddsDays, Pick
<1>3. Calculate(days).employeeDays
        = (CHOOSE g : AddsDays(days, DOMAIN days, "employeeCount", g))[DOMAIN days]
  BY DEF Calculate, Sets!MapThenSumSet, Sets!MapThenFoldSet, AddsDays, Pick
<1>4. Calculate(days).employees = [x \in UNION {DOMAIN days[d].status : d \in DOMAIN days} |->
                                      EmployeeSummary(days, x)]
  BY DEF Calculate
<1>5. \A field : (CHOOSE g : AddsDays(days, DOMAIN days, field, g))[DOMAIN days]
                   = SumFunctionOnSet([d \in DOMAIN days |-> days[d][field]], DOMAIN days)
  BY DaysAdded
<1>6. Calculate(days).presentCount
        = SumFunctionOnSet([d \in DOMAIN days |-> days[d].presentCount], DOMAIN days)
  BY <1>1, <1>5
<1>7. Calculate(days).absentCount
        = SumFunctionOnSet([d \in DOMAIN days |-> days[d].absentCount], DOMAIN days)
  BY <1>2, <1>5
<1>8. Calculate(days).employeeDays
        = SumFunctionOnSet([d \in DOMAIN days |-> days[d].employeeCount], DOMAIN days)
  BY <1>3, <1>5
<1> QED BY <1>4, <1>6, <1>7, <1>8

-----------------------------------------------------------------------------
AddsField(employees, xs, field, g) ==
    g = [s \in SUBSET DOMAIN xs |->
            IF s = {} THEN 0 ELSE g[s \ {Last(s)}] + employees[xs[Last(s)]][field]]

AddsAll(employees, xs, g) ==
    g = [s \in SUBSET DOMAIN xs |->
            IF s = {} THEN 0
            ELSE LET e == employees[xs[Last(s)]]
                 IN  g[s \ {Last(s)}] + (e.presentCount + e.absentCount + e.closedDays)]

LEMMA FieldAdded ==
    ASSUME NEW n \in Nat, NEW S, NEW xs \in Bijection(1..n, S), NEW employees, NEW field,
           \A x \in S : employees[x][field] \in Int
    PROVE  (CHOOSE g : AddsField(employees, xs, field, g))[DOMAIN xs]
             = SumFunctionOnSet([x \in S |-> employees[x][field]], S)
<1> DEFINE f == [x \in S |-> employees[x][field]]
<1>0. \A x \in S : f[x] = employees[x][field] /\ f[x] \in Int
  OBVIOUS
<1>1. DOMAIN xs = 1..n /\ \A i \in 1..n : xs[i] \in S
  BY DEF Bijection, Injection
<1>2. \A s \in SUBSET (1..n) : s # {} => Last(s) \in 1..n
  BY LastIn
<1> HIDE DEF f
<1>3. ASSUME NEW g PROVE AddsField(employees, xs, field, g) <=> AddsAlong(f, xs, g)
  BY <1>0, <1>1, <1>2 DEF AddsField, AddsAlong
<1>4. (CHOOSE g : AddsField(employees, xs, field, g)) = (CHOOSE g : AddsAlong(f, xs, g))
  BY <1>3
<1> QED BY <1>0, <1>4, SumAlong DEF f

LEMMA AllAdded ==
    ASSUME NEW n \in Nat, NEW S, NEW xs \in Bijection(1..n, S), NEW employees, NEW f,
           \A x \in S : /\ f[x] \in Int
                        /\ f[x] = employees[x].presentCount + employees[x].absentCount
                                    + employees[x].closedDays
    PROVE  (CHOOSE g : AddsAll(employees, xs, g))[DOMAIN xs] = SumFunctionOnSet(f, S)
<1>1. DOMAIN xs = 1..n /\ \A i \in 1..n : xs[i] \in S
  BY DEF Bijection, Injection
<1>2. \A s \in SUBSET (1..n) : s # {} => Last(s) \in 1..n
  BY LastIn
<1>3. ASSUME NEW g PROVE AddsAll(employees, xs, g) <=> AddsAlong(f, xs, g)
  BY <1>1, <1>2 DEF AddsAll, AddsAlong
<1>4. (CHOOSE g : AddsAll(employees, xs, g)) = (CHOOSE g : AddsAlong(f, xs, g))
  BY <1>3
<1> QED BY <1>4, SumAlong

-----------------------------------------------------------------------------
\* The counts of a day are those of the employees it shows.
DayCounts(d) ==
    LET here == {x \in DOMAIN d.status : Attended(d.status[x])}
        away == {x \in DOMAIN d.status : ~Attended(d.status[x])}
    IN  /\ d.closed \in BOOLEAN
        /\ d.employeeCount = Cardinality(DOMAIN d.status)
        /\ d.presentCount = Cardinality(here)
        /\ d.absentCount = IF d.closed THEN 0 ELSE Cardinality(away)

\* What the totals of a summary must be: the sums of its employees' counts.
SummaryAddsUp(days) ==
    LET total == Calculate(days)
        X == DOMAIN total.employees
        of == total.employees
    IN  /\ total.presentCount = SumFunctionOnSet([x \in X |-> of[x].presentCount], X)
        /\ total.absentCount = SumFunctionOnSet([x \in X |-> of[x].absentCount], X)
        /\ total.employeeDays = SumFunctionOnSet([x \in X |->
               of[x].presentCount + of[x].absentCount + of[x].closedDays], X)
        /\ \A x \in X : /\ of[x].presentCount \in Int /\ of[x].absentCount \in Int
                        /\ of[x].closedDays \in Int

LEMMA SummaryIsOfEmployees ==
    ASSUME NEW days, IsFiniteSet(DOMAIN days),
           IsFiniteSet(UNION {DOMAIN days[d].status : d \in DOMAIN days}),
           \A d \in DOMAIN days : DayCounts(days[d])
    PROVE  SummaryAddsUp(days)
<1> DEFINE D == DOMAIN days
           X == UNION {DOMAIN days[d].status : d \in D}
           listed == {p \in X \X D : p[1] \in DOMAIN days[p[2]].status}
           present == {p \in listed : Attended(days[p[2]].status[p[1]])}
           absent == {p \in listed : ~Attended(days[p[2]].status[p[1]]) /\ ~days[p[2]].closed}
           off == {p \in listed : ~Attended(days[p[2]].status[p[1]]) /\ days[p[2]].closed}
           Of(P, x) == {d \in D : <<x, d>> \in P}
           On(P, d) == {x \in X : <<x, d>> \in P}
           total == Calculate(days)
<1>1. ASSUME NEW d \in D
      PROVE  /\ days[d].employeeCount = Cardinality(On(listed, d))
             /\ days[d].presentCount = Cardinality(On(present, d))
             /\ days[d].absentCount = Cardinality(On(absent, d))
  <2> DEFINE s == days[d].status
  <2>0. DOMAIN s \subseteq X
    OBVIOUS
  <2>1. On(listed, d) = DOMAIN s
    BY <2>0
  <2>2. On(present, d) = {x \in DOMAIN s : Attended(s[x])}
    BY <2>0
  <2>3. On(absent, d) = IF days[d].closed THEN {} ELSE {x \in DOMAIN s : ~Attended(s[x])}
    BY <2>0
  <2>4. DayCounts(days[d])
    OBVIOUS
  <2> HIDE DEF On, listed, present, absent, X
  <2> QED BY <2>1, <2>2, <2>3, <2>4, FS_EmptySet DEF DayCounts
<1>2. ASSUME NEW x \in X
      PROVE  LET e == EmployeeSummary(days, x)
             IN  /\ e.presentCount = Cardinality(Of(present, x))
                 /\ e.absentCount = Cardinality(Of(absent, x))
                 /\ e.closedDays = Cardinality(Of(off, x))
  <2> DEFINE Listed(d)  == x \in DOMAIN d.status
             Present(d) == Listed(d) /\ Attended(d.status[x])
             Absent(d)  == Listed(d) /\ ~Attended(d.status[x]) /\ ~d.closed
             Off(d)     == Listed(d) /\ ~Attended(d.status[x]) /\ d.closed
  <2>1. /\ Of(present, x) = {d \in D : Present(days[d])}
        /\ Of(absent, x) = {d \in D : Absent(days[d])}
        /\ Of(off, x) = {d \in D : Off(days[d])}
    OBVIOUS
  <2>2. EmployeeSummary(days, x) =
          [presentCount |-> Cardinality({d \in D : Present(days[d])}),
           absentCount |-> Cardinality({d \in D : Absent(days[d])}),
           closedDays |-> Cardinality({d \in D : Off(days[d])})]
    BY DEF EmployeeSummary, Times
  <2> HIDE DEF Of, present, absent, off, Present, Absent, Off
  <2> QED BY <2>1, <2>2
<1>3. ASSUME NEW x \in X
      PROVE  /\ Cardinality(Of(listed, x)) = Cardinality(Of(present, x))
                   + Cardinality(Of(absent, x)) + Cardinality(Of(off, x))
             /\ Cardinality(Of(present, x)) \in Nat
             /\ Cardinality(Of(absent, x)) \in Nat
             /\ Cardinality(Of(off, x)) \in Nat
  <2> DEFINE P == Of(present, x)
             A == Of(absent, x)
             O == Of(off, x)
  <2>1. Of(listed, x) = (P \cup A) \cup O /\ P \cap A = {} /\ (P \cup A) \cap O = {}
    <3>1. \A d \in D : days[d].closed \in BOOLEAN
      BY DEF DayCounts
    <3> QED BY <3>1
  <2>2. IsFiniteSet(P) /\ IsFiniteSet(A) /\ IsFiniteSet(O)
    BY FS_Subset
  <2> HIDE DEF P, A, O
  <2>5. /\ Cardinality(P) \in Nat /\ Cardinality(A) \in Nat /\ Cardinality(O) \in Nat
        /\ Cardinality(P \cap A) = 0 /\ Cardinality((P \cup A) \cap O) = 0
    BY <2>1, <2>2, FS_CardinalityType, FS_EmptySet
  <2>3. IsFiniteSet(P \cup A) /\ Cardinality(P \cup A) = Cardinality(P) + Cardinality(A)
    <3>1. IsFiniteSet(P \cup A)
             /\ Cardinality(P \cup A) = Cardinality(P) + Cardinality(A) - Cardinality(P \cap A)
      BY <2>2, FS_Union
    <3> QED BY <2>5, <3>1
  <2>4. Cardinality((P \cup A) \cup O) = Cardinality(P \cup A) + Cardinality(O)
    <3>1. Cardinality((P \cup A) \cup O)
             = Cardinality(P \cup A) + Cardinality(O) - Cardinality((P \cup A) \cap O)
      BY <2>2, <2>3, FS_Union
    <3>2. Cardinality(P \cup A) \in Nat
      BY <2>3, FS_CardinalityType
    <3> QED BY <2>5, <3>1, <3>2
  <2>6. Cardinality(Of(listed, x)) = Cardinality(P) + Cardinality(A) + Cardinality(O)
    BY <2>1, <2>3, <2>4
  <2> QED BY <2>5, <2>6 DEF P, A, O
<1>4. /\ SumFunctionOnSet([d \in D |-> Cardinality(On(listed, d))], D)
            = SumFunctionOnSet([x \in X |-> Cardinality(Of(listed, x))], X)
      /\ SumFunctionOnSet([d \in D |-> Cardinality(On(present, d))], D)
            = SumFunctionOnSet([x \in X |-> Cardinality(Of(present, x))], X)
      /\ SumFunctionOnSet([d \in D |-> Cardinality(On(absent, d))], D)
            = SumFunctionOnSet([x \in X |-> Cardinality(Of(absent, x))], X)
  <2>1. listed \subseteq X \X D /\ present \subseteq X \X D /\ absent \subseteq X \X D
    OBVIOUS
  <2>2. IsFiniteSet(X) /\ IsFiniteSet(D)
    OBVIOUS
  <2> HIDE DEF listed, present, absent, X, D
  <2> QED BY <2>1, <2>2, CountedTwoWays
<1>5. /\ total.presentCount = SumFunctionOnSet([d \in D |-> days[d].presentCount], D)
      /\ total.absentCount = SumFunctionOnSet([d \in D |-> days[d].absentCount], D)
      /\ total.employeeDays = SumFunctionOnSet([d \in D |-> days[d].employeeCount], D)
      /\ total.employees = [x \in X |-> EmployeeSummary(days, x)]
  BY TotalsOfDays
<1> HIDE DEF listed, present, absent, off, Of, On, X, D, total
<1>6. /\ [d \in D |-> days[d].presentCount] = [d \in D |-> Cardinality(On(present, d))]
      /\ [d \in D |-> days[d].absentCount] = [d \in D |-> Cardinality(On(absent, d))]
      /\ [d \in D |-> days[d].employeeCount] = [d \in D |-> Cardinality(On(listed, d))]
  BY <1>1
<1>7. DOMAIN total.employees = X
      /\ \A x \in X : total.employees[x] = EmployeeSummary(days, x)
  BY <1>5
<1>8. /\ [x \in X |-> total.employees[x].presentCount] = [x \in X |-> Cardinality(Of(present, x))]
      /\ [x \in X |-> total.employees[x].absentCount] = [x \in X |-> Cardinality(Of(absent, x))]
      /\ [x \in X |-> total.employees[x].presentCount + total.employees[x].absentCount
                         + total.employees[x].closedDays]
            = [x \in X |-> Cardinality(Of(listed, x))]
  BY <1>2, <1>3, <1>7
<1>9. \A x \in X : /\ total.employees[x].presentCount \in Int
                   /\ total.employees[x].absentCount \in Int
                   /\ total.employees[x].closedDays \in Int
  BY <1>2, <1>3, <1>7
<1> QED BY <1>4, <1>5, <1>6, <1>7, <1>8, <1>9 DEF SummaryAddsUp, total

RecordedRows ==
    /\ assignment \in Seq(AssignmentRow)
    /\ \A o \in Overrides : override[o] # NULL => override[o] \in OverrideRow

\* What CalendarAddsUp says, its sums as functions that are chosen.
LEMMA CalendarSums ==
    LET days  == CalendarOf(Seqs!SetToSeq(RowsOf(override)))
        total == Calculate(days)
        xs    == Seqs!SetToSeq(DOMAIN total.employees)
    IN  CalendarAddsUp <=>
          /\ RosterIsOnePerEmployee
          /\ \A o \in RowsOf(override), d \in Days :
                (InRange(o, d) /\ o.employee \in DOMAIN days[d].status)
                => days[d].status[o.employee] = o.type
          /\ total.presentCount
               = (CHOOSE g : AddsField(total.employees, xs, "presentCount", g))[DOMAIN xs]
          /\ total.absentCount
               = (CHOOSE g : AddsField(total.employees, xs, "absentCount", g))[DOMAIN xs]
          /\ total.employeeDays
               = (CHOOSE g : AddsAll(total.employees, xs, g))[DOMAIN xs]
  BY DEF CalendarAddsUp, Seqs!FoldLeft, Seqs!MapThenFoldSet, Seqs!Max, Last, AddsField, AddsAll

\* Any two overrides of an employee that cover a day are the same row.
LEMMA OneOverrideADay ==
    ASSUME RecordedRows, RangesDoNotOverlap,
           NEW o \in RowsOf(override), NEW p \in RowsOf(override), NEW day \in Days,
           InRange(o, day), InRange(p, day), o.employee = p.employee,
           DOMAIN override = Overrides
    PROVE  o = p
<1>1. PICK a \in Overrides, b \in Overrides :
        override[a] # NULL /\ override[b] # NULL /\ o = override[a] /\ p = override[b]
  BY DEF RowsOf
<1>2. o \in OverrideRow /\ p \in OverrideRow
  BY <1>1 DEF RecordedRows
<1>3. o.from \in Int /\ o.to \in Int /\ p.from \in Int /\ p.to \in Int /\ day \in Int
  BY <1>2, TenantAssumption DEF OverrideRow, Days
<1>4. RangesOverlap(o, p)
  BY <1>3 DEF RangesOverlap, InRange
<1> QED BY <1>1, <1>4 DEF RangesDoNotOverlap

LEMMA OverridesAreFinite ==
    ASSUME DOMAIN override = Overrides
    PROVE  IsFiniteSet(RowsOf(override))
<1> DEFINE Y == {o \in Overrides : override[o] # NULL}
           f == [o \in Y |-> override[o]]
<1>1. IsFiniteSet(Y)
  BY AttendanceAssumption, FS_Subset
<1>2. f \in Surjection(Y, RowsOf(override))
  BY DEF Surjection, RowsOf
<1> QED BY <1>1, <1>2, FS_Surjection

LEMMA DaysOfStaff ==
    ASSUME RecordedRows, NEW day \in Days, NEW closures, NEW overrides
    PROVE  LET d == CalendarDay(day, Roster, closures, overrides)
           IN  /\ DayCounts(d) /\ DOMAIN d.status \subseteq Users
               /\ \A x \in DOMAIN d.status :
                     d.status[x] = StatusOf(OverrideOn(overrides, x, day), d.closed)
<1> DEFINE d == CalendarDay(day, Roster, closures, overrides)
           chosen == SelectEntriesForDate(Roster, day)
           staff == {e.employee : e \in chosen}
           shut == \E c \in closures : InRange(c, day)
           status == [x \in staff |-> StatusOf(OverrideOn(overrides, x, day), shut)]
           present == {x \in staff : Attended(status[x])}
           n == Len(Roster)
<1>1. d = [closed |-> shut, status |-> status, employeeCount |-> Cardinality(staff),
           presentCount |-> Cardinality(present),
           absentCount |-> IF shut THEN 0 ELSE Cardinality(staff \ present)]
  BY DEF CalendarDay
<1>2. Roster \in Seq(Entry) /\ n \in Nat /\ DOMAIN Roster = 1..n
  BY RosterRows DEF RecordedRows
<1>3. \A i \in 1..n : Roster[i] \in Entry
  BY <1>2
<1>4. chosen = Best({Roster[i] : i \in 1..n}, day)
  <2> HIDE DEF n
  <2> QED BY <1>2, <1>3, SelectionIsBest
<1>5. chosen \subseteq Entry
  BY <1>3, <1>4 DEF Best
<1>6. staff \subseteq Users
  BY <1>5 DEF Entry
<1>7. staff \ present = {x \in staff : ~Attended(status[x])}
  OBVIOUS
<1>8. shut \in BOOLEAN /\ DOMAIN status = staff
      /\ \A x \in staff : status[x] = StatusOf(OverrideOn(overrides, x, day), shut)
  OBVIOUS
<1> HIDE DEF staff, shut, chosen, status
<1>9. /\ d.closed = shut /\ d.status = status /\ d.employeeCount = Cardinality(staff)
      /\ d.presentCount = Cardinality(present)
      /\ d.absentCount = IF shut THEN 0 ELSE Cardinality(staff \ present)
  BY <1>1
<1> HIDE DEF d, present
<1>10. DayCounts(d)
  BY <1>7, <1>8, <1>9 DEF DayCounts, present
<1> QED BY <1>6, <1>8, <1>9, <1>10 DEF d

LEMMA CalendarOfRows ==
    ASSUME RecordedRows, RangesDoNotOverlap, DOMAIN override = Overrides
    PROVE  CalendarAddsUp
<1> DEFINE S == RowsOf(override)
           os == Seqs!SetToSeq(S)
           closures == {closure[c] : c \in ActiveClosures}
           days == CalendarOf(os)
           D == DOMAIN days
           total == Calculate(days)
           X == DOMAIN total.employees
           xs == Seqs!SetToSeq(X)
<1>1. Cardinality(S) \in Nat /\ os \in Bijection(1..Cardinality(S), S)
  BY OverridesAreFinite, ListOfSet
<1>2. D = Days /\ \A d \in D : days[d] = CalendarDay(d, Roster, closures, os)
  BY DEF CalendarOf, BuildRange, Days
<1>3. ASSUME NEW d \in D
      PROVE  /\ DayCounts(days[d]) /\ DOMAIN days[d].status \subseteq Users
             /\ \A x \in DOMAIN days[d].status :
                   days[d].status[x] = StatusOf(OverrideOn(os, x, d), days[d].closed)
  <2>1. d \in Days /\ days[d] = CalendarDay(d, Roster, closures, os)
    BY <1>2
  <2> HIDE DEF days, os, closures
  <2>2. LET c == CalendarDay(d, Roster, closures, os)
        IN  /\ DayCounts(c) /\ DOMAIN c.status \subseteq Users
            /\ \A x \in DOMAIN c.status : c.status[x] = StatusOf(OverrideOn(os, x, d), c.closed)
    BY <2>1, DaysOfStaff
  <2> QED BY <2>1, <2>2
<1> HIDE DEF days, os, closures
<1>4. IsFiniteSet(D)
  BY <1>2, TenantAssumption, FS_Interval DEF Days
<1>5. IsFiniteSet(UNION {DOMAIN days[d].status : d \in D})
  <2>1. UNION {DOMAIN days[d].status : d \in D} \subseteq Users
    BY <1>3
  <2> QED BY <2>1, TenantAssumption, FS_Subset
<1>6. SummaryAddsUp(days)
  BY <1>3, <1>4, <1>5, SummaryIsOfEmployees
<1>7. X = UNION {DOMAIN days[d].status : d \in D}
  BY TotalsOfDays
<1>8. Cardinality(X) \in Nat /\ xs \in Bijection(1..Cardinality(X), X)
  BY <1>5, <1>7, ListOfSet
<1>9. ASSUME NEW o \in S, NEW d \in Days, InRange(o, d), o.employee \in DOMAIN days[d].status
      PROVE  days[d].status[o.employee] = o.type
  <2>1. \A p \in S : p.employee = o.employee /\ InRange(p, d) => p.type = o.type
    BY <1>9, OneOverrideADay
  <2>2. OverrideOn(os, o.employee, d) = o.type
    <3> HIDE DEF S
    <3> QED BY <1>1, <1>9, <2>1, OverrideShown
  <2>3. o.type \in OverrideTypes
    BY DEF RowsOf, RecordedRows, OverrideRow
  <2>4. o.type # "none"
    BY <2>3 DEF OverrideTypes
  <2> QED BY <1>2, <1>3, <1>9, <2>2, <2>4 DEF StatusOf
<1>10. RosterIsOnePerEmployee
  BY RosterOnce DEF RecordedRows
<1> HIDE DEF X, total, xs
<1>11. /\ total.presentCount = SumFunctionOnSet([x \in X |-> total.employees[x].presentCount], X)
       /\ total.absentCount = SumFunctionOnSet([x \in X |-> total.employees[x].absentCount], X)
       /\ total.employeeDays = SumFunctionOnSet([x \in X |->
            total.employees[x].presentCount + total.employees[x].absentCount
              + total.employees[x].closedDays], X)
       /\ \A x \in X : /\ total.employees[x].presentCount \in Int
                       /\ total.employees[x].absentCount \in Int
                       /\ total.employees[x].closedDays \in Int
  BY <1>6 DEF SummaryAddsUp, X, total
<1>12. total.presentCount
         = (CHOOSE g : AddsField(total.employees, xs, "presentCount", g))[DOMAIN xs]
  <2>1. \A x \in X : total.employees[x]["presentCount"] \in Int
    BY <1>11
  <2>2. (CHOOSE g : AddsField(total.employees, xs, "presentCount", g))[DOMAIN xs]
          = SumFunctionOnSet([x \in X |-> total.employees[x]["presentCount"]], X)
    BY <1>8, <2>1, FieldAdded
  <2> QED BY <1>11, <2>2
<1>13. total.absentCount
         = (CHOOSE g : AddsField(total.employees, xs, "absentCount", g))[DOMAIN xs]
  <2>1. \A x \in X : total.employees[x]["absentCount"] \in Int
    BY <1>11
  <2>2. (CHOOSE g : AddsField(total.employees, xs, "absentCount", g))[DOMAIN xs]
          = SumFunctionOnSet([x \in X |-> total.employees[x]["absentCount"]], X)
    BY <1>8, <2>1, FieldAdded
  <2> QED BY <1>11, <2>2
<1>14. total.employeeDays = (CHOOSE g : AddsAll(total.employees, xs, g))[DOMAIN xs]
  <2> DEFINE f == [x \in X |->
            total.employees[x].presentCount + total.employees[x].absentCount
              + total.employees[x].closedDays]
  <2>1. \A x \in X : /\ f[x] \in Int
                     /\ f[x] = total.employees[x].presentCount + total.employees[x].absentCount
                                 + total.employees[x].closedDays
    BY <1>11
  <2>2. total.employeeDays = SumFunctionOnSet(f, X)
    BY <1>11
  <2> HIDE DEF f
  <2> QED BY <1>8, <2>1, <2>2, AllAdded
<1> QED BY <1>9, <1>10, <1>12, <1>13, <1>14, CalendarSums DEF days, os, total, xs, X

-----------------------------------------------------------------------------
(* The calendar: the rows it is computed from.                             *)

\* What a request will write is a row.
RequestRow(q) ==
    /\ Doing(q, "override") => request[q].row \in OverrideRow
    /\ Doing(q, "assign") =>
          /\ request[q].user \in Users
          /\ "from" \in DOMAIN request[q] => request[q].from \in Int

RowsInv == RecordedRows /\ today \in Int /\ \A q \in Requests : RequestRow(q)

LEMMA RowsFrame ==
    ASSUME RowsInv, RangesInv, NEW q \in Requests, NEW r,
           request' = [request EXCEPT ![q] = r], RecordedRows', today' = today,
           request'[q] = r => RequestRow(q)'
    PROVE  RowsInv'
<1>1. request' = [p \in Requests |-> IF p = q THEN r ELSE request[p]]
  BY DEF RangesInv
<1>2. request'[q] = r /\ \A p \in Requests : p # q => request'[p] = request[p]
  BY <1>1
<1>3. ASSUME NEW p \in Requests, p # q PROVE RequestRow(p)'
  BY <1>2, <1>3 DEF RowsInv, RequestRow, Doing
<1> QED BY <1>2, <1>3 DEF RowsInv

\* A request moves to one that writes no row, and the rows stay.
LEMMA RowsHarmless ==
    ASSUME RowsInv, RangesInv, UNCHANGED <<assignment, override, today>>, NEW q \in Requests, NEW r,
           request' = [request EXCEPT ![q] = r],
           r = NULL \/ r.kind \notin {"override", "assign"}
    PROVE  RowsInv'
<1>1. RecordedRows'
  BY DEF RowsInv, RecordedRows
<1>2. request'[q] = r => RequestRow(q)'
  BY DEF RequestRow, Doing
<1> QED BY <1>1, <1>2, RowsFrame

LEMMA RowsBegin ==
    ASSUME RowsInv, RangesInv, UNCHANGED <<assignment, override, today>>, NEW q \in Requests,
           NEW family, NEW r, Begin(q, family, r), r = NULL \/ r.kind \notin {"override", "assign"}
    PROVE  RowsInv'
  BY RowsHarmless DEF Begin

LEMMA RowsDone ==
    ASSUME RowsInv, RangesInv, UNCHANGED <<assignment, override, today>>, NEW q \in Requests, Done(q)
    PROVE  RowsInv'
  BY RowsHarmless DEF Done

\* A request ends, having changed the rows.
LEMMA RowsWritten ==
    ASSUME RowsInv, RangesInv, RecordedRows', today' = today, NEW q \in Requests,
           request' = [request EXCEPT ![q] = NULL]
    PROVE  RowsInv'
<1>1. request'[q] = NULL => RequestRow(q)'
  BY DEF RequestRow, Doing
<1> QED BY <1>1, RowsFrame

\* An assignment more.
LEMMA OneMoreRow ==
    ASSUME RecordedRows, NEW row \in AssignmentRow, assignment' = Append(assignment, row),
           UNCHANGED override
    PROVE  RecordedRows'
<1>1. Append(assignment, row) \in Seq(AssignmentRow)
  BY DEF RecordedRows
<1> QED BY <1>1 DEF RecordedRows

\* The assignments, some of them with another end.
LEMMA OtherEnds ==
    ASSUME RecordedRows, NEW f, DOMAIN f = DOMAIN assignment, assignment' = f,
           \A i \in DOMAIN assignment : f[i] \in AssignmentRow, f = [i \in DOMAIN f |-> f[i]],
           UNCHANGED override
    PROVE  RecordedRows'
<1>1. DOMAIN assignment = 1..Len(assignment) /\ Len(assignment) \in Nat
  BY DEF RecordedRows
<1>2. f \in [1..Len(assignment) -> AssignmentRow]
  BY <1>1
<1>3. f \in Seq(AssignmentRow)
  BY <1>1, <1>2
<1> QED BY <1>3 DEF RecordedRows

LEMMA ClosedIsRow ==
    ASSUME today \in Int, NEW row \in AssignmentRow
    PROVE  Closed(row) \in AssignmentRow
  BY DEF Closed, AssignmentRow

LEMMA HiredRows ==
    ASSUME RowsInv, NEW u \in Users, assignment' = Hired(u), UNCHANGED override
    PROVE  RecordedRows'
<1>1. [user |-> u, from |-> today, to |-> 0] \in AssignmentRow
  BY DEF AssignmentRow, RowsInv
<1> QED BY <1>1, OneMoreRow DEF Hired, RowsInv

LEMMA TenantStepRows ==
    ASSUME RowsInv, RangesInv, TenantStep, UNCHANGED hrVars
    PROVE  RowsInv'
<1>0. UNCHANGED override
  BY DEF hrVars
<1>1. ASSUME NEW q \in Requests, NEW c \in MasterChanges, MasterRead(q, c) PROVE RowsInv'
  BY <1>0, <1>1, RowsBegin DEF MasterRead
<1>2. ASSUME NEW q \in Requests, GuardRead(q) \/ ProvisionRead(q) PROVE RowsInv'
  BY <1>0, <1>2, RowsBegin DEF GuardRead, ProvisionRead
<1>3. ASSUME NEW q \in Requests,
             MasterSave(q) \/ GuardSuspend(q) \/ ProvisionFails(q) \/ AddStore(q)
                \/ SeatRefused(q)
      PROVE  RowsInv'
  BY <1>0, <1>3, RowsDone DEF MasterSave, GuardSuspend, ProvisionFails, AddStore, SeatRefused
<1>4. ASSUME NEW q \in Requests, NEW what, NEW by, LockTenant(q, what, by) PROVE RowsInv'
  BY <1>0, <1>4, RowsBegin DEF LockTenant
<1>5. ASSUME NEW q \in Requests, SeatCounted(q) PROVE RowsInv'
  BY <1>0, <1>5, RowsHarmless DEF SeatCounted
<1>6. ASSUME NEW q \in Requests, NEW u \in Users, Provision(q, u) PROVE RowsInv'
  <2>1. RecordedRows'
    BY <1>0, <1>6, HiredRows DEF Provision
  <2> QED BY <1>6, <2>1, RowsWritten DEF Provision, Done
<1>7. ASSUME NEW q \in Requests, NEW u \in Users, AddUser(q, u) PROVE RowsInv'
  <2>1. assignment' = Hired(u) \/ assignment' = assignment
    BY <1>7 DEF AddUser
  <2>2. RecordedRows'
    BY <1>0, <2>1, HiredRows DEF RowsInv, RecordedRows
  <2> QED BY <1>7, <2>2, RowsWritten DEF AddUser, Done
<1>8. ASSUME NEW q \in Requests, NEW u \in Users, NEW change, UserRead(q, u, change) PROVE RowsInv'
  BY <1>0, <1>8, RowsBegin DEF UserRead
<1>9. ASSUME NEW q \in Requests, UserSave(q) PROVE RowsInv'
  <2> DEFINE f == [i \in DOMAIN assignment |->
                     IF assignment[i].user = request[q].user
                     THEN Closed(assignment[i]) ELSE assignment[i]]
  <2>1. assignment' = assignment \/ assignment' = f
    BY <1>9 DEF UserSave
  <2>2. \A i \in DOMAIN assignment : f[i] \in AssignmentRow
    <3>1. \A i \in DOMAIN assignment : assignment[i] \in AssignmentRow
      BY DEF RowsInv, RecordedRows
    <3> QED BY <3>1, ClosedIsRow DEF RowsInv
  <2>3. DOMAIN f = DOMAIN assignment /\ f = [i \in DOMAIN f |-> f[i]]
    OBVIOUS
  <2> HIDE DEF f
  <2>4. RecordedRows'
    <3>1. CASE assignment' = f
      BY <1>0, <2>2, <2>3, <3>1, OtherEnds DEF RowsInv
    <3>2. CASE assignment' = assignment
      BY <1>0, <3>2 DEF RowsInv, RecordedRows
    <3> QED BY <2>1, <3>1, <3>2
  <2> QED BY <1>9, <2>4, RowsWritten DEF UserSave, Done
<1>10. CASE Midnight
  <2>1. today' \in Int /\ RecordedRows'
    BY <1>0, <1>10 DEF Midnight, RowsInv, RecordedRows
  <2> QED BY <1>10, <2>1 DEF Midnight, RowsInv, RequestRow, Doing
<1> QED BY <1>1, <1>2, <1>3, <1>4, <1>5, <1>6, <1>7, <1>8, <1>9, <1>10 DEF TenantStep

LEMMA AssignRows ==
    ASSUME RowsInv, RangesInv, NEW q \in Requests,
           \/ \E u \in Users : AssignLook(q, u)
           \/ AssignReopen(q) \/ AssignNew(q) \/ AssignInsert(q)
           \/ \E i \in DOMAIN assignment : Unassign(q, i)
    PROVE  RowsInv'
<1>0. \A i \in DOMAIN assignment : assignment[i] \in AssignmentRow
  BY DEF RowsInv, RecordedRows
<1>1. ASSUME NEW u \in Users, AssignLook(q, u) PROVE RowsInv'
  <2> DEFINE r == [kind |-> "assign", user |-> u]
  <2>1. request' = [request EXCEPT ![q] = r] /\ RecordedRows' /\ today' = today
    BY <1>1 DEF AssignLook, Begin, hrVars, RowsInv, RecordedRows
  <2>2. r.kind = "assign" /\ r.user = u /\ "from" \notin DOMAIN r
    OBVIOUS
  <2> HIDE DEF r
  <2>3. request'[q] = r => RequestRow(q)'
    BY <2>2 DEF RequestRow, Doing
  <2> QED BY <2>1, <2>3, RowsFrame
<1>2. CASE AssignReopen(q)
  <2>1. PICK i \in Reopenable(request[q].user) :
          assignment' = IF OpenRows(request[q].user) # {} THEN assignment
                        ELSE [assignment EXCEPT ![i].to = 0]
    BY <1>2 DEF AssignReopen
  <2>2. i \in DOMAIN assignment
    BY <2>1 DEF Reopenable
  <2> DEFINE f == [assignment EXCEPT ![i].to = 0]
  <2>3. \A j \in DOMAIN assignment : f[j] \in AssignmentRow
    BY <1>0 DEF AssignmentRow
  <2>4. DOMAIN f = DOMAIN assignment /\ f = [j \in DOMAIN f |-> f[j]]
    OBVIOUS
  <2> HIDE DEF f
  <2>5. RecordedRows'
    <3>1. UNCHANGED override
      BY <1>2 DEF AssignReopen, hrVars
    <3>2. CASE assignment' = f
      BY <2>3, <2>4, <3>1, <3>2, OtherEnds DEF RowsInv
    <3>3. CASE assignment' = assignment
      BY <3>1, <3>3 DEF RowsInv, RecordedRows
    <3> QED BY <2>1, <3>2, <3>3 DEF f
  <2> QED BY <1>2, <2>5, RowsWritten DEF AssignReopen, Done
<1>3. CASE AssignNew(q)
  <2> DEFINE r == [kind |-> "assign", user |-> request[q].user, from |-> today]
  <2>1. request' = [request EXCEPT ![q] = r] /\ RecordedRows' /\ today' = today
    BY <1>3 DEF AssignNew, hrVars, RowsInv, RecordedRows
  <2>2. r.kind = "assign" /\ r.user = request[q].user /\ r.from = today
    OBVIOUS
  <2>3. request[q].user \in Users /\ today \in Int
    BY <1>3 DEF AssignNew, RowsInv, RequestRow
  <2> HIDE DEF r
  <2>4. request'[q] = r => RequestRow(q)'
    BY <2>2, <2>3 DEF RequestRow, Doing
  <2> QED BY <2>1, <2>4, RowsFrame
<1>4. CASE AssignInsert(q)
  <2> DEFINE row == [user |-> request[q].user, from |-> request[q].from, to |-> 0]
  <2>1. row \in AssignmentRow
    BY <1>4 DEF AssignInsert, RowsInv, RequestRow, AssignmentRow
  <2>2. UNCHANGED override /\ (assignment' = assignment \/ assignment' = Append(assignment, row))
    BY <1>4 DEF AssignInsert, hrVars
  <2> HIDE DEF row
  <2>3. RecordedRows'
    BY <2>1, <2>2, OneMoreRow DEF RowsInv, RecordedRows
  <2> QED BY <1>4, <2>3, RowsWritten DEF AssignInsert, Done
<1>5. ASSUME NEW i \in DOMAIN assignment, Unassign(q, i) PROVE RowsInv'
  <2> DEFINE f == [assignment EXCEPT ![i] = Closed(@)]
  <2>1. assignment' = f /\ UNCHANGED override
    BY <1>5 DEF Unassign, hrVars
  <2>2. \A j \in DOMAIN assignment : f[j] \in AssignmentRow
    BY <1>0, ClosedIsRow DEF RowsInv
  <2>3. DOMAIN f = DOMAIN assignment /\ f = [j \in DOMAIN f |-> f[j]]
    OBVIOUS
  <2> HIDE DEF f
  <2>4. RecordedRows'
    BY <2>1, <2>2, <2>3, OtherEnds DEF RowsInv
  <2> QED BY <1>5, <2>4, RowsWritten DEF Unassign, AtOnce, Begin
<1> QED BY <1>1, <1>2, <1>3, <1>4, <1>5

\* A row that is recorded or changed stays a row.
LEMMA RecordingRows ==
    ASSUME RowsInv, RangesInv, NEW q \in Requests, NEW id, NEW row \in OverrideRow,
           Recording(q, id, row)
    PROVE  RowsInv'
<1> DEFINE r == [kind |-> "override", id |-> id, row |-> row, locked |-> FALSE]
<1>1. request' = [request EXCEPT ![q] = r] /\ RecordedRows' /\ today' = today
  BY DEF Recording, Begin, hrVars, RowsInv, RecordedRows
<1>2. r.kind = "override" /\ r.row = row
  OBVIOUS
<1> HIDE DEF r
<1>3. request'[q] = r => RequestRow(q)'
  BY <1>2 DEF RequestRow, Doing
<1> QED BY <1>1, <1>3, RowsFrame

LEMMA ChangedRow ==
    ASSUME NEW row \in OverrideRow, NEW change \in OverrideChanges
    PROVE  [f \in DOMAIN row |-> IF f \in DOMAIN change THEN change[f] ELSE row[f]] \in OverrideRow
<1> DEFINE new == [f \in DOMAIN row |-> IF f \in DOMAIN change THEN change[f] ELSE row[f]]
<1>1. /\ DOMAIN row = {"employee", "from", "to", "type"}
      /\ row.employee \in Users /\ row.from \in Days /\ row.to \in Days
      /\ row.type \in OverrideTypes
  BY DEF OverrideRow
<1>2. /\ DOMAIN change \subseteq {"from", "to", "type"}
      /\ \A f \in DOMAIN change : change[f] \in (IF f = "type" THEN OverrideTypes ELSE Days)
  BY AttendanceAssumption
<1>3. "employee" \notin DOMAIN change
  BY <1>2
<1>4. /\ DOMAIN new = {"employee", "from", "to", "type"} /\ new = [f \in DOMAIN new |-> new[f]]
      /\ new["employee"] = row.employee
  BY <1>1, <1>3
<1>5. new["from"] \in Days /\ new["to"] \in Days
  BY <1>1, <1>2
<1>6. new["type"] \in OverrideTypes
  BY <1>1, <1>2
<1> HIDE DEF new
<1>7. new = [employee |-> new.employee, from |-> new.from, to |-> new.to, type |-> new.type]
  BY <1>4
<1>8. new \in OverrideRow
  BY <1>1, <1>4, <1>5, <1>6, <1>7 DEF OverrideRow
<1> QED BY <1>8 DEF new

LEMMA LockRows ==
    ASSUME RowsInv, RangesInv, NEW q \in Requests, LockOverride(q)
    PROVE  RowsInv'
<1> DEFINE r == request[q]
           s == [r EXCEPT !.locked = TRUE]
<1>1. UNCHANGED <<assignment, override, today>> /\ Doing(q, "override")
  BY DEF LockOverride, hrVars
<1>2. Done(q) \/ request' = [request EXCEPT ![q] = s]
  BY DEF LockOverride, RangesInv
<1>3. /\ r = [kind |-> "override", id |-> r.id, row |-> r.row, locked |-> r.locked]
      /\ r.row \in OverrideRow
  BY <1>1 DEF RangesInv, OverrideFits, RowsInv, RequestRow
<1>4. s = [kind |-> "override", id |-> r.id, row |-> r.row, locked |-> TRUE]
  <2> HIDE DEF r
  <2> QED BY <1>3, LockedRow
<1>5. s.kind = "override" /\ s.row = r.row
  BY <1>4
<1> HIDE DEF s, r
<1>6. request'[q] = s => RequestRow(q)'
  BY <1>3, <1>5 DEF RequestRow, Doing
<1>7. RecordedRows'
  BY <1>1 DEF RowsInv, RecordedRows
<1> QED BY <1>1, <1>2, <1>6, <1>7, RowsFrame, RowsDone

LEMMA SaveRows ==
    ASSUME RowsInv, RangesInv, NEW q \in Requests,
           (\E o \in Overrides : SaveNewOverride(q, o)) \/ SaveOverride(q) \/ DeleteOverride(q)
    PROVE  RowsInv'
<1>1. UNCHANGED <<assignment, today>> /\ request' = [request EXCEPT ![q] = NULL]
  BY DEF SaveNewOverride, SaveOverride, DeleteOverride, Done
<1>2. \/ override' = override
      \/ \E o, row : override' = [override EXCEPT ![o] = row] /\ (row = NULL \/ row \in OverrideRow)
  <2>1. CASE \E o \in Overrides : SaveNewOverride(q, o)
    BY <2>1 DEF SaveNewOverride, RowsInv, RequestRow
  <2>2. CASE SaveOverride(q)
    BY <2>2 DEF SaveOverride, RowsInv, RequestRow
  <2>3. CASE DeleteOverride(q)
    BY <2>3 DEF DeleteOverride
  <2> QED BY <2>1, <2>2, <2>3
<1>3. RecordedRows'
  <2>1. CASE override' = override
    BY <1>1, <2>1 DEF RowsInv, RecordedRows
  <2>2. ASSUME NEW o, NEW row, override' = [override EXCEPT ![o] = row],
               row = NULL \/ row \in OverrideRow
        PROVE  RecordedRows'
    <3>1. override' = [x \in Overrides |-> IF x = o THEN row ELSE override[x]]
      BY <2>2 DEF RangesInv
    <3> QED BY <1>1, <2>2, <3>1 DEF RowsInv, RecordedRows
  <2> QED BY <1>2, <2>1, <2>2
<1> QED BY <1>1, <1>3, RowsWritten

LEMMA OtherRows ==
    ASSUME RowsInv, RangesInv, NEW q \in Requests,
           \/ \E o \in Overrides : RemoveOverride(q, o)
           \/ \E ranges \in ClosureRequests : CreateClosures(q, ranges)
           \/ SaveClosures(q) \/ \E c \in Closures : CancelClosure(q, c)
    PROVE  RowsInv'
<1>1. ASSUME NEW o \in Overrides, RemoveOverride(q, o) PROVE RowsInv'
  BY <1>1, RowsBegin DEF RemoveOverride, hrVars
<1>2. ASSUME NEW ranges \in ClosureRequests, CreateClosures(q, ranges) PROVE RowsInv'
  BY <1>2, RowsBegin DEF CreateClosures, hrVars
<1>3. CASE SaveClosures(q)
  BY <1>3, RowsDone DEF SaveClosures
<1>4. ASSUME NEW c \in Closures, CancelClosure(q, c) PROVE RowsInv'
  BY <1>4, RowsBegin DEF CancelClosure, AtOnce
<1> QED BY <1>1, <1>2, <1>3, <1>4

LEMMA RowsStep ==
    ASSUME RowsInv, RangesInv, [StaffNext]_staffVars
    PROVE  RowsInv'
<1>1. CASE TenantStep /\ UNCHANGED hrVars
  BY <1>1, TenantStepRows
<1>2. ASSUME NEW q \in Requests, NEW dto \in NewOverrides, CreateOverride(q, dto)
      PROVE  RowsInv'
  BY <1>2, RecordingRows, AttendanceAssumption DEF CreateOverride
<1>3. ASSUME NEW q \in Requests, NEW o \in Overrides, NEW change \in OverrideChanges,
             UpdateOverride(q, o, change)
      PROVE  RowsInv'
  <2>1. override[o] \in OverrideRow
    BY <1>3 DEF UpdateOverride, RowsInv, RecordedRows
  <2> QED BY <1>3, <2>1, ChangedRow, RecordingRows DEF UpdateOverride
<1>4. CASE AttendanceStep
  BY <1>2, <1>3, <1>4, AssignRows, LockRows, SaveRows, OtherRows DEF AttendanceStep
<1>5. CASE UNCHANGED staffVars
  BY <1>5 DEF staffVars, hrVars, RowsInv, RecordedRows, RequestRow, Doing
<1> QED BY <1>1, <1>4, <1>5 DEF StaffNext

LEMMA RowsInit == ASSUME StaffInit PROVE RowsInv
  BY DEF StaffInit, TenantInit, AttendanceInit, RowsInv, RecordedRows, RequestRow, Doing

\* Each day of the calendar shows every employee on duty once, whatever the order
\* in which the rows are read, and any override of theirs, on closed days too; the
\* totals of a summary are the sums of its employees' (CalendarBuilderService,
\* MonthlySummaryCalculatorService and RosterService.selectEntriesForDate).
THEOREM CalendarAlwaysAddsUp == StaffSpec => []CalendarAddsUp
<1>1. StaffInit => RangesInv /\ RowsInv
  BY RangesInit, RowsInit
<1>2. (RangesInv /\ RowsInv) /\ [StaffNext]_staffVars => (RangesInv /\ RowsInv)'
  BY RangesStep, RowsStep
<1>3. RangesInv /\ RowsInv => CalendarAddsUp
  BY CalendarOfRows DEF RangesInv, RowsInv
<1> QED BY <1>1, <1>2, <1>3, PTL DEF StaffSpec

-----------------------------------------------------------------------------
(* The cash desk one statement at a time: the row locks.                   *)

\* Connections that lock one session, which all but a forced close find OPEN.
OneSessionKinds == {"close", "force", "request", "deposit", "withdraw"}

SessionState == [status : {"NONE", "OPEN", "CLOSED"}, cash : Int, sealed : Int \cup {None}]
TransferState == [status : {"NONE", "PENDING", "COMPLETED", "CANCELLED"},
                  source : Sessions \cup {None}, destination : Registers \cup {None}]

Known(s) == session[s].status # "NONE"

\* The committed rows, and what they say of one another: a register has one
\* OPEN session, a sealed session has the balance it was sealed with and no
\* transfer in progress.
RowsFit ==
    /\ session \in [Sessions -> SessionState]
    /\ transfer \in [Transfers -> TransferState]
    /\ \A t \in Transfers :
          transfer[t].status # "NONE" =>
             /\ transfer[t].source \in Sessions /\ Known(transfer[t].source)
             /\ transfer[t].destination \in Registers
    /\ \A t \in Transfers : transfer[t].status = "NONE" => transfer[t].source = None
    /\ \A s \in Sessions : ~Known(s) => session[s].sealed = None

OneOpenEach ==
    \A s, u \in Sessions : IsOpen(s) /\ IsOpen(u) /\ s[1] = u[1] => s = u

SealedRest ==
    \A s \in Sessions : session[s].status = "CLOSED" =>
        session[s].sealed = session[s].cash /\ InProgressFrom(s) = {}

\* No row is locked twice.
Apart == \A p, q \in Connections : p # q => held[p] \cap held[q] = {}

LockTypes ==
    /\ op = [q \in Connections |-> op[q]]
    /\ pc \in [Connections -> {"idle", "wait", "seek", "check", "commit"}]
    /\ awaits = [q \in Connections |-> awaits[q]]
    /\ held \in [Connections -> SUBSET Rows]
    /\ seen = [q \in Connections |-> seen[q]]

OpenFits(q) ==
    LET r == op[q].register IN
    /\ r \in Registers
    /\ \/ pc[q] = "wait" /\ held[q] = {} /\ awaits[q] = RegisterRow(r)
       \/ pc[q] = "check" /\ held[q] = {RegisterRow(r)}
       \/ pc[q] = "commit" /\ held[q] = {RegisterRow(r)} /\ OpenSessionsOf(r) = {}

\* The session s that a request of OneSessionKinds works on.
WorksOn(q, s) ==
    /\ Known(s)
    /\ op[q].kind = "request" => op[q].destination \in Registers
    /\ \/ pc[q] = "wait" /\ held[q] = {} /\ awaits[q] = SessionRow(s)
       \/ /\ pc[q] \in {"check", "commit"} /\ held[q] = {SessionRow(s)}
          /\ op[q].kind # "force" => IsOpen(s)
          /\ (pc[q] = "commit" /\ op[q].kind \in {"close", "force"}) =>
                seen[q] = session[s].cash /\ InProgressFrom(s) = {}

CancelFits(q) ==
    LET t == op[q].transfer IN
    /\ t \in Transfers /\ transfer[t].status # "NONE"
    /\ \/ pc[q] = "wait" /\ held[q] = {} /\ awaits[q] = TransferRow(t)
       \/ pc[q] = "check" /\ held[q] = {TransferRow(t)}
       \/ pc[q] = "commit" /\ held[q] = {TransferRow(t)} /\ InProgress(t)

\* A completion: it locks the source, then the transfer, then the destination.
Locked2(t) == {SessionRow(transfer[t].source), TransferRow(t)}
Goes(t, d) == d \in Sessions \ {transfer[t].source} /\ InProgress(t) /\ IsOpen(transfer[t].source)

CompleteWaits(q, t) ==
    \/ held[q] = {} /\ awaits[q] = SessionRow(transfer[t].source)
    \/ /\ held[q] = {SessionRow(transfer[t].source)} /\ awaits[q] = TransferRow(t)
       /\ IsOpen(transfer[t].source)
    \/ \E d \in Sessions : /\ held[q] = Locked2(t) /\ awaits[q] = SessionRow(d)
                           /\ Goes(t, d) /\ Known(d)

CompleteSeeks(q, t) ==
    /\ IsOpen(transfer[t].source)
    /\ \/ held[q] = {SessionRow(transfer[t].source)}
       \/ held[q] = Locked2(t) /\ InProgress(t)

CompleteHolds(q, t) ==
    \E d \in Sessions : Goes(t, d) /\ IsOpen(d) /\ held[q] = Locked2(t) \cup {SessionRow(d)}

CompleteFits(q) ==
    LET t == op[q].transfer IN
    /\ t \in Transfers /\ transfer[t].status # "NONE"
    /\ \/ pc[q] = "wait" /\ CompleteWaits(q, t)
       \/ pc[q] = "seek" /\ CompleteSeeks(q, t)
       \/ /\ pc[q] = "check"
          /\ \/ held[q] = Locked2(t) /\ IsOpen(transfer[t].source) /\ ~InProgress(t)
             \/ CompleteHolds(q, t)
       \/ pc[q] = "commit" /\ CompleteHolds(q, t) /\ session[transfer[t].source].cash >= 1

Fits(q) ==
    \/ pc[q] = "idle" /\ held[q] = {}
    \/ op[q].kind = "open" /\ OpenFits(q)
    \/ op[q].kind \in OneSessionKinds /\ \E s \in Sessions : WorksOn(q, s)
    \/ op[q].kind = "cancel" /\ CancelFits(q)
    \/ op[q].kind = "complete" /\ CompleteFits(q)

LocksInv ==
    RowsFit /\ OneOpenEach /\ SealedRest /\ Apart /\ LockTypes /\ \A q \in Connections : Fits(q)

-----------------------------------------------------------------------------
(* Rows, requests and what they lock.                                      *)

LEMMA RowsDiffer ==
    ASSUME NEW a, NEW b
    PROVE  /\ SessionRow(a) = SessionRow(b) => a = b
           /\ TransferRow(a) = TransferRow(b) => a = b
           /\ RegisterRow(a) = RegisterRow(b) => a = b
           /\ SessionRow(a) # TransferRow(b)
           /\ SessionRow(a) # RegisterRow(b)
           /\ TransferRow(a) # RegisterRow(b)
BY DEF SessionRow, TransferRow, RegisterRow

LEMMA OpKinds ==
    ASSUME NEW o \in Ops
    PROVE  /\ o.kind \in {"open", "cancel", "complete"} \cup OneSessionKinds
           /\ o.kind \in {"open", "close", "request", "deposit", "withdraw"} => o.register \in Registers
           /\ o.kind = "force" => o.session \in Sessions
           /\ o.kind = "request" => o.destination \in Registers
           /\ o.kind \in {"complete", "cancel"} => o.transfer \in Transfers
<1>1. CASE o \in Posts
  <2>1. o \in [kind : {"deposit", "withdraw"}, register : Registers]
    BY <1>1, LocksAssumption
  <2> QED BY <2>1 DEF OneSessionKinds
<1>2. CASE o \in [kind : {"open", "close"}, register : Registers]
  BY <1>2 DEF OneSessionKinds
<1>3. CASE o \in [kind : {"force"}, session : Sessions]
  BY <1>3 DEF OneSessionKinds
<1>4. CASE o \in [kind : {"request"}, register : Registers, destination : Registers]
  BY <1>4 DEF OneSessionKinds
<1>5. CASE o \in [kind : {"complete", "cancel"}, transfer : Transfers]
  BY <1>5 DEF OneSessionKinds
<1> QED BY <1>1, <1>2, <1>3, <1>4, <1>5 DEF Ops

LEMMA PostKinds ==
    ASSUME NEW o \in Posts
    PROVE  o.kind \in {"deposit", "withdraw"}
BY LocksAssumption

LEMMA RegisterOf ==
    ASSUME NEW s \in Sessions
    PROVE  s[1] \in Registers
BY DEF Sessions

\* A request that has locked the rows of one session works on that one.
LEMMA SourceOfOne ==
    ASSUME NEW q \in Connections, NEW s \in Sessions, held[q] = {SessionRow(s)},
           op[q].kind # "complete"
    PROVE  Source(q) = s
<1>1. LockedSessions(q) = {s}
  BY RowsDiffer DEF LockedSessions
<1> QED BY <1>1 DEF Source

LEMMA SourceOfTwo ==
    ASSUME NEW q \in Connections, op[q].kind = "complete", NEW t, t = op[q].transfer,
           transfer[t].source \in Sessions, NEW d \in Sessions,
           held[q] = Locked2(t) \cup {SessionRow(d)}
    PROVE  /\ Source(q) = transfer[t].source
           /\ LockedSessions(q) = {transfer[t].source, d}
<1>1. LockedSessions(q) = {transfer[t].source, d}
  BY RowsDiffer DEF LockedSessions, Locked2
<1>2. \A s \in LockedSessions(q) :
         (op[q].kind = "complete" => s = transfer[op[q].transfer].source)
            <=> s = transfer[t].source
  OBVIOUS
<1>3. Source(q) = CHOOSE s \in LockedSessions(q) : s = transfer[t].source
  BY <1>2 DEF Source
<1> QED BY <1>1, <1>3

-----------------------------------------------------------------------------
(* What a step of a request does to the committed rows.                    *)

Stays == UNCHANGED rows

Opens(q, s) ==
    /\ ~Known(s) /\ RegisterRow(s[1]) \in held[q] /\ OpenSessionsOf(s[1]) = {}
    /\ session' = [session EXCEPT ![s] = [status |-> "OPEN", cash |-> 1, sealed |-> None]]
    /\ UNCHANGED transfer

PostsTo(q, s, cash) ==
    /\ IsOpen(s) /\ SessionRow(s) \in held[q]
    /\ session' = [session EXCEPT ![s] = [session[s] EXCEPT !.cash = cash]]
    /\ UNCHANGED transfer

Seals(q, s) ==
    /\ Known(s) /\ SessionRow(s) \in held[q] /\ InProgressFrom(s) = {}
    /\ session' = [session EXCEPT ![s] = [status |-> "CLOSED", cash |-> session[s].cash,
                                          sealed |-> session[s].cash]]
    /\ UNCHANGED transfer

RequestsFrom(q, s, t, r) ==
    /\ IsOpen(s) /\ SessionRow(s) \in held[q] /\ transfer[t].status = "NONE"
    /\ transfer' = [transfer EXCEPT ![t] = [status |-> "PENDING", source |-> s,
                                            destination |-> r]]
    /\ UNCHANGED session

Completes(q, t, s, d) ==
    /\ InProgress(t) /\ transfer[t].source = s
    /\ s # d /\ IsOpen(s) /\ IsOpen(d) /\ session[s].cash >= 1
    /\ {TransferRow(t), SessionRow(s), SessionRow(d)} \subseteq held[q]
    /\ transfer' = [transfer EXCEPT ![t] = [transfer[t] EXCEPT !.status = "COMPLETED"]]
    /\ session' = [session EXCEPT ![s] = [session[s] EXCEPT !.cash = @ - 1],
                                  ![d] = [session[d] EXCEPT !.cash = @ + 1]]

Cancels(q, t) ==
    /\ InProgress(t) /\ TransferRow(t) \in held[q]
    /\ transfer' = [transfer EXCEPT ![t] = [transfer[t] EXCEPT !.status = "CANCELLED"]]
    /\ UNCHANGED session

Effect(q) ==
    \/ Stays
    \/ \E s \in Sessions : Opens(q, s) \/ Seals(q, s)
    \/ \E s \in Sessions, cash \in Int : PostsTo(q, s, cash)
    \/ \E s \in Sessions, t \in Transfers, r \in Registers : RequestsFrom(q, s, t, r)
    \/ \E t \in Transfers, s, d \in Sessions : Completes(q, t, s, d)
    \/ \E t \in Transfers : Cancels(q, t)

\* Only the request that moves changes, and it locks what is free or nothing.
Locally(q) ==
    /\ op' = [op EXCEPT ![q] = op'[q]]
    /\ pc' = [pc EXCEPT ![q] = pc'[q]]
    /\ awaits' = [awaits EXCEPT ![q] = awaits'[q]]
    /\ held' = [held EXCEPT ![q] = held'[q]]
    /\ seen' = [seen EXCEPT ![q] = seen'[q]]
    /\ pc'[q] \in {"idle", "wait", "seek", "check", "commit"}
    /\ \A row \in held'[q] : row \in held[q] \/ (row \in Rows /\ Free(row))

LEMMA EndsLocally ==
    ASSUME LockTypes, NEW q \in Connections, End(q)
    PROVE  Locally(q) /\ Fits(q)'
<1>1. /\ op'[q] = NoOp /\ pc'[q] = "idle" /\ awaits'[q] = None
      /\ held'[q] = {} /\ seen'[q] = None
  BY DEF End, LockTypes
<1> QED BY <1>1 DEF End, Locally, Fits

\* A session that is posted to, sealed, ... as its one row is locked.
LEMMA OneHeld ==
    ASSUME LocksInv, NEW q \in Connections, pc[q] = "commit", op[q].kind \in OneSessionKinds
    PROVE  \E s \in Sessions :
              /\ Source(q) = s /\ SessionRow(s) \in held[q] /\ Known(s)
              /\ op[q].kind # "force" => IsOpen(s)
              /\ op[q].kind \in {"close", "force"} =>
                    seen[q] = session[s].cash /\ InProgressFrom(s) = {}
              /\ op[q].kind = "request" => op[q].destination \in Registers
<1>1. PICK s \in Sessions : WorksOn(q, s)
  BY DEF LocksInv, Fits, OneSessionKinds
<1>2. held[q] = {SessionRow(s)}
  BY <1>1 DEF WorksOn
<1>3. Source(q) = s
  BY <1>2, SourceOfOne DEF OneSessionKinds
<1> QED BY <1>1, <1>2, <1>3 DEF WorksOn

LEMMA CommitEffects ==
    ASSUME LocksInv, NEW q \in Connections, Commit(q)
    PROVE  Effect(q)
<1>0. /\ session \in [Sessions -> SessionState]
      /\ transfer \in [Transfers -> TransferState]
  BY DEF LocksInv, RowsFit
<1>1. CASE CommitOpen(q)
  <2>1. OpenFits(q)
    BY <1>1 DEF CommitOpen, LocksInv, Fits, OneSessionKinds
  <2>2. PICK s \in Lowest(UnusedSessions(op[q].register)) :
          session' = [session EXCEPT ![s] = [status |-> "OPEN", cash |-> 1, sealed |-> None]]
    BY <1>1 DEF CommitOpen
  <2>3. s \in Sessions /\ s[1] = op[q].register /\ ~Known(s)
    BY <2>2 DEF Lowest, UnusedSessions, Known
  <2>4. Opens(q, s)
    BY <1>1, <2>1, <2>2, <2>3 DEF CommitOpen, OpenFits, Opens
  <2> QED BY <2>3, <2>4 DEF Effect
<1>2. CASE CommitPost(q)
  <2>1. op[q].kind \in OneSessionKinds /\ op[q].kind # "force"
    BY <1>2, PostKinds DEF CommitPost, OneSessionKinds
  <2>2. PICK s \in Sessions : Source(q) = s /\ SessionRow(s) \in held[q] /\ IsOpen(s)
    BY <1>2, <2>1, OneHeld DEF CommitPost
  <2> DEFINE cash == IF op[q].kind = "deposit" THEN session[s].cash + 1 ELSE session[s].cash - 1
  <2>3. cash \in Int
    BY <1>0 DEF SessionState
  <2>4. session' = [session EXCEPT ![s] = [session[s] EXCEPT !.cash = cash]]
    BY <1>0, <1>2, <2>2 DEF CommitPost, SessionState
  <2>5. PostsTo(q, s, cash)
    BY <1>2, <2>2, <2>4 DEF CommitPost, PostsTo
  <2> QED BY <2>3, <2>5 DEF Effect
<1>3. CASE CommitSeal(q)
  <2>1. op[q].kind \in OneSessionKinds
    BY <1>3 DEF CommitSeal, OneSessionKinds
  <2>2. PICK s \in Sessions : /\ Source(q) = s /\ SessionRow(s) \in held[q] /\ Known(s)
                              /\ seen[q] = session[s].cash /\ InProgressFrom(s) = {}
    BY <1>3, <2>1, OneHeld DEF CommitSeal
  <2>3. session' = [session EXCEPT ![s] = [status |-> "CLOSED", cash |-> session[s].cash,
                                           sealed |-> session[s].cash]]
    <3> DEFINE row == [status |-> "CLOSED", cash |-> session[s].cash, sealed |-> session[s].cash]
    <3>1. session' = [session EXCEPT ![s].status = "CLOSED", ![s].sealed = session[s].cash]
      BY <1>3, <2>2 DEF CommitSeal
    <3>2. session[s] = [status |-> session[s].status, cash |-> session[s].cash,
                        sealed |-> session[s].sealed]
      BY <1>0 DEF SessionState
    <3>3. session'[s] = row
      BY <1>0, <3>1, <3>2
    <3>4. \A u \in Sessions \ {s} : session'[u] = session[u]
      BY <1>0, <3>1
    <3>5. session' = [u \in Sessions |-> session'[u]]
      BY <1>0, <3>1
    <3> HIDE DEF row
    <3>6. session' = [session EXCEPT ![s] = row]
      BY <1>0, <3>3, <3>4, <3>5
    <3> QED BY <3>6 DEF row
  <2>4. Seals(q, s)
    BY <1>3, <2>2, <2>3 DEF CommitSeal, Seals
  <2> QED BY <2>4 DEF Effect
<1>4. CASE CommitRequest(q)
  <2>1. op[q].kind \in OneSessionKinds
    BY <1>4 DEF CommitRequest, OneSessionKinds
  <2>2. PICK s \in Sessions : /\ Source(q) = s /\ SessionRow(s) \in held[q] /\ IsOpen(s)
                              /\ op[q].destination \in Registers
    BY <1>4, <2>1, OneHeld DEF CommitRequest
  <2>3. PICK t \in Lowest(UnusedTransfers(op[q].register)) :
          transfer' = [transfer EXCEPT ![t] = [status |-> "PENDING", source |-> Source(q),
                                               destination |-> op[q].destination]]
    BY <1>4 DEF CommitRequest
  <2>4. t \in Transfers /\ transfer[t].status = "NONE"
    BY <2>3 DEF Lowest, UnusedTransfers
  <2>5. RequestsFrom(q, s, t, op[q].destination)
    BY <1>4, <2>2, <2>3, <2>4 DEF CommitRequest, RequestsFrom
  <2> QED BY <2>2, <2>4, <2>5 DEF Effect
<1>5. CASE CommitComplete(q)
  <2> DEFINE t == op[q].transfer
             s == transfer[t].source
  <2>1. CompleteFits(q)
    BY <1>5 DEF CommitComplete, LocksInv, Fits, OneSessionKinds
  <2>2. t \in Transfers /\ transfer[t].status # "NONE" /\ s \in Sessions
    BY <2>1 DEF CompleteFits, LocksInv, RowsFit
  <2>3. CompleteHolds(q, t) /\ session[s].cash >= 1
    BY <1>5, <2>1 DEF CommitComplete, CompleteFits
  <2>4. PICK d \in Sessions : Goes(t, d) /\ IsOpen(d) /\ held[q] = Locked2(t) \cup {SessionRow(d)}
    BY <2>3 DEF CompleteHolds
  <2>5. Source(q) = s /\ LockedSessions(q) = {s, d}
    BY <1>5, <2>2, <2>4, SourceOfTwo DEF CommitComplete
  <2>6. transfer' = [transfer EXCEPT ![t] = [transfer[t] EXCEPT !.status = "COMPLETED"]]
    BY <1>0, <1>5, <2>2 DEF CommitComplete, TransferState
  <2>7. session' = [u \in Sessions |->
           IF u = s THEN [session[u] EXCEPT !.cash = @ - 1]
           ELSE IF u = d THEN [session[u] EXCEPT !.cash = @ + 1] ELSE session[u]]
    BY <1>5, <2>5 DEF CommitComplete
  <2>8. s # d
    BY <2>4 DEF Goes
  <2>9. session' = [session EXCEPT ![s] = [session[s] EXCEPT !.cash = @ - 1],
                                   ![d] = [session[d] EXCEPT !.cash = @ + 1]]
    BY <1>0, <2>2, <2>7, <2>8
  <2>10. Completes(q, t, s, d)
    BY <2>3, <2>4, <2>6, <2>8, <2>9 DEF Completes, Goes, Locked2
  <2> QED BY <2>2, <2>10 DEF Effect
<1>6. CASE CommitCancel(q)
  <2> DEFINE t == op[q].transfer
  <2>1. CancelFits(q)
    BY <1>6 DEF CommitCancel, LocksInv, Fits, OneSessionKinds
  <2>2. t \in Transfers /\ InProgress(t) /\ TransferRow(t) \in held[q]
    BY <1>6, <2>1 DEF CommitCancel, CancelFits
  <2>3. transfer' = [transfer EXCEPT ![t] = [transfer[t] EXCEPT !.status = "CANCELLED"]]
    BY <1>0, <1>6, <2>2 DEF CommitCancel, TransferState
  <2>4. Cancels(q, t)
    BY <1>6, <2>2, <2>3 DEF CommitCancel, Cancels
  <2> QED BY <2>2, <2>4 DEF Effect
<1> QED BY <1>1, <1>2, <1>3, <1>4, <1>5, <1>6 DEF Commit

-----------------------------------------------------------------------------
(* The committed rows stay as RowsFit says.                                *)

\* What another request may count on: a row it has locked does not change, a
\* transfer keeps its source, and no session opens on a register it has locked.
Leaves(q) ==
    /\ \A s \in Sessions :
          \/ session'[s] = session[s]
          \/ /\ Known(s) /\ SessionRow(s) \in held[q] /\ session'[s].status # "NONE"
             /\ session'[s].status = "OPEN" => IsOpen(s)
          \/ ~Known(s) /\ session'[s].status = "OPEN" /\ RegisterRow(s[1]) \in held[q]
    /\ \A t \in Transfers :
          \/ transfer'[t] = transfer[t]
          \/ /\ InProgress(t) /\ TransferRow(t) \in held[q]
             /\ transfer'[t].source = transfer[t].source
             /\ transfer'[t].destination = transfer[t].destination
             /\ transfer'[t].status \in {"COMPLETED", "CANCELLED"}
          \/ /\ transfer[t].status = "NONE" /\ transfer'[t].status = "PENDING"
             /\ transfer'[t].source \in Sessions
             /\ SessionRow(transfer'[t].source) \in held[q]

LEMMA EffectLeaves ==
    ASSUME LocksInv, NEW q \in Connections, Effect(q)
    PROVE  RowsFit' /\ Leaves(q)
<1>0. /\ session \in [Sessions -> SessionState]
      /\ transfer \in [Transfers -> TransferState]
      /\ RowsFit
  BY DEF LocksInv, RowsFit
<1>1. CASE Stays
  BY <1>0, <1>1 DEF Stays, rows, RowsFit, Leaves, Known
<1>2. CASE \E s \in Sessions : Opens(q, s)
  <2>1. PICK s \in Sessions : Opens(q, s)
    BY <1>2
  <2>2. /\ session' \in [Sessions -> SessionState]
        /\ session'[s].status = "OPEN"
        /\ \A u \in Sessions \ {s} : session'[u] = session[u]
    BY <1>0, <2>1 DEF Opens, SessionState
  <2>3. RowsFit'
    BY <1>0, <2>1, <2>2 DEF Opens, RowsFit, Known
  <2>4. Leaves(q)
    BY <2>1, <2>2 DEF Opens, Leaves
  <2> QED BY <2>3, <2>4
<1>3. CASE \E s \in Sessions : Seals(q, s)
  <2>1. PICK s \in Sessions : Seals(q, s)
    BY <1>3
  <2>2. /\ session' \in [Sessions -> SessionState]
        /\ session'[s].status = "CLOSED"
        /\ \A u \in Sessions \ {s} : session'[u] = session[u]
    BY <1>0, <2>1 DEF Seals, SessionState
  <2>3. RowsFit'
    BY <1>0, <2>1, <2>2 DEF Seals, RowsFit, Known
  <2>4. Leaves(q)
    BY <2>1, <2>2 DEF Seals, Leaves
  <2> QED BY <2>3, <2>4
<1>4. CASE \E s \in Sessions, cash \in Int : PostsTo(q, s, cash)
  <2>1. PICK s \in Sessions, cash \in Int : PostsTo(q, s, cash)
    BY <1>4
  <2>2. /\ session' \in [Sessions -> SessionState]
        /\ session'[s].status = "OPEN"
        /\ \A u \in Sessions \ {s} : session'[u] = session[u]
    BY <1>0, <2>1 DEF PostsTo, SessionState, IsOpen
  <2>3. RowsFit'
    BY <1>0, <2>1, <2>2 DEF PostsTo, RowsFit, Known
  <2>4. Leaves(q)
    BY <2>1, <2>2 DEF PostsTo, Leaves, Known, IsOpen
  <2> QED BY <2>3, <2>4
<1>5. CASE \E s \in Sessions, t \in Transfers, r \in Registers : RequestsFrom(q, s, t, r)
  <2>1. PICK s \in Sessions, t \in Transfers, r \in Registers : RequestsFrom(q, s, t, r)
    BY <1>5
  <2>2. /\ transfer' \in [Transfers -> TransferState]
        /\ transfer'[t] = [status |-> "PENDING", source |-> s, destination |-> r]
        /\ \A u \in Transfers \ {t} : transfer'[u] = transfer[u]
    BY <1>0, <2>1 DEF RequestsFrom, TransferState
  <2>3. RowsFit'
    BY <1>0, <2>1, <2>2 DEF RequestsFrom, RowsFit, Known, IsOpen
  <2>4. Leaves(q)
    BY <2>1, <2>2 DEF RequestsFrom, Leaves
  <2> QED BY <2>3, <2>4
<1>6. CASE \E t \in Transfers, s, d \in Sessions : Completes(q, t, s, d)
  <2>1. PICK t \in Transfers, s \in Sessions, d \in Sessions : Completes(q, t, s, d)
    BY <1>6
  <2>2. /\ transfer' \in [Transfers -> TransferState]
        /\ transfer'[t] = [transfer[t] EXCEPT !.status = "COMPLETED"]
        /\ \A u \in Transfers \ {t} : transfer'[u] = transfer[u]
    BY <1>0, <2>1 DEF Completes, TransferState
  <2>3. /\ session' \in [Sessions -> SessionState]
        /\ session'[s].status = "OPEN" /\ session'[d].status = "OPEN"
        /\ \A u \in Sessions \ {s, d} : session'[u] = session[u]
    <3>1. /\ session'[s] = [session[s] EXCEPT !.cash = @ - 1]
          /\ session'[d] = [session[d] EXCEPT !.cash = @ + 1]
          /\ \A u \in Sessions \ {s, d} : session'[u] = session[u]
          /\ session' = [u \in Sessions |-> session'[u]]
      BY <1>0, <2>1 DEF Completes
    <3>2. /\ session'[s] \in SessionState /\ session'[d] \in SessionState
          /\ session'[s].status = "OPEN" /\ session'[d].status = "OPEN"
      BY <1>0, <2>1, <3>1 DEF Completes, SessionState, IsOpen
    <3>3. \A u \in Sessions : session'[u] \in SessionState
      BY <1>0, <3>1, <3>2
    <3> QED BY <3>1, <3>2, <3>3
  <2>4. /\ transfer'[t].source = transfer[t].source /\ transfer'[t].status = "COMPLETED"
        /\ transfer'[t].destination = transfer[t].destination
        /\ transfer[t].status # "NONE"
    BY <1>0, <2>1, <2>2 DEF Completes, InProgress, TransferState
  <2>5. RowsFit'
    BY <1>0, <2>1, <2>2, <2>3, <2>4 DEF Completes, RowsFit, Known, IsOpen
  <2>6. Leaves(q)
    BY <2>1, <2>2, <2>3, <2>4 DEF Completes, Leaves, Known, IsOpen
  <2> QED BY <2>5, <2>6
<1>7. CASE \E t \in Transfers : Cancels(q, t)
  <2>1. PICK t \in Transfers : Cancels(q, t)
    BY <1>7
  <2>2. /\ transfer' \in [Transfers -> TransferState]
        /\ transfer'[t] = [transfer[t] EXCEPT !.status = "CANCELLED"]
        /\ \A u \in Transfers \ {t} : transfer'[u] = transfer[u]
    BY <1>0, <2>1 DEF Cancels, TransferState
  <2>4. /\ transfer'[t].source = transfer[t].source /\ transfer'[t].status = "CANCELLED"
        /\ transfer'[t].destination = transfer[t].destination
        /\ transfer[t].status # "NONE"
    BY <1>0, <2>1, <2>2 DEF Cancels, InProgress, TransferState
  <2>5. RowsFit'
    BY <1>0, <2>1, <2>2, <2>4 DEF Cancels, RowsFit, Known
  <2>6. Leaves(q)
    BY <2>1, <2>2, <2>4 DEF Cancels, Leaves
  <2> QED BY <2>5, <2>6
<1> QED BY <1>1, <1>2, <1>3, <1>4, <1>5, <1>6, <1>7 DEF Effect

LEMMA OneOpenKept ==
    ASSUME LocksInv, NEW q \in Connections, Effect(q)
    PROVE  OneOpenEach'
<1>0. session \in [Sessions -> SessionState] /\ OneOpenEach
  BY DEF LocksInv, RowsFit
<1>1. CASE \E s \in Sessions : Opens(q, s)
  <2>1. PICK s \in Sessions : Opens(q, s)
    BY <1>1
  <2>2. \A u \in Sessions \ {s} : IsOpen(u)' => IsOpen(u) /\ u[1] # s[1]
    BY <1>0, <2>1 DEF Opens, IsOpen, OpenSessionsOf
  <2> QED BY <1>0, <2>2 DEF OneOpenEach
<1>2. CASE ~\E s \in Sessions : Opens(q, s)
  <2>1. \A u \in Sessions : IsOpen(u)' => IsOpen(u)
    BY <1>0, <1>2 DEF Effect, Stays, rows, Seals, PostsTo, RequestsFrom, Completes, Cancels,
                      IsOpen, SessionState
  <2> QED BY <1>0, <2>1 DEF OneOpenEach
<1> QED BY <1>1, <1>2

LEMMA SealedRestKept ==
    ASSUME LocksInv, NEW q \in Connections, Effect(q)
    PROVE  SealedRest'
<1>0. /\ session \in [Sessions -> SessionState]
      /\ transfer \in [Transfers -> TransferState]
      /\ SealedRest
  BY DEF LocksInv, RowsFit
<1> SUFFICES ASSUME NEW u \in Sessions, session'[u].status = "CLOSED"
             PROVE  session'[u].sealed = session'[u].cash /\ InProgressFrom(u)' = {}
  BY DEF SealedRest
<1>1. \/ session'[u] = session[u]
      \/ session'[u].sealed = session'[u].cash /\ InProgressFrom(u) = {}
  BY <1>0 DEF Effect, Stays, rows, Opens, Seals, PostsTo, RequestsFrom, Completes, Cancels,
              IsOpen, SessionState
<1>2. session'[u].sealed = session'[u].cash /\ InProgressFrom(u) = {}
  BY <1>0, <1>1 DEF SealedRest
<1>3. \A t \in Transfers : InProgress(t)' /\ transfer'[t].source = u
                             => InProgress(t) /\ transfer[t].source = u
  <2> SUFFICES ASSUME NEW t \in Transfers, transfer'[t] # transfer[t],
                      InProgress(t)', transfer'[t].source = u
               PROVE  FALSE
    BY DEF InProgress
  <2>1. PICK s \in Sessions, x \in Transfers, r \in Registers : RequestsFrom(q, s, x, r)
    BY <1>0 DEF Effect, Stays, rows, Opens, Seals, PostsTo, Completes, Cancels, InProgress,
                TransferState
  <2>2. s = u /\ IsOpen(u)
    BY <1>0, <2>1 DEF RequestsFrom
  <2> QED BY <2>1, <2>2 DEF RequestsFrom, IsOpen
<1> QED BY <1>2, <1>3 DEF InProgressFrom

-----------------------------------------------------------------------------
(* The other requests: what one has locked, no other changes.              *)

LEMMA OthersFit ==
    ASSUME LocksInv, NEW q \in Connections, Locally(q), Leaves(q), RowsFit',
           NEW p \in Connections \ {q}
    PROVE  Fits(p)'
<1>1. /\ op'[p] = op[p] /\ pc'[p] = pc[p] /\ awaits'[p] = awaits[p]
      /\ held'[p] = held[p] /\ seen'[p] = seen[p]
  BY DEF Locally, LocksInv, LockTypes
<1>2. held[p] \cap held[q] = {}
  BY DEF LocksInv, Apart
<1>3. /\ \A s \in Sessions : SessionRow(s) \in held[p] /\ Known(s) => session'[s] = session[s]
      /\ \A s \in Sessions : Known(s) => Known(s)'
  BY <1>2 DEF Leaves, Known
<1>4. /\ \A t \in Transfers : TransferRow(t) \in held[p] /\ transfer[t].status # "NONE"
                                => transfer'[t] = transfer[t]
      /\ \A t \in Transfers : transfer[t].status # "NONE" =>
            /\ transfer'[t].status # "NONE"
            /\ transfer'[t].source = transfer[t].source
            /\ transfer'[t].destination = transfer[t].destination
            /\ InProgress(t)' => InProgress(t)
  BY <1>2 DEF Leaves, InProgress
<1>5. \A s \in Sessions : SessionRow(s) \in held[p] => InProgressFrom(s)' \subseteq InProgressFrom(s)
  BY <1>2, <1>4 DEF Leaves, InProgressFrom, InProgress
<1>6. \A r : RegisterRow(r) \in held[p] => OpenSessionsOf(r)' \subseteq OpenSessionsOf(r)
  <2> SUFFICES ASSUME NEW r, RegisterRow(r) \in held[p], NEW s \in Sessions,
                      s[1] = r, session'[s].status = "OPEN"
               PROVE  session[s].status = "OPEN"
    BY DEF OpenSessionsOf, IsOpen
  <2>1. ~(~Known(s) /\ RegisterRow(s[1]) \in held[q])
    BY <1>2
  <2> QED BY <2>1 DEF Leaves, IsOpen
<1>7. CASE pc[p] = "idle" /\ held[p] = {}
  BY <1>1, <1>7 DEF Fits
<1>8. CASE op[p].kind = "open" /\ OpenFits(p)
  BY <1>1, <1>6, <1>8 DEF Fits, OpenFits
<1>9. CASE op[p].kind \in OneSessionKinds /\ \E s \in Sessions : WorksOn(p, s)
  <2>1. PICK s \in Sessions : WorksOn(p, s)
    BY <1>9
  <2>2. WorksOn(p, s)'
    BY <1>1, <1>3, <1>5, <2>1 DEF WorksOn, IsOpen
  <2> QED BY <1>1, <1>9, <2>2 DEF Fits
<1>10. CASE op[p].kind = "cancel" /\ CancelFits(p)
  <2>1. CancelFits(p)'
    BY <1>1, <1>4, <1>10 DEF CancelFits, InProgress
  <2> QED BY <1>1, <1>10, <2>1 DEF Fits
<1>11. CASE op[p].kind = "complete" /\ CompleteFits(p)
  <2>1. PICK t \in Transfers : t = op[p].transfer /\ transfer[t].status # "NONE"
    BY <1>11 DEF CompleteFits
  <2>2. PICK s \in Sessions : s = transfer[t].source /\ s = transfer'[t].source /\ Known(s)
    BY <1>4, <2>1 DEF LocksInv, RowsFit
  <2>3. Locked2(t)' = Locked2(t) /\ Locked2(t) = {SessionRow(s), TransferRow(t)}
    BY <2>2 DEF Locked2
  <2>4. /\ SessionRow(s) \in held[p] => session'[s] = session[s]
        /\ TransferRow(t) \in held[p] => (InProgress(t)' <=> InProgress(t))
    BY <1>3, <1>4, <2>1, <2>2 DEF InProgress
  <2>5. ASSUME CompleteWaits(p, t) PROVE CompleteWaits(p, t)'
    <3>1. CASE held[p] = {} /\ awaits[p] = SessionRow(s)
      BY <1>1, <2>2, <3>1 DEF CompleteWaits
    <3>2. CASE held[p] = {SessionRow(s)} /\ awaits[p] = TransferRow(t) /\ IsOpen(s)
      BY <1>1, <2>2, <2>4, <3>2 DEF CompleteWaits, IsOpen
    <3>3. CASE \E d \in Sessions : /\ held[p] = Locked2(t) /\ awaits[p] = SessionRow(d)
                                   /\ Goes(t, d) /\ Known(d)
      <4>1. PICK d \in Sessions : /\ held[p] = Locked2(t) /\ awaits[p] = SessionRow(d)
                                 /\ Goes(t, d) /\ Known(d)
        BY <3>3
      <4>2. Goes(t, d)' /\ Known(d)'
        BY <1>3, <2>2, <2>3, <2>4, <4>1 DEF Goes, IsOpen
      <4> QED BY <1>1, <2>3, <4>1, <4>2 DEF CompleteWaits
    <3> QED BY <2>2, <2>5, <3>1, <3>2, <3>3 DEF CompleteWaits
  <2>6. CompleteSeeks(p, t) => CompleteSeeks(p, t)'
    BY <1>1, <2>2, <2>3, <2>4 DEF CompleteSeeks, IsOpen
  <2>7. ASSUME CompleteHolds(p, t) PROVE CompleteHolds(p, t)' /\ session'[s] = session[s]
    <3>1. PICK d \in Sessions : Goes(t, d) /\ IsOpen(d) /\ held[p] = Locked2(t) \cup {SessionRow(d)}
      BY <2>7 DEF CompleteHolds
    <3>2. session'[d] = session[d] /\ session'[s] = session[s]
      BY <1>3, <2>3, <2>4, <3>1 DEF IsOpen, Known
    <3>3. Goes(t, d)' /\ IsOpen(d)'
      BY <2>2, <2>3, <2>4, <3>1, <3>2 DEF Goes, IsOpen
    <3> QED BY <1>1, <2>3, <3>1, <3>2, <3>3 DEF CompleteHolds
  <2>8. ASSUME held[p] = Locked2(t), IsOpen(s), ~InProgress(t)
        PROVE  IsOpen(s)' /\ ~InProgress(t)'
    BY <2>3, <2>4, <2>8 DEF IsOpen
  <2>9. CompleteFits(p)'
    <3>1. transfer'[t].status # "NONE" /\ op'[p].transfer = t
      BY <1>1, <1>4, <2>1
    <3>2. CASE pc[p] = "wait" /\ CompleteWaits(p, t)
      BY <1>1, <2>5, <3>1, <3>2 DEF CompleteFits
    <3>3. CASE pc[p] = "seek" /\ CompleteSeeks(p, t)
      BY <1>1, <2>6, <3>1, <3>3 DEF CompleteFits
    <3>4. CASE pc[p] = "check" /\ held[p] = Locked2(t) /\ IsOpen(s) /\ ~InProgress(t)
      BY <1>1, <2>2, <2>3, <2>8, <3>1, <3>4 DEF CompleteFits
    <3>5. CASE pc[p] = "check" /\ CompleteHolds(p, t)
      BY <1>1, <2>7, <3>1, <3>5 DEF CompleteFits
    <3>6. CASE pc[p] = "commit" /\ CompleteHolds(p, t) /\ session[s].cash >= 1
      BY <1>1, <2>2, <2>7, <3>1, <3>6 DEF CompleteFits
    <3> QED BY <1>11, <2>1, <2>2, <3>2, <3>3, <3>4, <3>5, <3>6 DEF CompleteFits
  <2> QED BY <1>1, <1>11, <2>9 DEF Fits
<1> QED BY <1>7, <1>8, <1>9, <1>10, <1>11 DEF LocksInv, Fits

-----------------------------------------------------------------------------
(* The request that moves, one action at a time.                           *)

\* The steps that write no row.
LEMMA AskFits ==
    ASSUME LocksInv, NEW q \in Connections, NEW o \in Ops, Ask(q, o)
    PROVE  Locally(q) /\ Stays /\ Fits(q)'
<1>1. PICK row \in FirstRow(o) : awaits' = [awaits EXCEPT ![q] = row]
  BY DEF Ask
<1>2. /\ op' = [op EXCEPT ![q] = o] /\ pc' = [pc EXCEPT ![q] = "wait"]
      /\ UNCHANGED <<session, transfer, held, seen>> /\ pc[q] = "idle"
  BY DEF Ask
<1>3. /\ op'[q] = o /\ pc'[q] = "wait" /\ awaits'[q] = row /\ held'[q] = {}
      /\ session' = session /\ transfer' = transfer
  BY <1>1, <1>2 DEF LocksInv, LockTypes, Fits, OpenFits, WorksOn, CancelFits, CompleteFits
<1>4. Locally(q) /\ Stays
  BY <1>1, <1>2, <1>3 DEF Locally, LocksInv, LockTypes, Stays, rows
<1>5. CASE o.kind = "open"
  <2>1. row = RegisterRow(o.register) /\ o.register \in Registers
    BY <1>1, <1>5, OpKinds DEF FirstRow
  <2> QED BY <1>3, <1>4, <1>5, <2>1 DEF Fits, OpenFits
<1>6. CASE o.kind \in OneSessionKinds
  <2>1. \/ row \in {SessionRow(s) : s \in {u \in {o.session} : IsOpen(u)}} /\ o.kind = "force"
        \/ row \in {SessionRow(s) : s \in OpenSessionsOf(o.register)}
    BY <1>1, <1>6 DEF FirstRow, OneSessionKinds
  <2>2. PICK s \in Sessions : row = SessionRow(s) /\ IsOpen(s)
    BY <2>1, OpKinds DEF OpenSessionsOf
  <2>3. WorksOn(q, s)'
    BY <1>3, <2>2, OpKinds DEF WorksOn, Known, IsOpen
  <2> QED BY <1>3, <1>4, <1>6, <2>3 DEF Fits
<1>7. CASE o.kind = "cancel"
  <2>1. o.transfer \in Transfers /\ row = TransferRow(o.transfer) /\ transfer[o.transfer].status # "NONE"
    BY <1>1, <1>7, OpKinds DEF FirstRow
  <2> QED BY <1>3, <1>4, <1>7, <2>1 DEF Fits, CancelFits
<1>8. CASE o.kind = "complete"
  <2> DEFINE t == o.transfer
  <2>1. t \in Transfers
    BY <1>8, OpKinds
  <2>2. PICK s \in Sessions : row = SessionRow(s) /\ s = transfer[t].source
    BY <1>1, <1>8 DEF FirstRow
  <2>3. transfer[t].status # "NONE"
    BY <2>1, <2>2, NoneIsNoRow DEF LocksInv, RowsFit
  <2>4. CompleteFits(q)'
    BY <1>3, <2>1, <2>2, <2>3 DEF CompleteFits, CompleteWaits
  <2> QED BY <1>3, <1>4, <1>8, <2>4 DEF Fits
<1> QED BY <1>4, <1>5, <1>6, <1>7, <1>8, OpKinds

LEMMA SeekFits ==
    ASSUME LocksInv, NEW q \in Connections, Seek(q)
    PROVE  Locally(q) /\ Stays /\ Fits(q)'
<1> DEFINE t == op[q].transfer
           s == transfer[t].source
<1>1. PICK row \in NextRow(q) : awaits' = [awaits EXCEPT ![q] = row]
  BY DEF Seek
<1>2. /\ op'[q] = op[q] /\ pc'[q] = "wait" /\ awaits'[q] = row /\ held'[q] = held[q]
      /\ session' = session /\ transfer' = transfer
  BY <1>1 DEF Seek, LocksInv, LockTypes
<1>3. Locally(q) /\ Stays
  BY <1>1, <1>2 DEF Seek, Locally, LocksInv, LockTypes, Stays, rows
<1>4. op[q].kind = "complete" /\ CompleteFits(q) /\ CompleteSeeks(q, t)
  BY DEF Seek, LocksInv, Fits, OpenFits, WorksOn, CancelFits, CompleteFits
<1>5. /\ t \in Transfers /\ transfer[t].status # "NONE" /\ s \in Sessions
  BY <1>4 DEF CompleteFits, LocksInv, RowsFit
<1>6. CASE held[q] = {SessionRow(s)}
  <2>1. row = TransferRow(t)
    BY <1>1, <1>6, RowsDiffer DEF NextRow
  <2>2. CompleteWaits(q, t)'
    BY <1>2, <1>4, <1>6, <2>1 DEF CompleteWaits, CompleteSeeks, IsOpen
  <2> QED BY <1>2, <1>3, <1>4, <1>5, <2>2 DEF Fits, CompleteFits
<1>7. CASE held[q] = Locked2(t) /\ InProgress(t)
  <2>1. PICK d \in Sessions : row = SessionRow(d) /\ IsOpen(d) /\ row \notin held[q]
    BY <1>1, <1>7 DEF NextRow, Locked2, OpenSessionsOf
  <2>2. d # s /\ Known(d)
    BY <1>7, <2>1 DEF Locked2, Known, IsOpen
  <2>3. CompleteWaits(q, t)'
    BY <1>2, <1>4, <1>7, <2>1, <2>2
       DEF CompleteWaits, CompleteSeeks, IsOpen, Goes, InProgress, Known, Locked2
  <2> QED BY <1>2, <1>3, <1>4, <1>5, <2>3 DEF Fits, CompleteFits
<1> QED BY <1>4, <1>6, <1>7 DEF CompleteSeeks

LEMMA GrantFits ==
    ASSUME LocksInv, NEW q \in Connections, Grant(q)
    PROVE  Locally(q) /\ Stays /\ Fits(q)'
<1>0. /\ pc[q] = "wait" /\ Free(awaits[q]) /\ StillThere(q)
      /\ op'[q] = op[q] /\ held'[q] = held[q] \cup {awaits[q]}
      /\ seen'[q] = seen[q]
      /\ pc'[q] = IF SeeksMore(q) THEN "seek" ELSE "check"
      /\ session' = session /\ transfer' = transfer
  BY DEF Grant, LocksInv, LockTypes
<1>1. awaits[q] \in Rows => Locally(q) /\ Stays
  BY <1>0 DEF Grant, Locally, LocksInv, LockTypes, Stays, rows
<1>2. \A s \in Sessions : awaits[q] = SessionRow(s) /\ op[q].kind # "force" => IsOpen(s)
  BY <1>0 DEF StillThere
<1>3. CASE op[q].kind = "open" /\ OpenFits(q)
  <2>1. ~SeeksMore(q) /\ awaits[q] \in Rows
    BY <1>0, <1>3 DEF SeeksMore, Rows, OpenFits
  <2> QED BY <1>0, <1>1, <1>3, <2>1 DEF Fits, OpenFits
<1>4. CASE op[q].kind \in OneSessionKinds /\ \E s \in Sessions : WorksOn(q, s)
  <2>1. PICK s \in Sessions : WorksOn(q, s)
    BY <1>4
  <2>2. ~SeeksMore(q) /\ awaits[q] \in Rows
    BY <1>0, <1>4, <2>1 DEF SeeksMore, Rows, WorksOn, OneSessionKinds
  <2>3. WorksOn(q, s)'
    BY <1>0, <1>2, <2>1, <2>2 DEF WorksOn, Known, IsOpen
  <2> QED BY <1>0, <1>1, <1>4, <2>2, <2>3 DEF Fits
<1>5. CASE op[q].kind = "cancel" /\ CancelFits(q)
  <2>1. ~SeeksMore(q) /\ awaits[q] \in Rows
    BY <1>0, <1>5 DEF SeeksMore, Rows, CancelFits
  <2> QED BY <1>0, <1>1, <1>5, <2>1 DEF Fits, CancelFits
<1>6. CASE op[q].kind = "complete" /\ CompleteFits(q)
  <2> DEFINE t == op[q].transfer
             s == transfer[t].source
  <2>1. t \in Transfers /\ transfer[t].status # "NONE" /\ s \in Sessions /\ CompleteWaits(q, t)
    BY <1>0, <1>6 DEF CompleteFits, LocksInv, RowsFit
  <2>2. CASE held[q] = {} /\ awaits[q] = SessionRow(s)
    <3>1. pc'[q] = "seek" /\ held'[q] = {SessionRow(s)} /\ IsOpen(s)
      BY <1>0, <1>2, <1>6, <2>1, <2>2 DEF SeeksMore
    <3>2. CompleteSeeks(q, t)'
      BY <1>0, <3>1 DEF CompleteSeeks, IsOpen
    <3>3. awaits[q] \in Rows
      BY <2>1, <2>2 DEF Rows
    <3> QED BY <1>0, <1>1, <1>6, <2>1, <3>1, <3>2, <3>3 DEF Fits, CompleteFits
  <2>3. CASE held[q] = {SessionRow(s)} /\ awaits[q] = TransferRow(t) /\ IsOpen(s)
    <3>1. held'[q] = Locked2(t)
      BY <1>0, <2>3 DEF Locked2
    <3>2. pc'[q] = IF InProgress(t) THEN "seek" ELSE "check"
      BY <1>0, <1>6, <2>3 DEF SeeksMore
    <3>3. awaits[q] \in Rows
      BY <2>1, <2>3 DEF Rows
    <3>4. CompleteFits(q)'
      BY <1>0, <2>1, <2>3, <3>1, <3>2
         DEF CompleteFits, CompleteSeeks, Locked2, IsOpen, InProgress
    <3> QED BY <1>0, <1>1, <1>6, <3>3, <3>4 DEF Fits
  <2>4. CASE \E d \in Sessions : /\ held[q] = Locked2(t) /\ awaits[q] = SessionRow(d)
                                 /\ Goes(t, d) /\ Known(d)
    <3>1. PICK d \in Sessions : held[q] = Locked2(t) /\ awaits[q] = SessionRow(d) /\ Goes(t, d)
      BY <2>4
    <3>2. ~SeeksMore(q) /\ awaits[q] \in Rows
      BY <3>1, RowsDiffer DEF SeeksMore, Rows, Locked2
    <3>3. IsOpen(d)
      BY <1>2, <1>6, <3>1
    <3>4. CompleteHolds(q, t)'
      BY <1>0, <3>1, <3>3 DEF CompleteHolds, Goes, InProgress, IsOpen, Locked2
    <3> QED BY <1>0, <1>1, <1>6, <2>1, <3>2, <3>4 DEF Fits, CompleteFits
  <2> QED BY <2>1, <2>2, <2>3, <2>4 DEF CompleteWaits
<1> QED BY <1>0, <1>3, <1>4, <1>5, <1>6 DEF LocksInv, Fits

LEMMA CheckFits ==
    ASSUME LocksInv, NEW q \in Connections, Check(q)
    PROVE  Locally(q) /\ Stays /\ Fits(q)'
<1>0. /\ pc[q] = "check" /\ Allowed(q)
      /\ op'[q] = op[q] /\ held'[q] = held[q] /\ awaits'[q] = awaits[q] /\ pc'[q] = "commit"
      /\ seen'[q] = IF op[q].kind \in {"close", "force"} THEN Cash(q) ELSE None
      /\ session' = session /\ transfer' = transfer
  BY DEF Check, LocksInv, LockTypes
<1>1. Locally(q) /\ Stays
  BY <1>0 DEF Check, Locally, LocksInv, LockTypes, Stays, rows
<1>2. CASE op[q].kind = "open" /\ OpenFits(q)
  <2>1. OpenSessionsOf(op[q].register) = {}
    BY <1>0, <1>2 DEF Allowed
  <2> QED BY <1>0, <1>1, <1>2, <2>1 DEF Fits, OpenFits, OpenSessionsOf, IsOpen
<1>3. CASE op[q].kind \in OneSessionKinds /\ \E s \in Sessions : WorksOn(q, s)
  <2>1. PICK s \in Sessions : WorksOn(q, s)
    BY <1>3
  <2>2. held[q] = {SessionRow(s)}
    BY <1>0, <2>1 DEF WorksOn
  <2>3. Source(q) = s
    BY <1>3, <2>2, SourceOfOne DEF OneSessionKinds
  <2>4. op[q].kind \in {"close", "force"} => InProgressFrom(s) = {} /\ seen'[q] = session[s].cash
    BY <1>0, <2>3 DEF Allowed, Cash
  <2>5. WorksOn(q, s)'
    BY <1>0, <2>1, <2>4 DEF WorksOn, Known, IsOpen, InProgressFrom, InProgress
  <2> QED BY <1>0, <1>1, <1>3, <2>5 DEF Fits
<1>4. CASE op[q].kind = "cancel" /\ CancelFits(q)
  <2>1. InProgress(op[q].transfer)
    BY <1>0, <1>4 DEF Allowed
  <2> QED BY <1>0, <1>1, <1>4, <2>1 DEF Fits, CancelFits, InProgress
<1>5. CASE op[q].kind = "complete" /\ CompleteFits(q)
  <2> DEFINE t == op[q].transfer
             s == transfer[t].source
  <2>1. t \in Transfers /\ transfer[t].status # "NONE" /\ s \in Sessions
    BY <1>5 DEF CompleteFits, LocksInv, RowsFit
  <2>2. InProgress(t) /\ Cash(q) >= 1
    BY <1>0, <1>5 DEF Allowed, Covered
  <2>3. CompleteHolds(q, t)
    BY <1>0, <1>5, <2>2 DEF CompleteFits
  <2>4. session[s].cash >= 1
    BY <1>5, <2>1, <2>2, <2>3, SourceOfTwo DEF CompleteHolds, Cash
  <2>5. CompleteHolds(q, t)'
    BY <1>0, <2>3 DEF CompleteHolds, Goes, InProgress, IsOpen, Locked2
  <2> QED BY <1>0, <1>1, <1>5, <2>1, <2>4, <2>5 DEF Fits, CompleteFits
<1> QED BY <1>0, <1>2, <1>3, <1>4, <1>5 DEF LocksInv, Fits

\* The steps that end a request.
LEMMA EndFits ==
    ASSUME LocksInv, NEW q \in Connections,
           \/ SeekNothing(q) \/ GrantNothing(q) \/ Refuse(q) \/ Commit(q)
           \/ LockTimeout(q) \/ DeadlockAbort(q)
    PROVE  Locally(q) /\ Effect(q) /\ Fits(q)'
<1>1. CASE Commit(q)
  <2>1. End(q)
    BY <1>1 DEF Commit, CommitOpen, CommitPost, CommitSeal, CommitRequest, CommitComplete,
                CommitCancel
  <2> QED BY <1>1, <2>1, CommitEffects, EndsLocally DEF LocksInv
<1>2. CASE ~Commit(q)
  <2>1. End(q) /\ Stays
    BY <1>2 DEF SeekNothing, GrantNothing, Refuse, LockTimeout, DeadlockAbort, Rollback, Stays
  <2> QED BY <2>1, EndsLocally DEF LocksInv, Effect
<1> QED BY <1>1, <1>2

LEMMA NextSteps ==
    ASSUME LocksInv, Next
    PROVE  \E q \in Connections : Locally(q) /\ Effect(q) /\ Fits(q)'
<1>1. PICK q \in Connections : (\E o \in Ops : Ask(q, o)) \/ Work(q) \/ Grant(q)
                             \/ LockTimeout(q) \/ DeadlockAbort(q)
  BY DEF Next
<1>2. CASE \E o \in Ops : Ask(q, o)
  BY <1>2, AskFits DEF Effect
<1>3. CASE Seek(q)
  BY <1>3, SeekFits DEF Effect
<1>4. CASE Check(q)
  BY <1>4, CheckFits DEF Effect
<1>5. CASE Grant(q)
  BY <1>5, GrantFits DEF Effect
<1>6. CASE \/ SeekNothing(q) \/ GrantNothing(q) \/ Refuse(q) \/ Commit(q)
           \/ LockTimeout(q) \/ DeadlockAbort(q)
  BY <1>6, EndFits
<1> QED BY <1>1, <1>2, <1>3, <1>4, <1>5, <1>6 DEF Work

LEMMA LocksInvKept ==
    ASSUME LocksInv, Next
    PROVE  LocksInv'
<1>1. PICK q \in Connections : Locally(q) /\ Effect(q) /\ Fits(q)'
  BY NextSteps
<1>2. RowsFit' /\ Leaves(q) /\ OneOpenEach' /\ SealedRest'
  BY <1>1, EffectLeaves, OneOpenKept, SealedRestKept
<1>3. \A p \in Connections : Fits(p)'
  BY <1>1, <1>2, OthersFit
<1>4. LockTypes'
  BY <1>1 DEF Locally, LocksInv, LockTypes
<1>5. Apart'
  <2>1. \A p \in Connections \ {q} : held'[p] = held[p]
    BY <1>1 DEF Locally, LocksInv, LockTypes
  <2>2. \A p \in Connections \ {q} : held'[q] \cap held[p] = {}
    BY <1>1 DEF Locally, LocksInv, Apart, Free
  <2> QED BY <2>1, <2>2 DEF LocksInv, Apart
<1> QED BY <1>2, <1>3, <1>4, <1>5 DEF LocksInv

LEMMA LocksInvHolds == Spec => []LocksInv
<1>1. Init => LocksInv
  <2> SUFFICES ASSUME Init PROVE LocksInv
    OBVIOUS
  <2>1. RowsFit /\ OneOpenEach /\ SealedRest
    BY DEF Init, RowsFit, OneOpenEach, SealedRest, SessionState, TransferState, IsOpen
  <2>2. Apart /\ LockTypes /\ \A q \in Connections : Fits(q)
    BY DEF Init, Apart, LockTypes, Fits
  <2> QED BY <2>1, <2>2 DEF LocksInv
<1>2. LocksInv /\ UNCHANGED lockVars => LocksInv'
  <2> SUFFICES ASSUME LocksInv, UNCHANGED lockVars PROVE LocksInv'
    OBVIOUS
  <2>1. RowsFit' /\ OneOpenEach' /\ SealedRest' /\ Apart' /\ LockTypes'
    BY DEF LocksInv, lockVars, RowsFit, OneOpenEach, SealedRest, Apart, LockTypes, Known, IsOpen,
           InProgressFrom, InProgress
  <2>2. \A q \in Connections : Fits(q)'
    BY DEF LocksInv, lockVars, Fits, OpenFits, WorksOn, CancelFits, CompleteFits, CompleteWaits,
           CompleteSeeks, CompleteHolds, Goes, Locked2, Known, IsOpen, OpenSessionsOf,
           InProgressFrom, InProgress
  <2> QED BY <2>1, <2>2 DEF LocksInv
<1> QED BY <1>1, <1>2, LocksInvKept, PTL DEF Spec

-----------------------------------------------------------------------------
(* What the locks are for.                                                 *)

\* complete, reject and cancel lock the row of the transfer before they look at
\* it: of two that race for one transfer, whatever their number, one decides.
THEOREM OneOutcomeHolds == Spec => OneOutcomePerTransfer
<1>1. LocksInv /\ [Next]_lockVars =>
        \A t \in Transfers :
           transfer[t].status \in {"COMPLETED", "CANCELLED"} => transfer'[t] = transfer[t]
  <2> SUFFICES ASSUME LocksInv, [Next]_lockVars, NEW t \in Transfers,
                      transfer[t].status \in {"COMPLETED", "CANCELLED"}
               PROVE  transfer'[t] = transfer[t]
    OBVIOUS
  <2>1. CASE Next
    BY <2>1, NextSteps, EffectLeaves DEF Leaves, InProgress
  <2>2. CASE UNCHANGED lockVars
    BY <2>2 DEF lockVars
  <2> QED BY <2>1, <2>2
<1> QED BY <1>1, LocksInvHolds, PTL DEF Spec, OneOutcomePerTransfer

Phase == [s \in Sessions |-> session[s].status]
Balance == [s \in Sessions |-> session[s].cash]
Recorded == [s \in Sessions |-> session[s].sealed]

\* The columns of the ledger, row by row.
LEMMA Columns ==
    /\ \A s \in Sessions : /\ Phase[s] = session[s].status /\ Phase'[s] = session'[s].status
                           /\ Balance[s] = session[s].cash /\ Balance'[s] = session'[s].cash
                           /\ Recorded[s] = session[s].sealed /\ Recorded'[s] = session'[s].sealed
    /\ Phase = [s \in Sessions |-> Phase[s]] /\ Phase' = [s \in Sessions |-> Phase'[s]]
    /\ Balance = [s \in Sessions |-> Balance[s]] /\ Balance' = [s \in Sessions |-> Balance'[s]]
    /\ Recorded = [s \in Sessions |-> Recorded[s]] /\ Recorded' = [s \in Sessions |-> Recorded'[s]]
<1>1. /\ \A s \in Sessions : Phase[s] = session[s].status /\ Phase'[s] = session'[s].status
      /\ Phase = [s \in Sessions |-> Phase[s]] /\ Phase' = [s \in Sessions |-> Phase'[s]]
  BY DEF Phase
<1>2. /\ \A s \in Sessions : Balance[s] = session[s].cash /\ Balance'[s] = session'[s].cash
      /\ Balance = [s \in Sessions |-> Balance[s]] /\ Balance' = [s \in Sessions |-> Balance'[s]]
  BY DEF Balance
<1>3. /\ \A s \in Sessions : Recorded[s] = session[s].sealed /\ Recorded'[s] = session'[s].sealed
      /\ Recorded = [s \in Sessions |-> Recorded[s]]
      /\ Recorded' = [s \in Sessions |-> Recorded'[s]]
  BY DEF Recorded
<1> QED BY <1>1, <1>2, <1>3

LEMMA EffectIsLedger ==
    ASSUME LocksInv, NEW q \in Connections, Effect(q)
    PROVE  Ledger!LedgerNext \/ UNCHANGED <<Phase, Balance, Recorded>>
<1>0. session \in [Sessions -> SessionState] /\ SealedRest
  BY DEF LocksInv, RowsFit
<1>1. CASE session' = session
  BY <1>1 DEF Phase, Balance, Recorded
<1>2. CASE \E s \in Sessions : Opens(q, s)
  <2>1. PICK s \in Sessions : Opens(q, s)
    BY <1>2
  <2>2. session[s].status = "NONE" /\ session[s].sealed = None
    BY <2>1 DEF Opens, Known, LocksInv, RowsFit
  <2>3. /\ session'[s] = [status |-> "OPEN", cash |-> 1, sealed |-> None]
        /\ \A u \in Sessions \ {s} : session'[u] = session[u]
    BY <1>0, <2>1 DEF Opens
  <2>4. /\ Phase[s] = "NONE" /\ Phase' = [Phase EXCEPT ![s] = "OPEN"]
        /\ Recorded' = Recorded
    BY <2>2, <2>3, Columns
  <2>5. Balance' = [Balance EXCEPT ![s] = Balance'[s]] /\ Balance'[s] >= 0
    BY <2>3, Columns
  <2>6. Ledger!Open(s)
    BY <2>4, <2>5 DEF Ledger!Open, Ledger!Rebalanced, Phase, Balance, Recorded
  <2> QED BY <2>6 DEF Ledger!LedgerNext
<1>3. CASE \E s \in Sessions : Seals(q, s)
  <2>1. PICK s \in Sessions : Seals(q, s)
    BY <1>3
  <2>2. /\ session'[s] = [status |-> "CLOSED", cash |-> session[s].cash,
                          sealed |-> session[s].cash]
        /\ \A u \in Sessions \ {s} : session'[u] = session[u]
    BY <1>0, <2>1 DEF Seals
  <2>3. CASE IsOpen(s)
    <3>1. /\ Phase[s] = "OPEN" /\ Phase' = [Phase EXCEPT ![s] = "CLOSED"]
          /\ Recorded' = [Recorded EXCEPT ![s] = Balance[s]] /\ Balance' = Balance
      BY <2>2, <2>3, Columns DEF IsOpen
    <3>2. Ledger!Seal(s)
      BY <3>1 DEF Ledger!Seal, Phase, Balance, Recorded
    <3> QED BY <3>2 DEF Ledger!LedgerNext
  <2>4. CASE ~IsOpen(s)
    \* a forced close that waited for another close finds the session as it leaves it
    <3>1. session[s].status = "CLOSED" /\ session[s].sealed = session[s].cash
      BY <1>0, <2>1, <2>4 DEF Seals, Known, IsOpen, SealedRest, SessionState
    <3>2. \A u \in Sessions : /\ session'[u].status = session[u].status
                             /\ session'[u].cash = session[u].cash
                             /\ session'[u].sealed = session[u].sealed
      BY <2>2, <3>1
    <3> QED BY <3>2 DEF Phase, Balance, Recorded
  <2> QED BY <2>3, <2>4
<1>4. CASE \E s \in Sessions, cash \in Int : PostsTo(q, s, cash)
  <2>1. PICK s \in Sessions, cash \in Int : PostsTo(q, s, cash)
    BY <1>4
  <2>2. /\ session'[s] = [session[s] EXCEPT !.cash = cash]
        /\ \A u \in Sessions \ {s} : session'[u] = session[u]
    BY <1>0, <2>1 DEF PostsTo
  <2>3. session'[s].status = session[s].status /\ session'[s].sealed = session[s].sealed
    BY <1>0, <2>2 DEF SessionState
  <2>4. /\ Phase[s] = "OPEN" /\ Phase' = Phase /\ Recorded' = Recorded
        /\ Balance' = [Balance EXCEPT ![s] = Balance'[s]]
    BY <2>1, <2>2, <2>3, Columns DEF PostsTo, IsOpen
  <2>5. Ledger!Post(s)
    BY <2>4 DEF Ledger!Post, Ledger!Rebalanced, Phase, Balance, Recorded
  <2> QED BY <2>5 DEF Ledger!LedgerNext
<1>5. CASE \E t \in Transfers, s, d \in Sessions : Completes(q, t, s, d)
  <2>1. PICK t \in Transfers, s \in Sessions, d \in Sessions : Completes(q, t, s, d)
    BY <1>5
  <2>2. /\ session'[s] = [session[s] EXCEPT !.cash = @ - 1]
        /\ session'[d] = [session[d] EXCEPT !.cash = @ + 1]
        /\ \A u \in Sessions \ {s, d} : session'[u] = session[u]
    BY <1>0, <2>1 DEF Completes
  <2>3. /\ session'[s].cash = session[s].cash - 1 /\ session'[d].cash = session[d].cash + 1
        /\ \A u \in Sessions : /\ session'[u].status = session[u].status
                               /\ session'[u].sealed = session[u].sealed
    BY <1>0, <2>2 DEF SessionState
  <2>4. s # d /\ IsOpen(s) /\ IsOpen(d) /\ session[s].cash >= 1
    BY <2>1 DEF Completes
  <2>5. /\ Phase[s] = "OPEN" /\ Phase[d] = "OPEN"
        /\ \A u \in Sessions : Phase'[u] = Phase[u] /\ Recorded'[u] = Recorded[u]
    BY <2>3, <2>4, Columns DEF IsOpen
  <2>6. Phase' = Phase /\ Recorded' = Recorded
    BY <2>5, Columns
  <2> DEFINE amount == Balance[s] - Balance'[s]
  <2>7. /\ Balance[s] \in Int /\ Balance[d] \in Int
        /\ Balance'[s] = Balance[s] - 1 /\ Balance'[d] = Balance[d] + 1 /\ Balance[s] >= 1
        /\ \A u \in Sessions \ {s, d} : Balance'[u] = Balance[u]
    BY <1>0, <2>2, <2>3, <2>4, Columns DEF SessionState
  <2>8. amount = 1 /\ Balance'[s] >= 0
    BY <2>7
  <2>9. Balance' = [Balance EXCEPT ![s] = @ - amount, ![d] = @ + amount]
    BY <2>4, <2>7, <2>8, Columns
  <2>10. Ledger!Move(s, d)
    BY <2>4, <2>5, <2>6, <2>8, <2>9 DEF Ledger!Move, Phase, Balance, Recorded
  <2> QED BY <2>10 DEF Ledger!LedgerNext
<1> QED
  BY <1>1, <1>2, <1>3, <1>4, <1>5 DEF Effect, Stays, rows, RequestsFrom, Cancels

\* Whatever the requests and however their statements interleave, what they
\* commit is a behaviour of the ledger: the locks of the services make each
\* transaction the one step the cash desk takes it for.
THEOREM LocksSuffice == Spec => LocksImplementLedger
<1>1. Init => Ledger!LedgerInit
  BY DEF Init, Ledger!LedgerInit
<1>2. LocksInv /\ [Next]_lockVars => [Ledger!LedgerNext]_(Ledger!ledgerVars)
  <2>1. ASSUME LocksInv, Next PROVE [Ledger!LedgerNext]_(Ledger!ledgerVars)
    BY <2>1, NextSteps, EffectIsLedger DEF Ledger!ledgerVars, Phase, Balance, Recorded
  <2>2. ASSUME UNCHANGED lockVars PROVE UNCHANGED Ledger!ledgerVars
    BY <2>2 DEF lockVars, Ledger!ledgerVars
  <2> QED BY <2>1, <2>2
<1> QED
  BY <1>1, <1>2, LocksInvHolds, PTL DEF Spec, LocksImplementLedger, Ledger!LedgerSpec

\* openSession locks the register before it looks for an OPEN session, and a
\* transfer is requested, completed and refused under the lock of its source:
\* a register never has two OPEN sessions, and a sealed one keeps the balance
\* it was sealed with and leaves no transfer in progress.
THEOREM SealedStayTrue == Spec => [](OneOpenEach /\ SealedRest)
BY LocksInvHolds, PTL DEF LocksInv
=============================================================================
