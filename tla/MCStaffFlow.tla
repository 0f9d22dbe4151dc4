------------------------------ MODULE MCStaffFlow ------------------------------
(* StaffFlow for TLC: two users of a tenant of three days, and the requests   *)
(* of a behaviour, of the platform or of the store.                           *)
EXTENDS StaffFlow, TLC

CONSTANTS u1, u2, q1, q2, o1, o2, c1, c2

Row(status, users, expires) ==
    [status |-> status, maxUsers |-> users, maxStores |-> 1, expires |-> expires]

TenantsCreated == { Row("PROVISIONING", 2, 0), Row("ACTIVE", 1, 1) }

ChangesOfMaster == { [expires |-> 3], [maxUsers |-> 2], [status |-> "SUSPENDED"] }

\* The platform's own requests, or those of a store once it is provisioned.
RequestsSent ==
    { [master |-> 2, seats |-> 3, staff |-> 0], [master |-> 1, seats |-> 2, staff |-> 2],
      [master |-> 1, seats |-> 0, staff |-> 4] }

Absence(u, from, to) == [employee |-> u, from |-> from, to |-> to, type |-> "VACATION"]
OverridesSent ==
    { Absence(u1, 1, 2), Absence(u1, 2, 3),
      [employee |-> u1, from |-> 1, to |-> 1, type |-> "PRESENT_ON_CLOSED_DAY"] }
ChangesOfOverrides == { [to |-> 1], [from |-> 3, to |-> 3] }

Span(a, b) == [from |-> a, to |-> b]
ClosuresSent == { {Span(1, 2)}, {Span(1, 1), Span(3, 3)} }

StaffSymmetry == Permutations({q1, q2}) \cup Permutations({o1, o2}) \cup Permutations({c1, c2})
================================================================================
