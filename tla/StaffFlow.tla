------------------------------- MODULE StaffFlow -------------------------------
(***************************************************************************)
(* A tenant's accounts and the staff of one store together: what holds of  *)
(* seats, of recorded ranges and of the calendar computed from them.       *)
(***************************************************************************)
EXTENDS AttendanceRecords


staffVars == <<tenantVars, assignment, today, request, left, hrVars>>

StaffInit == TenantInit /\ AttendanceInit
StaffNext == (TenantStep /\ UNCHANGED hrVars) \/ AttendanceStep
StaffSpec == StaffInit /\ [][StaffNext]_staffVars

-----------------------------------------------------------------------------
(* Recorded ranges *)

\* Two overrides of an employee, and two active closures of the store, have no
\* day in common, whatever requests record, change and remove them at once.
RangesDoNotOverlap ==
    /\ \A o, p \in Overrides :
          (o # p /\ override[o] # NULL /\ override[p] # NULL
             /\ override[o].employee = override[p].employee)
          => ~RangesOverlap(override[o], override[p])
    /\ \A c, d \in ActiveClosures : c # d => ~RangesOverlap(closure[c], closure[d])

-----------------------------------------------------------------------------
(* The calendar *)

Roster ==
    [i \in DOMAIN assignment |->
        [employee |-> assignment[i].user, from |-> assignment[i].from, to |-> assignment[i].to]]

RowsOf(f) == {f[x] : x \in {y \in DOMAIN f : f[y] # NULL}}

\* The roster of a day has one entry for each employee on duty, the open one if
\* there is one, in whatever order the database returns the rows.
RosterIsOnePerEmployee ==
    \A day \in Days, n \in 0..(Len(Roster) - 1) :
        LET turned  == SubSeq(Roster, n + 1, Len(Roster)) \o SubSeq(Roster, 1, n)
            chosen  == SelectEntriesForDate(turned, day)
            onDuty  == {e \in {Roster[i] : i \in DOMAIN Roster} : OnDuty(e, day)}
        IN  /\ {e.employee : e \in chosen} = {e.employee : e \in onDuty}
            /\ \A e, f \in chosen : e.employee = f.employee => e = f
            /\ \A e \in chosen, f \in onDuty :
                  (f.employee = e.employee /\ f.to = 0) => e.to = 0
            /\ chosen = SelectEntriesForDate(Roster, day)

CalendarOf(overrides) ==
    BuildRange(1, LastDay, Roster, {closure[c] : c \in ActiveClosures}, overrides)

\* Each day shows every employee on duty once, and any override of theirs, on
\* closed days too; no employee's day is counted twice, and the totals of a
\* summary are those of its employees.
CalendarAddsUp ==
    LET days  == CalendarOf(Seqs!SetToSeq(RowsOf(override)))
        total == Calculate(days)
        Sum(Count(_)) == Seqs!FoldLeft(LAMBDA n, x : n + Count(total.employees[x]), 0,
                                       Seqs!SetToSeq(DOMAIN total.employees))
    IN  /\ RosterIsOnePerEmployee
        /\ \A o \in RowsOf(override), d \in Days :
              (InRange(o, d) /\ o.employee \in DOMAIN days[d].status)
              => days[d].status[o.employee] = o.type
        /\ total.presentCount = Sum(LAMBDA e : e.presentCount)
        /\ total.absentCount = Sum(LAMBDA e : e.absentCount)
        /\ total.employeeDays =
              Sum(LAMBDA e : e.presentCount + e.absentCount + e.closedDays)

-----------------------------------------------------------------------------
(* Seats *)

\* Only the provisioning adds a user or a store beyond the limits of the tenant's
\* row; the first user of a tenant brings its store along.
SeatsWithinPlan ==
    [][ systemUser' = systemUser =>
        /\ Cardinality(Existing') > Cardinality(Existing)
              => Cardinality(Existing') <= tenant.maxUsers
        /\ stores' > stores => stores' <= tenant.maxStores \/ Existing = {} ]_staffVars

\* A tenant is provisioned once: the step that makes its system user is the
\* only one that hires its administrator while it is not active.
ProvisionedOnce ==
    [][ systemUser => \A q \in Requests :
          (Doing(q, "provision") /\ request'[q] = NULL) => UNCHANGED tenantVars ]_staffVars

================================================================================
