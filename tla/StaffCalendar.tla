----------------------------- MODULE StaffCalendar -----------------------------
(***************************************************************************)
(* The attendance calendar of a store, computed from its assignments, its  *)
(* closures and the overrides of its employees, and the summary of it.     *)
(* Days are numbers; an entry is a row of the roster: employee, from, to   *)
(* (0: open).                                                              *)
(***************************************************************************)
EXTENDS Integers, Sequences, FiniteSets

Seqs == INSTANCE SequencesExt
Sets == INSTANCE FiniteSetsExt

-----------------------------------------------------------------------------
(* date-range.util *)

RangesOverlap(a, b) == a.from <= b.to /\ b.from <= a.to
InRange(r, day)     == r.from <= day /\ day <= r.to

-----------------------------------------------------------------------------
(* roster.service *)

OnDuty(e, day) == e.from <= day /\ (e.to = 0 \/ e.to >= day)

\* The open entry, then the later start, then the later end.
IsPreferredEntry(candidate, current) ==
    IF (candidate.to = 0) # (current.to = 0) THEN candidate.to = 0
    ELSE \/ candidate.from > current.from
         \/ candidate.from = current.from /\ candidate.to > current.to

Considered(selected, e, day) ==
    LET other == {c \in selected : c.employee = e.employee} IN
    IF ~OnDuty(e, day) \/ \E c \in other : ~IsPreferredEntry(e, c)
    THEN selected ELSE (selected \ other) \cup {e}

SelectEntriesForDate(entries, day) ==
    Seqs!FoldLeft(LAMBDA selected, e : Considered(selected, e, day), {}, entries)

-----------------------------------------------------------------------------
(* calendar-builder.service *)

\* The type of the first override that covers the day, or "none".
OverrideOn(overrides, employee, day) ==
    LET Covers(o) == o.employee = employee /\ InRange(o, day)
        found == Seqs!SelectInSeq(overrides, Covers)
    IN  IF found = 0 THEN "none" ELSE overrides[found].type

\* A variant: a closed day hides the overrides.
StatusOf_ClosedFirst(override, closed) ==
    IF closed THEN "CLOSED" ELSE IF override = "none" THEN "PRESENT" ELSE override

StatusOf(override, closed) ==
    IF override # "none" THEN override ELSE IF closed THEN "CLOSED" ELSE "PRESENT"

Attended(status) == status \in {"PRESENT", "PRESENT_ON_CLOSED_DAY"}

CalendarDay(day, entries, closures, overrides) ==
    LET closed == \E c \in closures : InRange(c, day)
        staff  == {e.employee : e \in SelectEntriesForDate(entries, day)}
        status == [x \in staff |-> StatusOf(OverrideOn(overrides, x, day), closed)]
        present == {x \in staff : Attended(status[x])}
    IN  [closed        |-> closed,
         status        |-> status,
         employeeCount |-> Cardinality(staff),
         presentCount  |-> Cardinality(present),
         absentCount   |-> IF closed THEN 0 ELSE Cardinality(staff \ present)]

BuildRange(first, last, entries, closures, overrides) ==
    [day \in first..last |-> CalendarDay(day, entries, closures, overrides)]

-----------------------------------------------------------------------------
(* monthly-summary-calculator.service *)

Times(days, Holds(_)) == Cardinality({d \in DOMAIN days : Holds(days[d])})

EmployeeSummary(days, x) ==
    LET Listed(d)  == x \in DOMAIN d.status
        Present(d) == Listed(d) /\ Attended(d.status[x])
        Absent(d)  == Listed(d) /\ ~Attended(d.status[x]) /\ ~d.closed
        Off(d)     == Listed(d) /\ ~Attended(d.status[x]) /\ d.closed
    IN  [presentCount |-> Times(days, Present), absentCount |-> Times(days, Absent),
         closedDays |-> Times(days, Off)]

Calculate(days) ==
    LET Total(Count(_)) == Sets!MapThenSumSet(LAMBDA d : Count(days[d]), DOMAIN days)
        IsClosed(d) == d.closed
        staff == UNION {DOMAIN days[d].status : d \in DOMAIN days}
    IN  [presentCount |-> Total(LAMBDA d : d.presentCount),
         absentCount  |-> Total(LAMBDA d : d.absentCount),
         employeeDays |-> Total(LAMBDA d : d.employeeCount),
         closedDays   |-> Times(days, IsClosed),
         employees    |-> [x \in staff |-> EmployeeSummary(days, x)]]
================================================================================
