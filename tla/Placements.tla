----------------------------- MODULE Placements -----------------------------
(***************************************************************************)
(* Effective dating (usali/assignments.py, rates.py, attribution.py):      *)
(* which placements of a person are in force on a day, which property      *)
(* issues the paycheck of a period, what an hour of a placement costs and  *)
(* where the minutes of a day are charged.  Rows are records over days,    *)
(* dated [from, to), Open for no end.  A resolver is modelled by the set   *)
(* of its candidates: none, the answer, or several, when the code raises.  *)
(***************************************************************************)
EXTENDS Integers, FiniteSets, FiniteSetsExt

Open == 99          \* effective_to IS NULL
Raises(candidates) == Cardinality(candidates) > 1
The(candidates) == CHOOSE x \in candidates : TRUE

covers(row, on) == row.from <= on /\ on < row.to

(* Once an end date exists dating alone governs; an open row needs status. *)
in_effect_on(row, on) == covers(row, on) /\ (row.to # Open \/ row.active)

(* Faulty: only a placement that began inside the period. *)
overlaps_period_Begins(row, start, end) == row.from \in start..end

overlaps_period(row, start, end) ==
    row.from <= end /\ start < row.to /\ (row.to # Open \/ row.active)

assignments_on(rows, on) == {a \in rows : in_effect_on(a, on)}

assignment_at(rows, p, on) == {a \in assignments_on(rows, on) : a.property = p}

primary_assignment_on(rows, on) == {a \in assignments_on(rows, on) : a.primary}

(* The walk back from the period's end to the first day somebody owns. *)
_owner_on_last_covered_day(rows, start, end) ==
    LET owners(on) == {a.property : a \in primary_assignment_on(rows, on)}
        owned == {on \in start..end : owners(on) # {}}
    IN  IF owned = {} THEN {} ELSE owners(Max(owned))

(* employee_ids_paid_by_during, for one employee; the walk may raise. *)
paid_by_during(rows, p, start, end) ==
    /\ \E a \in rows : a.primary /\ a.property = p /\ overlaps_period(a, start, end)
    /\ _owner_on_last_covered_day(rows, start, end) = {p}

(* is_exempt_on: every position held that day is exempt; none is not. *)
is_exempt_on(rows, on) ==
    LET held == assignments_on(rows, on) IN held # {} /\ \A a \in held : a.exempt

(* resolve_exemption: one status for all the days worked, or a refusal. *)
resolve_exemption(rows, days) == {is_exempt_on(rows, on) : on \in days}

(* _stored_rate: the rates of a placement in force. *)
_stored_rate(rates, id, on) == {r \in rates : r.id = id /\ covers(r, on)}
=============================================================================
