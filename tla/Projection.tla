----------------------------- MODULE Projection -----------------------------
(***************************************************************************)
(* What a manager reads of a scheduled week (usali/schedule_projection.py, *)
(* and week_projection, week_adherence of schedule_api.py): hours and      *)
(* overtime by person, warnings, labor cost by department, and the days    *)
(* somebody did not come.  Shifts are rostered, people punch and days pass *)
(* in any order.                                                           *)
(***************************************************************************)
EXTENDS Overtime, Shifts

CONSTANTS Worker, Unit,    \* people and departments
          Exempt,          \* FLSA exempt
          Unrated,         \* no rate on file, or excluded from payroll
          Latecomer,       \* people placed here after the week began
          Hours,           \* <<start, end>> a shift may have
          MinRest,         \* schedule_min_rest_hours
          Deviation,       \* schedule_adherence_deviation_minutes
          PunchedHours,    \* hours a punched day may have
          MaxFacts         \* bound: shifts and punched days

Nobody == "open"           \* an open shift

ASSUME ProjectionConstants ==
    /\ IsFiniteSet(Worker) /\ IsFiniteSet(Unit) /\ Nobody \notin Worker
    /\ Exempt \cup Unrated \subseteq Worker
    /\ DayTicks \in Nat \ {0} /\ {MealAfter, Meal, MinRest} \subseteq Int
    /\ \A h \in Hours : h[1] \in 0..DayTicks - 1 /\ h[2] \in Int /\ h[1] < h[2]
    /\ PunchedHours \subseteq Nat \ {0}

Week == Anchor..(Anchor + WeekDays - 1)
Around == {Anchor - 1} \cup Week   \* the week and the day before it

VARIABLES rota,      \* shifts of the week and of the one before
          punched,   \* <<person, day>> -> worked hours, above zero
          as_of,     \* today
          law        \* the property's overtime rules
pjVars == <<rota, punched, as_of, law>>

-----------------------------------------------------------------------------
(* schedule_projection.py *)

joined(e) == IF e \in Latecomer THEN Anchor + 1 ELSE Anchor - 1

TotalHours(shifts) == Sum([s \in shifts |-> shift_hours(s)])
Of(shifts, e) == {s \in shifts : s.who = e}

(* Punched days replace scheduled ones. *)
day_hours(shifts, actual, e) ==
    [d \in {s.date : s \in Of(shifts, e)} \cup {d \in Week : <<e, d>> \in DOMAIN actual} |->
        IF <<e, d>> \in DOMAIN actual THEN actual[<<e, d>>]
        ELSE TotalHours({s \in Of(shifts, e) : s.date = d})]

(* Faulty: only the shifts of the week itself are paired. *)
Paired_WeekOnly(shifts, context) == shifts

(* The shifts that take part in rest pairing. *)
Paired(shifts, context) == shifts \cup context

(* A shift that starts too soon after the one before it. *)
Clopens(shifts, context, nxt) ==
    \E prev \in Of(Paired(shifts, context), nxt.who) :
        /\ Begins(prev) < Begins(nxt)
        /\ \A s \in Of(Paired(shifts, context), nxt.who) :
              Begins(s) <= Begins(prev) \/ Begins(nxt) <= Begins(s)
        /\ Begins(nxt) - Ends(prev) \in 0..(MinRest - 1)
        /\ _spans_a_night(prev, nxt)

day_rows(shifts, actual) ==
    [e \in Worker |-> compute_overtime(day_hours(shifts, actual, e), e \in Exempt, law)]

project_week(shifts, context, actual) ==
    LET rows == day_rows(shifts, actual)
    IN  [hours |-> [u \in Unit |-> TotalHours({s \in shifts : s.unit = u})],
         rows |-> rows,
         overtime |-> {x \in Worker \X Week : x[2] \in DOMAIN rows[x[1]]
                          /\ rows[x[1]][x[2]].ot + rows[x[1]][x[2]].dt > 0},
         seventh_day |-> {e \in Worker : {s.date : s \in Of(shifts, e)} = Week},
         clopening |-> {s \in shifts : s.who # Nobody /\ Clopens(shifts, context, s)}]

-----------------------------------------------------------------------------
(* GET /projection *)

ThisWeek == {s \in rota : s.date \in Week}
Context == rota \ ThisWeek
Assigned == {s.who : s \in ThisWeek} \ {Nobody}
NoHours == [x \in {} |-> 0]

(* Worked days of the current week before today. *)
Merged ==
    LET days == {x \in DOMAIN punched : x[1] \in Assigned /\ x[2] \in Week /\ x[2] < as_of}
    IN  IF Anchor < as_of /\ as_of <= Anchor + WeekDays - 1
        THEN [x \in days |-> punched[x]] ELSE NoHours

(* The hours cost is computed from: the schedule's alone. *)
PricedHours == NoHours

CostOf(row) == 2 * row.reg + 3 * row.ot + 4 * row.dt

UnpricedOf(rows) == {x \in Worker \X Week : x[1] \in Unrated \cup Exempt /\ x[2] \in DOMAIN rows[x[1]]}

(* A department's cost: the shares of the days of at least two priced      *)
(* people, or nothing.                                                     *)
est_cost(costed) ==
    LET priced == {x \in Worker \X Week : x[2] \in DOMAIN costed[x[1]]} \ UnpricedOf(costed)
        day(x) == {s \in Of(ThisWeek, x[1]) : s.date = x[2]}
        shares(u) == {[day |-> x, cost |-> CostOf(costed[x[1]][x[2]]),
                       part |-> TotalHours({s \in day(x) : s.unit = u}), whole |-> TotalHours(day(x))] :
                          x \in {y \in priced : \E s \in day(y) : s.unit = u}}
    IN  [u \in Unit |-> IF Cardinality({s.day[1] : s \in shares(u)}) < 2 THEN {} ELSE shares(u)]

(* The hours of a classified day. *)
RowHours(row) == row.reg + row.ot + row.dt

unpriced_hours(costed) == Sum([x \in UnpricedOf(costed) |-> RowHours(costed[x[1]][x[2]])])

week_projection == project_week(ThisWeek, Context, Merged)
projected_cost == LET costed == day_rows(ThisWeek, PricedHours) IN est_cost(costed)

-----------------------------------------------------------------------------
(* GET /adherence *)

Elapsed == {d \in Week : d < as_of}

Scheduled(e, d) == {s \in Of(ThisWeek, e) : s.date = d}

(* The cards of who served the property when the week began. *)
PunchesSeen(e, d) == IF joined(e) <= Anchor /\ <<e, d>> \in DOMAIN punched THEN punched[<<e, d>>] ELSE 0

week_adherence(e, d) ==
    LET plan == TotalHours(Scheduled(e, d))
        seen == PunchesSeen(e, d)
    IN  IF d \notin Elapsed THEN "none"
        ELSE IF Scheduled(e, d) # {} /\ seen = 0 THEN "no_show"
        ELSE IF Scheduled(e, d) = {} /\ seen > 0 THEN "unscheduled_punch"
        ELSE IF Scheduled(e, d) # {} /\ Most(seen - plan, plan - seen) >= Deviation THEN "deviation"
        ELSE "none"

-----------------------------------------------------------------------------
PjInit ==
    /\ rota = {}
    /\ punched = NoHours
    /\ as_of = Anchor
    /\ law \in Rulesets

Facts == Cardinality(rota) + Cardinality(DOMAIN punched)

(* _validate_shift's overlap check, and the placement it asks for. *)
Roster(d, u, h, who) ==
    LET s == [date |-> d, unit |-> u, start |-> h[1], end |-> h[2], who |-> who]
    IN  /\ Facts < MaxFacts
        /\ who # Nobody =>
              joined(who) <= d /\ \A o \in Of(rota, who) : ~shifts_overlap(s, o)
        /\ rota' = rota \cup {s}
        /\ UNCHANGED <<punched, as_of, law>>

Work(e, d, h) ==
    /\ Facts < MaxFacts
    /\ joined(e) <= d /\ d <= as_of
    /\ <<e, d>> \notin DOMAIN punched
    /\ punched' = [x \in DOMAIN punched \cup {<<e, d>>} |-> IF x = <<e, d>> THEN h ELSE punched[x]]
    /\ UNCHANGED <<rota, as_of, law>>

Tomorrow ==
    /\ as_of \in Week
    /\ as_of' = as_of + 1
    /\ UNCHANGED <<rota, punched, law>>

PjNext ==
    \/ \E d \in Around, u \in Unit, h \in Hours, who \in Worker \cup {Nobody} : Roster(d, u, h, who)
    \/ \E e \in Worker, d \in Week, h \in PunchedHours : Work(e, d, h)
    \/ Tomorrow

PjSpec == PjInit /\ [][PjNext]_pjVars

-----------------------------------------------------------------------------
(* Properties *)

(* Every short night is warned about: of two shifts of a person in the week *)
(* with too little rest between them over a night, also when one lies in    *)
(* the week before, some shift after the first and up to the second carries *)
(* the clopening warning, whatever lies between.                            *)
ShortNightIsWarned ==
    LET warned == week_projection.clopening
    IN  \A nxt \in ThisWeek : \A prev \in Of(rota, nxt.who) :
            nxt.who # Nobody /\ _spans_a_night(prev, nxt)
            /\ Begins(nxt) - Ends(prev) \in 0..(MinRest - 1) =>
                \E s \in Of(rota, nxt.who) :
                    /\ Begins(prev) < Begins(s) /\ Begins(s) <= Begins(nxt)
                    /\ s \in warned \/ s \notin ThisWeek

(* Every hour given to somebody is accounted for: the departments' hours    *)
(* are those of the people and of the open shifts, and an hour that carries *)
(* no cost is in unpriced_hours.                                            *)
ScheduledHoursTie ==
    LET plain == day_rows(ThisWeek, PricedHours)
        hours(e) == Sum([d \in DOMAIN plain[e] |-> RowHours(plain[e][d])])
    IN  /\ Sum(week_projection.hours)
              = Sum([e \in Worker |-> hours(e)]) + TotalHours(Of(ThisWeek, Nobody))
        /\ unpriced_hours(plain) = Sum([e \in Unrated \cup Exempt |-> hours(e)])

(* The two reports of a running week agree: the projection counts the       *)
(* scheduled hours of a day already over exactly where adherence reports a  *)
(* no_show, for everybody placed here since the week began.                 *)
ReportsAgree ==
    Anchor < as_of /\ as_of \in Week =>
        \A e \in Worker, d \in Week :
            joined(e) <= Anchor /\ Scheduled(e, d) # {} =>
                (week_adherence(e, d) = "no_show" <=> d < as_of /\ <<e, d>> \notin DOMAIN Merged)

(* What a manager reads of a running week is complete and free of             *)
(* contradiction.                                                             *)
WeekReportsHold == ShortNightIsWarned /\ ScheduledHoursTie /\ ReportsAgree
=============================================================================
