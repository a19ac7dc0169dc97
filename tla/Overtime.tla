------------------------------ MODULE Overtime ------------------------------
(***************************************************************************)
(* Overtime classification (usali/overtime.py, overtime_rules.py): a       *)
(* person's hours, day by day, become straight time, overtime and double   *)
(* time under the rules of a jurisdiction.                                 *)
(***************************************************************************)
EXTENDS Integers, FiniteSets, FiniteSetsExt

CONSTANTS WeekDays,   \* days of a workweek, 7 in the code
          Anchor,     \* a day a workweek starts on
          Rulesets    \* the jurisdictions' rules

Never == 999          \* a threshold the jurisdiction does not have

(* OvertimeRules.__post_init__: the shapes the engine models. *)
Modelled(r) ==
    /\ r.dt # Never => r.ot # Never
    /\ r.ot # Never /\ r.dt # Never => r.ot < r.dt
    /\ (r.dt # Never \/ r.seventh # Never) => r.pays_double

ASSUME OvertimeAssumption ==
    /\ WeekDays \in Nat \ {0} /\ Anchor \in Int
    /\ \A r \in Rulesets :
          /\ {r.weekly, r.ot, r.dt, r.seventh} \subseteq 0..Never
          /\ Modelled(r)

_workweek_start(d) == Anchor + ((d - Anchor) \div WeekDays) * WeekDays

Least(a, b) == IF a < b THEN a ELSE b
Most(a, b) == IF a > b THEN a ELSE b

(* One day by itself: the daily thresholds, or the seventh day's. *)
Classified(h, seventh, r) ==
    IF seventh
    THEN [reg |-> 0, ot |-> Least(r.seventh, h), dt |-> Most(h - r.seventh, 0)]
    ELSE [reg |-> Least(r.ot, h),
          ot |-> Least(Most(h - r.ot, 0), r.dt - r.ot),
          dt |-> Most(h - r.dt, 0)]

Sum(f) == MapThenSumSet(LAMBDA k : f[k], DOMAIN f)

(* Faulty: every hour before counts towards the week, overtime too. *)
StraightBefore_AllHours(hours, days, seventh, r) == Sum([x \in days |-> hours[x]])

(* The straight time of the earlier days of the week. *)
StraightBefore(hours, days, seventh, r) ==
    Sum([x \in days \ seventh |-> Classified(hours[x], FALSE, r).reg])

(* Faulty: weekly overtime stands in for the day's own. *)
Converted_Replaces(day, keep) ==
    [reg |-> keep, ot |-> IF keep < day.reg THEN day.reg - keep ELSE day.ot, dt |-> day.dt]

(* Straight time the week has no room for becomes overtime. *)
Converted(day, keep) == [reg |-> keep, ot |-> day.ot + day.reg - keep, dt |-> day.dt]

compute_overtime(hours, exempt, r) ==
    [d \in DOMAIN hours |->
        IF exempt THEN [reg |-> hours[d], ot |-> 0, dt |-> 0]
        ELSE LET week == {x \in DOMAIN hours : _workweek_start(x) = _workweek_start(d)}
                 seventh == IF r.seventh # Never /\ Cardinality(week) = WeekDays THEN {Max(week)} ELSE {}
                 day == Classified(hours[d], d \in seventh, r)
                 before == StraightBefore(hours, {x \in week : x < d}, seventh, r)
             IN  Converted(day, Least(day.reg, Most(0, r.weekly - before)))]
=============================================================================
