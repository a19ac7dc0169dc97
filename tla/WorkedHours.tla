---------------------------- MODULE WorkedHours ----------------------------
(***************************************************************************)
(* The pay of a person's hours: days and hours of a short pay period are   *)
(* booked one by one, in every order, and classified anew after each, as a *)
(* timecard is computed anew (usali/timecards.py calls usali/overtime.py). *)
(***************************************************************************)
EXTENDS Overtime

CONSTANTS Period,     \* the days hours may fall on
          MaxHours    \* bound: hours of a day

(* No day and no week reaches the threshold a jurisdiction does not have,  *)
(* and the seventh day pays double no later than any other (_RULES).       *)
ASSUME WorkedHoursConstants ==
    /\ Period \subseteq Int /\ MaxHours \in Nat \ {0} /\ MaxHours * WeekDays < Never
    /\ \A r \in Rulesets : r.seventh # Never => r.seventh <= r.dt

VARIABLES rule,    \* the jurisdiction
          worked   \* hours of the days worked
otVars == <<rule, worked>>

OtInit == rule \in Rulesets /\ worked = [d \in {} |-> 0]

(* One more hour is booked on a day. *)
BookHour(d) ==
    /\ \A x \in DOMAIN worked : x = d => worked[x] < MaxHours
    /\ worked' = [x \in DOMAIN worked \cup {d} |->
                     IF x \notin DOMAIN worked THEN 1 ELSE IF x = d THEN worked[x] + 1 ELSE worked[x]]
    /\ UNCHANGED rule

OtNext == \E d \in Period : BookHour(d)
OtSpec == OtInit /\ [][OtNext]_otVars

(* Twice the pay in hours: multipliers 1, 1.5 and 2. *)
Pay(hours) ==
    LET rows == compute_overtime(hours, FALSE, rule)
    IN  Sum([d \in DOMAIN hours |-> 2 * rows[d].reg + 3 * rows[d].ot + 4 * rows[d].dt])

(* No hour is lost or counted twice, and none is overtime for two reasons:  *)
(* the straight time of a workweek is what the daily rules leave of it, cut *)
(* at the weekly threshold (compute_overtime's docstring: no pyramiding).   *)
NoPyramiding ==
    LET rows == compute_overtime(worked, FALSE, rule)
        week(w) == {d \in DOMAIN worked : _workweek_start(d) = w}
        straight(d) == IF rule.seventh # Never /\ Cardinality(week(_workweek_start(d))) = WeekDays
                          /\ \A x \in week(_workweek_start(d)) : x <= d
                       THEN 0 ELSE Least(rule.ot, worked[d])
    IN  /\ \A d \in DOMAIN worked : rows[d].reg + rows[d].ot + rows[d].dt = worked[d]
        /\ \A w \in {_workweek_start(d) : d \in DOMAIN worked} :
              Sum([d \in week(w) |-> rows[d].reg])
                  = Least(rule.weekly, Sum([d \in week(w) |-> straight(d)]))

(* Working more never pays less: an hour added anywhere in the period,      *)
(* which may reorder what is overtime on the days after it, make a seventh  *)
(* day or end one, does not lower the pay of the period.                    *)
MoreHoursNeverPayLess == [][Pay(worked') >= Pay(worked)]_otVars
=============================================================================
