------------------------------- MODULE Shifts -------------------------------
(***************************************************************************)
(* Shifts as intervals (usali/schedule_projection.py).  Times are ticks    *)
(* from midnight of the business date: an end past DayTicks is what the    *)
(* code writes as crosses_midnight.                                        *)
(***************************************************************************)
EXTENDS Integers

CONSTANTS DayTicks,        \* 24 hours
          MealAfter,       \* schedule_meal_threshold_hours
          Meal             \* schedule_meal_deduction_minutes

(* _span *)
Begins(s) == s.date * DayTicks + s.start
Ends(s) == s.date * DayTicks + s.end

(* A long shift has its unpaid meal taken off. *)
shift_hours(s) == LET m == s.end - s.start IN IF m > MealAfter THEN m - Meal ELSE m

shifts_overlap(a, b) == Begins(a) < Ends(b) /\ Begins(b) < Ends(a)

_spans_a_night(prev, nxt) ==
    prev.date # nxt.date \/ Ends(prev) \div DayTicks # Begins(nxt) \div DayTicks
=============================================================================
