------------------------------- MODULE Fiscal -------------------------------
(***************************************************************************)
(* The fiscal calendar (usali/fiscal.py): twelve periods of a fiscal year, *)
(* calendar months or 4-4-5 weeks from an anchor weekday.  Dates are day   *)
(* numbers, day 0 a Monday (the first of January of year 0); one day after *)
(* the other goes by.                                                      *)
(***************************************************************************)
EXTENDS Integers, Sequences, FiniteSets

CONSTANTS LeapYear,     \* years with a 29th of February
          StartMonth,   \* fiscal_year_start_month values
          Weekday,      \* week_start_weekday values
          LastDate      \* bound: days

ASSUME FiscalConstants ==
    /\ LeapYear \subseteq Nat /\ LastDate \in Nat
    /\ StartMonth \subseteq 1..12 /\ Weekday \subseteq 0..6

VARIABLES asked, calendar
fcVars == <<asked, calendar>>

Calendars ==
    [kind : {"calendar_month"}, month : StartMonth, weekday : {0}]
        \cup [kind : {"445"}, month : StartMonth, weekday : Weekday]

FcInit == asked = 0 /\ calendar \in Calendars

Dawn ==
    /\ asked < LastDate
    /\ asked' = asked + 1
    /\ UNCHANGED calendar

FcNext == Dawn
FcSpec == FcInit /\ [][FcNext]_fcVars

-----------------------------------------------------------------------------
(* Dates: the proleptic calendar of Python's date *)

MonthStart == <<0, 31, 59, 90, 120, 151, 181, 212, 243, 273, 304, 334>>

(* date(y, m, 1), of a month counted on from any year. *)
FirstOf(y, m) ==
    LET year == y + (m - 1) \div 12
        month == 1 + ((m - 1) % 12)
        leaps == {x \in LeapYear : x < year \/ (x = year /\ month > 2)}
    IN  365 * year + MonthStart[month] + Cardinality(leaps)

weekday(d) == d % 7
YearOf(d) == CHOOSE y \in (d \div 366 - 1)..(d \div 365 + 1) : FirstOf(y, 1) <= d /\ d < FirstOf(y + 1, 1)
MonthOf(d) == CHOOSE m \in 1..12 : FirstOf(YearOf(d), m) <= d /\ d < FirstOf(YearOf(d), m + 1)

-----------------------------------------------------------------------------
(* fiscal.py *)

_month_period(cfg, y, p) ==
    <<FirstOf(y, cfg.month + p - 1), FirstOf(y, cfg.month + p) - 1>>

(* The first such weekday on or after the first of the start month. *)
_fy_anchor(cfg, y) ==
    LET first == FirstOf(y, cfg.month) IN first + ((cfg.weekday - weekday(first)) % 7)

(* Weeks of a 4-4-5 year before a period. *)
WeeksBefore(p) == 13 * ((p - 1) \div 3) + 4 * ((p - 1) % 3)

(* Faulty: the 53rd week belongs to no period. *)
bounds_445_of_52(cfg, y, p) ==
    <<_fy_anchor(cfg, y) + 7 * WeeksBefore(p), _fy_anchor(cfg, y) + 7 * WeeksBefore(p + 1) - 1>>

(* The last period reaches up to the next anchor. *)
bounds_445(cfg, y, p) ==
    <<_fy_anchor(cfg, y) + 7 * WeeksBefore(p),
      IF p = 12 THEN _fy_anchor(cfg, y + 1) - 1 ELSE _fy_anchor(cfg, y) + 7 * WeeksBefore(p + 1) - 1>>

resolve_period(cfg, key) ==
    IF cfg.kind = "calendar_month" THEN _month_period(cfg, key[1], key[2])
    ELSE bounds_445(cfg, key[1], key[2])

periods_in_year(cfg, y) == [p \in 1..12 |-> resolve_period(cfg, <<y, p>>)]

(* Months by the start month; weeks by the last anchor not after the day. *)
FiscalYearOf(cfg, d) ==
    LET y == YearOf(d)
    IN  IF cfg.kind = "calendar_month" THEN (IF MonthOf(d) >= cfg.month THEN y ELSE y - 1)
        ELSE IF _fy_anchor(cfg, y + 1) <= d THEN y + 1
        ELSE IF _fy_anchor(cfg, y) <= d THEN y ELSE y - 1

(* The keys whose range holds the day: the code returns the first. *)
period_containing(cfg, d) ==
    LET y == FiscalYearOf(cfg, d)
        periods == periods_in_year(cfg, y)
    IN  {<<y, p>> : p \in {q \in 1..12 : periods[q][1] <= d /\ d <= periods[q][2]}}

-----------------------------------------------------------------------------
(* Every day lies in exactly one period, and the day after it in the same   *)
(* one or on the first day of the next: months and weeks tile the years     *)
(* without a gap or an overlap, over leap years and 53-week years           *)
(* (resolve_period's single source of the bounds, the last period's end).   *)
PeriodsTile ==
    LET here == period_containing(calendar, asked)
        next == period_containing(calendar, asked + 1)
    IN  \E k \in here : \E n \in next :
            /\ here = {k} /\ next = {n}
            /\ \/ n = k /\ asked < resolve_period(calendar, k)[2]
               \/ /\ n = (IF k[2] = 12 THEN <<k[1] + 1, 1>> ELSE <<k[1], k[2] + 1>>)
                  /\ asked = resolve_period(calendar, k)[2]
                  /\ asked + 1 = resolve_period(calendar, n)[1]
=============================================================================
