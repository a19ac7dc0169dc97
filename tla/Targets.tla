------------------------------ MODULE Targets ------------------------------
(***************************************************************************)
(* Labor targets and occupancy forecasts (usali/schedule_api.py): one      *)
(* standard of a department, a forecast entered day by day, and the hints  *)
(* shown beside it, read from the rooms-occupied facts that night audits   *)
(* file and may file again for the same day.                               *)
(***************************************************************************)
EXTENDS Integers, FiniteSets, FiniteSetsExt, Sequences, SequencesExt

CONSTANTS NextWeek,    \* days of the week planned
          PastDays,    \* days before it that facts exist for
          Trailing,    \* days a trailing average looks at, 7 in the code
          RoomCount,   \* occupied rooms a day may have
          PerRoom,     \* values a standard may have
          MaxFact      \* bound: facts filed

NoTarget == -1         \* null: absence is not zero

ASSUME TargetsConstants == IsFiniteSet(NextWeek) /\ RoomCount \subseteq Nat /\ PerRoom \subseteq Nat

VARIABLES standard,    \* labor_standard of the department: basis and value
          forecast,    \* occupancy_forecast rows of the week
          facts        \* ROOMS_OCCUPIED facts in the order of their ids

tgVars == <<standard, forecast, facts>>

NoStandard == [basis |-> "none", value |-> 0]

TgInit ==
    /\ standard = NoStandard
    /\ forecast = [d \in NextWeek |-> NoTarget]
    /\ facts = <<>>

upsert_standard(basis, value) ==
    /\ standard' = [basis |-> basis, value |-> value]
    /\ UNCHANGED <<forecast, facts>>

delete_standard ==
    /\ standard # NoStandard
    /\ standard' = NoStandard
    /\ UNCHANGED <<forecast, facts>>

upsert_forecast(d, rooms) ==
    /\ forecast' = [forecast EXCEPT ![d] = rooms]
    /\ UNCHANGED <<standard, facts>>

(* A night audit files a day, perhaps again. *)
File(d, rooms) ==
    /\ Len(facts) < MaxFact
    /\ facts' = Append(facts, [day |-> d, rooms |-> rooms])
    /\ UNCHANGED <<standard, forecast>>

TgNext ==
    \/ \E v \in PerRoom : upsert_standard("fixed_hours_per_day", v) \/ upsert_standard("minutes_per_occupied_room", v)
    \/ delete_standard
    \/ \E d \in NextWeek, r \in RoomCount : upsert_forecast(d, r)
    \/ \E d \in PastDays, r \in RoomCount : File(d, r)

TgSpec == TgInit /\ [][TgNext]_tgVars

-----------------------------------------------------------------------------
(* GET /targets *)

target(d) ==
    IF standard.basis = "none" THEN NoTarget
    ELSE IF standard.basis = "fixed_hours_per_day" THEN standard.value
    ELSE IF forecast[d] = NoTarget THEN NoTarget ELSE standard.value * forecast[d]

Known == {d \in NextWeek : target(d) # NoTarget}

week_targets ==
    [total |-> IF Known = {} THEN NoTarget ELSE MapThenSumSet(target, Known),
     days_without_forecast |->
        IF standard.basis = "minutes_per_occupied_room"
        THEN Cardinality({d \in NextWeek : forecast[d] = NoTarget}) ELSE 0]

-----------------------------------------------------------------------------
(* GET /forecast *)

(* The last fact of a day, or null. *)
_rooms_occupied(d) ==
    LET of == {i \in 1..Len(facts) : facts[i].day = d}
    IN  IF of = {} THEN NoTarget ELSE facts[Max(of)].rooms

(* Faulty: the last facts, not the last days. *)
latest_per_day_Facts ==
    LET n == Len(facts)
    IN  {i \in 1..n : i > n - Trailing}

(* The latest fact of each of the last Trailing days that have one. *)
latest_per_day ==
    LET filed == {facts[i].day : i \in 1..Len(facts)}
        last == {d \in filed : Cardinality({x \in filed : x > d}) < Trailing}
    IN  {Max({i \in 1..Len(facts) : facts[i].day = d}) : d \in last}

(* The mean of the values of f, half up. *)
Mean(f) ==
    LET n == Cardinality(DOMAIN f)
    IN  (2 * MapThenSumSet(LAMBDA k : f[k], DOMAIN f) + n) \div (2 * n)

hint_trailing_avg ==
    IF facts = <<>> THEN NoTarget
    ELSE Mean([i \in latest_per_day |-> facts[i].rooms])

-----------------------------------------------------------------------------
(* Properties *)

(* Every day of the week is accounted for, and the hints speak of days, not *)
(* of filings: a day filed again counts once and with its last value, both  *)
(* as the same day last week and in the trailing average.                   *)
HintsCountDays ==
    LET days == {facts[i].day : i \in 1..Len(facts)}
        recent == {d \in days : Cardinality({x \in days : x > d}) < Trailing}
    IN  /\ standard.basis # "none" =>
              Cardinality(Known) + week_targets.days_without_forecast = Cardinality(NextWeek)
        /\ days # {} => hint_trailing_avg = Mean([d \in recent |-> _rooms_occupied(d)])
=============================================================================
