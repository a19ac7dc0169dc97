----------------------------- MODULE Timeclock -----------------------------
(***************************************************************************)
(* The kiosk's order rule and the hours computed from what it lets through *)
(* (usali/kiosk.py punch, timecards.py punch_state .. compute_day), for    *)
(* one employee who may forget to punch out, and, in the world atOnce, may *)
(* have two punches under way at a time.                                   *)
(*                                                                         *)
(* Time is a clock of ticks; taking a timestamp advances it, so no two     *)
(* punches share one.  A business day is DayLength long and starts at the  *)
(* cutoff hour (attendance.business_date_for).                             *)
(***************************************************************************)
EXTENDS Integers, FiniteSets, FiniteSetsExt, Handlers

CONSTANTS Kiosk,      \* kiosks (requests) the employee may stand at
          DayLength,  \* length of a business day
          OpenMax,    \* _OPEN_SHIFT_MAX_HOURS
          Debounce,   \* _PUNCH_DEBOUNCE_SECONDS
          MaxTime,    \* bound: when the model stops
          MaxTimeAtOnce, \* bound: when it stops if punches overlap
          MaxPunches  \* bound: punches recorded

ASSUME TimeclockConstants ==
    /\ {DayLength, OpenMax, Debounce, MaxTime, MaxTimeAtOnce, MaxPunches} \subseteq Nat
    /\ DayLength > 0 /\ Debounce < OpenMax /\ MaxTimeAtOnce <= MaxTime /\ IsFiniteSet(Kiosk)

VARIABLES now,   \* the clock
          log,   \* committed punches: [type, at]
          req,   \* per kiosk, the punch it is processing
          atOnce \* whether a punch may begin while another is under way

tkVars == <<now, log, req, atOnce>>

PunchType == {"clock_in", "lunch_start", "lunch_end", "clock_out"}

Stopped == now >= (IF atOnce THEN MaxTimeAtOnce ELSE MaxTime)

business_date_for(t) == t \div DayLength

TkInit == now = 0 /\ log = {} /\ req = [k \in Kiosk |-> Idle] /\ atOnce \in BOOLEAN

-----------------------------------------------------------------------------
(* The order rule *)

_STATE_AFTER ==
    [clock_in |-> "in", lunch_start |-> "on_break", lunch_end |-> "in", clock_out |-> "out"]

_ALLOWED_NEXT(state) ==
    IF state = "out" THEN {"clock_in"}
    ELSE IF state = "in" THEN {"lunch_start", "clock_out"} ELSE {"lunch_end"}

Latest(ps) == CHOOSE p \in ps : \A q \in ps : q.at <= p.at

(* punch_state: the last punch decides, unless it opened a shift too long ago. *)
punch_state ==
    IF log = {} THEN "out"
    ELSE IF now - Latest(log).at > OpenMax THEN "out" ELSE _STATE_AFTER[Latest(log).type]

(* punch_states, the roster's copy: the punches of the window, latest wins. *)
punch_states ==
    LET recent == {p \in log : p.at >= now - OpenMax}
    IN  IF recent = {} THEN "out" ELSE _STATE_AFTER[Latest(recent).type]

refuse_punch(type) == type \notin _ALLOWED_NEXT(punch_state)

(* An identical punch inside the window. *)
DoubleTap(type) == \E p \in log : p.type = type /\ p.at >= now - Debounce

-----------------------------------------------------------------------------
(* The punch endpoint: check, stamp, commit *)

check_punch(k, type) ==
    /\ req[k] = Idle
    /\ atOnce \/ \A q \in Kiosk : req[q] = Idle
    /\ Cardinality(log) < MaxPunches
    /\ ~DoubleTap(type)
    /\ ~refuse_punch(type)
    /\ req' = [req EXCEPT ![k] = [pc |-> "checked", type |-> type]]
    /\ UNCHANGED <<now, log, atOnce>>

(* The server's clock, read after the checks. *)
Stamp(k) ==
    /\ req[k].pc = "checked"
    /\ ~Stopped
    /\ req' = [req EXCEPT ![k] = [pc |-> "stamped", type |-> req[k].type, at |-> now]]
    /\ now' = now + 1
    /\ UNCHANGED <<log, atOnce>>

Commit(k) ==
    /\ req[k].pc = "stamped"
    /\ log' = log \cup {[type |-> req[k].type, at |-> req[k].at]}
    /\ req' = [req EXCEPT ![k] = Idle]
    /\ UNCHANGED <<now, atOnce>>

(* A photo too large or not a JPEG, a store or database failure. *)
Fail(k) ==
    /\ req[k] # Idle
    /\ req' = [req EXCEPT ![k] = Idle]
    /\ UNCHANGED <<now, log, atOnce>>

Tick ==
    /\ ~Stopped
    /\ now' = now + 1
    /\ UNCHANGED <<log, req, atOnce>>

TkNext ==
    \/ Tick
    \/ \E k \in Kiosk : Stamp(k) \/ Commit(k) \/ Fail(k) \/ \E type \in PunchType : check_punch(k, type)

TkSpec == TkInit /\ [][TkNext]_tkVars

-----------------------------------------------------------------------------
(* compute_day *)

(* Faulty: an opening event does not end the span it overwrites. *)
Closed_Overlapping(events, opens, closes) ==
    {x \in events \X events :
        /\ x[1].type = opens /\ x[2].type = closes /\ x[1].at < x[2].at
        /\ \A e \in events : e.type = closes => e.at <= x[1].at \/ x[2].at <= e.at}

(* The spans that are paid: an opening event overwrites a span left open, a *)
(* closing event pays the open one and leaves none.                         *)
Closed(events, opens, closes) ==
    {x \in events \X events :
        /\ x[1].type = opens /\ x[2].type = closes /\ x[1].at < x[2].at
        /\ \A e \in events : e.type \in {opens, closes} => e.at <= x[1].at \/ x[2].at <= e.at}

Minutes(spans) ==
    LET length == [x \in spans |-> x[2].at - x[1].at]
    IN  MapThenSumSet(LAMBDA x : length[x], DOMAIN length)

(* Worked time of one business date, and the events it warns about: those   *)
(* without a counterpart.  The meal-break flags it also raises never change *)
(* the hours and are left out.                                              *)
compute_day(events) ==
    LET shifts == Closed(events, "clock_in", "clock_out")
        lunches == Closed(events, "lunch_start", "lunch_end")
        worked == Minutes(shifts) - Minutes(lunches)
    IN  [worked |-> IF worked > 0 THEN worked ELSE 0,
         warned |-> {e \in events : \A x \in shifts \cup lunches : e # x[1] /\ e # x[2]}]

(* timecard_events: the day's punches, grouped by their own business date. *)
timecard_events(day) == {p \in log : business_date_for(p.at) = day}
Days == {business_date_for(p.at) : p \in log}

-----------------------------------------------------------------------------
(* Properties *)

TkTypeOK ==
    /\ now \in 0..MaxTime
    /\ log \subseteq [type : PunchType, at : 0..MaxTime]
    /\ Cardinality(log) <= MaxPunches + Cardinality(Kiosk)
    /\ DOMAIN req = Kiosk /\ atOnce \in BOOLEAN

(* The instants of a day the employee was on the clock: after a clock_in or a *)
(* lunch_end, in a span that the next punch of the day closes.                *)
OnTheClock(day) ==
    LET ps == timecard_events(day)
        before(t) == {p \in ps : p.at <= t}
        after(t) == {p \in ps : p.at > t}
    IN  {t \in (day * DayLength)..((day + 1) * DayLength - 1) :
            /\ before(t) # {} /\ _STATE_AFTER[Latest(before(t)).type] = "in"
            /\ \E q \in after(t) : q.type # "clock_in" /\ \A r \in after(t) : q.at <= r.at}

(* The shifts of the day began on it: none came in across the cutoff. *)
StartsFresh(day) ==
    \E p \in timecard_events(day) :
        p.type = "clock_in" /\ \A q \in timecard_events(day) : p.at <= q.at

(* A day the engine does not warn about is paid to the minute, however the    *)
(* shifts and lunches follow each other (compute_day over what the order rule *)
(* of the kiosk lets through).                                                *)
CleanDayIsExact ==
    \A day \in Days :
        LET r == compute_day(timecard_events(day))
        IN  StartsFresh(day) /\ r.warned = {} => r.worked = Cardinality(OnTheClock(day))

(* "An unclosed span is NEVER silently paid": no day pays more than the time  *)
(* on the clock in closed spans, and a day that leaves a shift open is        *)
(* flagged (compute_day).                                                     *)
NeverOverpaid ==
    \A day \in Days :
        LET ps == timecard_events(day)
            r == compute_day(ps)
        IN  /\ r.worked <= Cardinality(OnTheClock(day))
            /\ StartsFresh(day) /\ _STATE_AFTER[Latest(ps).type] # "out" => r.warned # {}

(* The roster offers exactly the buttons the punch endpoint accepts: the two  *)
(* derivations of where the employee stands agree at every instant, the       *)
(* eighteenth hour included (punch_states, punch_state).                      *)
RosterAgrees == punch_states = punch_state

(* Whatever the employee forgets, the day is paid as it was worked, or warned *)
(* about, where one punch follows the other; the kiosk offers what it accepts *)
(* also where two overlap.                                                    *)
DaysAreTrue == TkTypeOK /\ (~atOnce => CleanDayIsExact /\ NeverOverpaid) /\ RosterAgrees
=============================================================================
