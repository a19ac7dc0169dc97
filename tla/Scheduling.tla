----------------------------- MODULE Scheduling -----------------------------
(***************************************************************************)
(* The schedule of a property (usali/schedule_api.py): weeks are created,  *)
(* shifts added, moved and deleted, weeks published and published again.   *)
(* A request reads and validates, then writes in its own transaction;      *)
(* only publishing takes a row lock.  Access checks write nothing and are  *)
(* left out, as is the property: the overlap check sees one property only. *)
(***************************************************************************)
EXTENDS Shifts, FiniteSets, FiniteSetsExt, Handlers

CONSTANTS Planner,     \* requests in flight at once
          Monday,      \* week starts on the payroll grid
          WeekLen,     \* days of a week
          Crew,        \* employees
          Slot,        \* <<start, end>> of a shift
          MaxShift,    \* bound: shifts ever added
          MaxPlan      \* bound: requests

(* Weeks lie on the payroll grid; a shift starts on its business date and   *)
(* ends within a day of its start.                                         *)
ASSUME ScheduleConstants ==
    /\ DayTicks \in Nat \ {0} /\ WeekLen \in Nat \ {0} /\ Monday \subseteq Int
    /\ \A m, n \in Monday : m < n => n = m + WeekLen \/ m + 2 * WeekLen <= n
    /\ \A slot \in Slot : slot[1] \in 0..(DayTicks - 1) /\ slot[2] \in (slot[1] + 1)..(slot[1] + DayTicks)

NoneYet == [made |-> FALSE, version |-> 0]
OpenShift == "open"
NoTemplate == "adhoc"

VARIABLES week,      \* schedule rows: exists, version (0 is a draft)
          audits,    \* publish_schedule audit rows of each week
          shift,     \* shift rows
          template,  \* the template row exists
          ended,     \* termination dates
          counter,   \* requests in flight
          plans,     \* history: requests so far
          added,     \* shift ids given out
          raced      \* history: two shift edits were in flight at once

scVars == <<week, audits, shift, template, ended, counter, plans, added, raced>>
rest == <<week, audits, template, ended>>

Days(m) == m..(m + WeekLen - 1)
AllDays == UNION {Days(m) : m \in Monday}
Still == 99          \* employed, no termination date

ScInit ==
    /\ week = [m \in Monday |-> NoneYet]
    /\ audits = [m \in Monday |-> 0]
    /\ shift = {}
    /\ template = FALSE
    /\ ended = [e \in Crew |-> Still]
    /\ counter = [p \in Planner |-> Idle]
    /\ plans = 0
    /\ added = 0
    /\ raced = FALSE

Body(d, slot, who, tpl) == [date |-> d, start |-> slot[1], end |-> slot[2], who |-> who, tpl |-> tpl]
Row(id, m, b) == [id |-> id, week |-> m, date |-> b.date, start |-> b.start, end |-> b.end,
                  who |-> b.who, tpl |-> b.tpl]
Editing == {"add", "update"}

Starts(p, h) ==
    /\ counter[p] = Idle
    /\ plans < MaxPlan
    /\ plans' = plans + 1
    /\ counter' = Goes(counter, p, h)
    /\ raced' = (raced \/ (h.pc \in Editing /\ \E x \in Planner : counter[x].pc \in Editing))

Stops(p) == counter' = Goes(counter, p, Idle) /\ UNCHANGED <<plans, raced>>

-----------------------------------------------------------------------------
(* POST /weeks: one row of a week, the second insert is a unique violation *)

create_week(p, m) ==
    /\ ~week[m].made
    /\ Starts(p, [pc |-> "create", week |-> m])
    /\ UNCHANGED <<rest, shift, added>>

CreateCommit(p) ==
    /\ At(counter, p, "create")
    /\ week' = [week EXCEPT ![counter[p].week].made = TRUE]
    /\ Stops(p)
    /\ UNCHANGED <<audits, template, ended, shift, added>>

-----------------------------------------------------------------------------
(* Shifts *)

(* Faulty: only the week itself is searched. *)
Searched_OwnWeek(m) == {m}

(* The weeks around, whose night shifts may reach into this one. *)
Searched(m) == {m - WeekLen, m, m + WeekLen}

_validate_shift(m, b, exclude) ==
    /\ week[m].made
    /\ b.date \in Days(m)
    /\ b.tpl # NoTemplate => template
    /\ b.who # OpenShift =>
          /\ b.date < ended[b.who]
          /\ \A s \in shift :
                s.week \in Searched(m) /\ s.who = b.who /\ s.id # exclude => ~shifts_overlap(b, s)

add_shift(p, m, b) ==
    /\ added < MaxShift
    /\ _validate_shift(m, b, 0)
    /\ Starts(p, [pc |-> "add", week |-> m, body |-> b])
    /\ UNCHANGED <<rest, shift, added>>

(* A template deleted meanwhile is a foreign key violation. *)
KeyHolds(tpl) == tpl # NoTemplate => template

AddCommit(p) ==
    /\ At(counter, p, "add")
    /\ LET h == counter[p]
       IN  IF ~KeyHolds(h.body.tpl) THEN UNCHANGED <<shift, added>>
           ELSE /\ shift' = shift \cup {Row(added + 1, h.week, h.body)}
                /\ added' = added + 1
    /\ Stops(p)
    /\ UNCHANGED rest

update_shift(p, s, b) ==
    /\ _validate_shift(s.week, b, s.id)
    /\ Starts(p, [pc |-> "update", id |-> s.id, week |-> s.week, body |-> b])
    /\ UNCHANGED <<rest, shift, added>>

(* Of a row deleted meanwhile nothing is written. *)
UpdateCommit(p) ==
    /\ At(counter, p, "update")
    /\ LET h == counter[p]
           old == {s \in shift : s.id = h.id}
       IN  shift' = IF old = {} \/ ~KeyHolds(h.body.tpl) THEN shift
                    ELSE (shift \ old) \cup {Row(h.id, h.week, h.body)}
    /\ Stops(p)
    /\ UNCHANGED <<rest, added>>

delete_shift(s) ==
    /\ shift' = shift \ {s}
    /\ UNCHANGED <<rest, counter, plans, added, raced>>

-----------------------------------------------------------------------------
(* Templates: provenance of a shift, kept while one refers to it *)

create_template ==
    /\ ~template
    /\ template' = TRUE
    /\ UNCHANGED <<week, audits, ended, shift, counter, plans, added, raced>>

delete_template ==
    /\ template
    /\ \A s \in shift : s.tpl = NoTemplate
    /\ template' = FALSE
    /\ UNCHANGED <<week, audits, ended, shift, counter, plans, added, raced>>

-----------------------------------------------------------------------------
(* POST /publish *)

(* The confined load puts the row into the session's identity map. *)
publish_week(p, m) ==
    /\ week[m].made
    /\ Starts(p, [pc |-> "publish", week |-> m, seen |-> week[m].version])
    /\ UNCHANGED <<rest, shift, added>>

(* populate_existing: the values read under the lock. *)
Refreshed(m, seen) == week[m].version

(* SELECT ... FOR UPDATE waits for who holds the row. *)
_publish_lock_stmt(p) ==
    /\ At(counter, p, "publish")
    /\ ~\E x \in Planner : At(counter, x, "locked") /\ counter[x].week = counter[p].week
    /\ counter' = Goes(counter, p, [pc |-> "locked", week |-> counter[p].week,
                                    seen |-> Refreshed(counter[p].week, counter[p].seen)])
    /\ UNCHANGED <<rest, shift, plans, added, raced>>

(* The version, the stamp and the audit row commit together. *)
PublishCommit(p) ==
    /\ At(counter, p, "locked")
    /\ LET m == counter[p].week
       IN  /\ week' = [week EXCEPT ![m].version = counter[p].seen + 1]
           /\ audits' = [audits EXCEPT ![m] = @ + 1]
    /\ Stops(p)
    /\ UNCHANGED <<template, ended, shift, added>>

-----------------------------------------------------------------------------
(* Somebody is separated; their shifts stay. *)
Separated(e, d) ==
    /\ ended[e] = Still
    /\ ended' = [ended EXCEPT ![e] = d]
    /\ UNCHANGED <<week, audits, template, shift, counter, plans, added, raced>>

ScNext ==
    \/ \E p \in Planner :
        \/ \E m \in Monday : create_week(p, m) \/ publish_week(p, m)
        \/ \E m \in Monday, d \in AllDays, slot \in Slot, who \in Crew \cup {OpenShift}, tpl \in {NoTemplate, "usual"} :
              add_shift(p, m, Body(d, slot, who, tpl))
        \/ \E s \in shift, d \in AllDays, slot \in Slot, who \in Crew \cup {OpenShift} :
              update_shift(p, s, Body(d, slot, who, s.tpl))
        \/ CreateCommit(p) \/ AddCommit(p) \/ UpdateCommit(p)
        \/ _publish_lock_stmt(p) \/ PublishCommit(p)
    \/ \E s \in shift : delete_shift(s)
    \/ create_template \/ delete_template
    \/ \E e \in Crew, d \in Monday : Separated(e, d)

ScSpec == ScInit /\ [][ScNext]_scVars

-----------------------------------------------------------------------------
(* Properties *)

ScTypeOK ==
    /\ \A s \in shift : s.id \in 1..added /\ s.date \in Days(s.week) /\ s.who \in Crew \cup {OpenShift}
    /\ \A s, t \in shift : s.id = t.id => s = t

(* Nobody is in two places at once: of edits that do not overlap in time,   *)
(* none leaves an employee with two shifts that do, not across midnight and *)
(* not across the end of a week (_validate_shift's three weeks; a PUT       *)
(* excludes only its own row).                                              *)
NoDoubleBooking ==
    ~raced => \A s, t \in shift :
                  s # t /\ s.who = t.who /\ s.who # OpenShift => ~shifts_overlap(s, t)

(* Every publish is a version of its own: the version of a week is the      *)
(* number of publish_schedule audit rows, however publishes race (the lock  *)
(* and the refresh of _publish_lock_stmt).                                  *)
VersionsAreCounted == \A m \in Monday : week[m].version = audits[m]

(* A shift's template outlives it: no race of a delete with an add leaves a *)
(* shift whose template is gone, and a week with shifts or versions exists. *)
ReferencesHold ==
    /\ \A s \in shift : s.tpl # NoTemplate => template
    /\ \A s \in shift : week[s.week].made
    /\ \A m \in Monday : audits[m] > 0 => week[m].made

(* A schedule stays consistent, however planners, publishes and separations   *)
(* cross.                                                                     *)
SchedulingSafe == ScTypeOK /\ NoDoubleBooking /\ VersionsAreCounted /\ ReferencesHold
=============================================================================
