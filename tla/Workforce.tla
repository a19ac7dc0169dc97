----------------------------- MODULE Workforce -----------------------------
(***************************************************************************)
(* One employee from hiring to separation (usali/workforce.py,             *)
(* onboarding.py, face_enrollment.py): placements and pay rates are dated  *)
(* rows that a raise or a department move closes and reopens, and a        *)
(* separation ends.  Requests read their rows, may call Keycloak or the    *)
(* photo store, and write back by primary key in one transaction; partial  *)
(* unique indexes keep one open primary placement and one open rate of a   *)
(* placement.  The labor cost of a day already worked resolves through the *)
(* same rows whenever its timecard is promoted (usali/labor.py).  The      *)
(* stranded-day refusal of terminate_employee is left out: a separation    *)
(* is dated today, and only days before today can be promoted.             *)
(*                                                                         *)
(* Refusals by role or scope write nothing and are left out.               *)
(***************************************************************************)
EXTENDS Placements, Handlers

CONSTANTS Clerk,         \* requests in flight at once
          Dept,          \* departments of the property
          Wage,          \* amounts a rate may have
          MaxDay,        \* bound: days
          MaxPlacement,  \* bound: placement rows
          MaxRate,       \* bound: rate rows
          MaxRequest,    \* bound: requests
          MaxCut         \* bound: requests cut off

(* Open stands for no end: it is past the end of the last day. *)
ASSUME DaysAssumption == MaxDay \in Nat \ {0} /\ MaxDay + 1 < Open

VARIABLES today,          \* date.today()
          employee,       \* the employee row: status, termination_date, keycloak_subject
          placement,      \* employee_assignment rows
          wage,           \* assignment_rate rows, of type regular
          account,        \* the Keycloak account
          face_template,  \* the face template row exists
          photo,          \* the reference photo is in the store
          desk,           \* the requests
          begun,          \* history: requests so far
          cuts,           \* history: requests that died between two steps
          crossed         \* history: two requests were in flight at once

wfVars == <<today, employee, placement, wage, account, face_template, photo, desk, begun, cuts, crossed>>
faceVars == <<face_template, photo>>
placeVars == <<placement, wage>>

Day == 1..MaxDay
Hired == employee.status # "absent"
Ended == employee.ended # Open
Linked == employee.subject # "null"

WfInit ==
    /\ today = 1
    /\ employee = [status |-> "absent", ended |-> Open, subject |-> "null"]
    /\ placement = {}
    /\ wage = {}
    /\ account = "absent"
    /\ face_template = FALSE
    /\ photo = FALSE
    /\ desk = [c \in Clerk |-> Idle]
    /\ begun = 0
    /\ cuts = 0
    /\ crossed = FALSE

Placed(id, dept, from, to, active) ==
    [id |-> id, property |-> "here", dept |-> dept, from |-> from, to |-> to,
     active |-> active, primary |-> TRUE]
Rated(id, amount, from, to) == [id |-> id, amount |-> amount, from |-> from, to |-> to]

NextId == Cardinality(placement) + 1
RowById(id) == CHOOSE a \in placement : a.id = id
OpenRate(id) == {r \in wage : r.id = id /\ r.to = Open}

(* The rates a promotion would price a day at. *)
Price(on) ==
    UNION {_stored_rate(wage, a.id, on) : a \in assignment_at(placement, "here", on)}

(* _last_placement: what the list shows of somebody no longer placed. *)
_last_placement == {a \in placement : \A b \in placement : b.from <= a.from}

(* list_employees: in the default list while placed, else among the former. *)
list_employees(on) ==
    [employed |-> assignments_on(placement, on) # {},
     shown |-> IF primary_assignment_on(placement, on) # {}
               THEN primary_assignment_on(placement, on) ELSE _last_placement]

(* A request starts, perhaps beside another one. *)
Begin(c, h) ==
    /\ desk[c] = Idle
    /\ begun < MaxRequest
    /\ begun' = begun + 1
    /\ desk' = Goes(desk, c, h)
    /\ crossed' = (crossed \/ \E x \in Clerk : desk[x] # Idle)

(* Its last step. *)
End(c) ==
    /\ desk' = Goes(desk, c, Idle)
    /\ UNCHANGED <<crossed, begun>>

-----------------------------------------------------------------------------
(* Hiring *)

(* The Keycloak account of an operator is created, or adopted, first: one   *)
(* made for a row that was never committed stays behind, linked to nobody.  *)
onboard(c, operator) ==
    /\ ~Hired /\ \A x \in Clerk : desk[x] = Idle
    /\ account' = IF operator THEN "enabled" ELSE account
    /\ Begin(c, [pc |-> "onboard", subject |-> IF operator THEN "account" ELSE "null"])
    /\ UNCHANGED <<today, employee, placement, wage, faceVars, cuts>>

onboard_employee(c, dept) ==
    /\ At(desk, c, "onboard")
    /\ employee' = [status |-> "active", ended |-> Open, subject |-> desk[c].subject]
    /\ placement' = {Placed(1, dept, today, Open, TRUE)}
    /\ End(c)
    /\ UNCHANGED <<today, wage, account, faceVars, cuts>>

-----------------------------------------------------------------------------
(* PUT /pay-rate *)

Placeable == Cardinality(primary_assignment_on(placement, today)) = 1
Current == The(primary_assignment_on(placement, today))

set_pay_rate(c, amount, effective) ==
    /\ Hired /\ Placeable
    /\ \A r \in OpenRate(Current.id) : r.from < effective
    /\ Begin(c, [pc |-> "raise", id |-> Current.id, open |-> OpenRate(Current.id),
                 amount |-> amount, effective |-> effective])
    /\ UNCHANGED <<today, employee, placement, wage, account, faceVars, cuts>>

(* A rate that was read is closed where the next one begins. *)
ClosedRate(r, h) ==
    IF \E o \in h.open : o.id = r.id /\ o.from = r.from THEN [r EXCEPT !.to = h.effective] ELSE r

(* The rate that was read is closed, the next one opened; a rate opened    *)
(* since, or one that began the same day, is a unique violation.           *)
RaiseCommit(c) ==
    /\ At(desk, c, "raise")
    /\ Cardinality(wage) < MaxRate
    /\ LET h == desk[c]
           closed == {ClosedRate(r, h) : r \in wage}
       IN  wage' = IF \E r \in closed : r.id = h.id /\ (r.to = Open \/ r.from = h.effective)
                   THEN wage
                   ELSE closed \cup {Rated(h.id, h.amount, h.effective, Open)}
    /\ End(c)
    /\ UNCHANGED <<today, employee, placement, account, faceVars, cuts>>

-----------------------------------------------------------------------------
(* PATCH /employees *)

(* employment_status, read and written back; terminated refuses. *)
patch_employee(c, status) ==
    /\ Hired
    /\ employee.status \notin {"terminated", status}
    /\ Begin(c, [pc |-> "patch", status |-> status])
    /\ UNCHANGED <<today, employee, placement, wage, account, faceVars, cuts>>

PatchCommit(c) ==
    /\ At(desk, c, "patch")
    /\ employee' = [employee EXCEPT !.status = desk[c].status]
    /\ End(c)
    /\ UNCHANGED <<today, placement, wage, account, faceVars, cuts>>

_move_department(c, dept, effective) ==
    /\ Hired /\ Placeable
    /\ Current.dept # dept
    /\ Current.from < effective
    /\ Begin(c, [pc |-> "move", id |-> Current.id, dept |-> dept, effective |-> effective,
                 carried |-> {r.amount : r \in OpenRate(Current.id)}])
    /\ UNCHANGED <<today, employee, placement, wage, account, faceVars, cuts>>

(* The placement that was read, closed as the request decided. *)
ClosedAt(id, to) == {IF a.id = id THEN [a EXCEPT !.to = to] ELSE a : a \in placement}

(* uq_one_active_primary_per_employee, and one start day of a property. *)
Refused(rows, from) == \E a \in rows : (a.active /\ a.to = Open) \/ a.from = from

(* Faulty: the rate stays behind on the old placement. *)
Carried_Forgotten(amounts, effective) == {}

(* The open rate is carried forward onto the new placement. *)
Carried(amounts, effective) == {Rated(NextId, x, effective, Open) : x \in amounts}

MoveCommit(c) ==
    /\ At(desk, c, "move")
    /\ NextId <= MaxPlacement
    /\ LET h == desk[c]
           closed == ClosedAt(h.id, h.effective)
       IN  IF Refused(closed, h.effective) THEN UNCHANGED <<placement, wage>>
           ELSE /\ placement' = closed \cup {Placed(NextId, h.dept, h.effective, Open, TRUE)}
                /\ wage' = wage \cup Carried(h.carried, h.effective)
    /\ End(c)
    /\ UNCHANGED <<today, employee, account, faceVars, cuts>>

-----------------------------------------------------------------------------
(* POST /terminate *)

(* An administrator may separate somebody again. *)
terminate(c) ==
    /\ Hired
    /\ Begin(c, [pc |-> "disable", on |-> today])
    /\ UNCHANGED <<today, employee, placement, wage, account, faceVars, cuts>>

(* Faulty: a failure of Keycloak is swallowed. *)
disable_user_BestEffort(c) ==
    /\ At(desk, c, "disable")
    /\ account' \in {account, IF Linked THEN "disabled" ELSE account}
    /\ desk' = Goes(desk, c, [desk[c] EXCEPT !.pc = "close"])
    /\ UNCHANGED <<today, employee, placement, wage, faceVars, cuts, crossed, begun>>

(* Only the account the row names: the code has no other way to find one. *)
disable_user(c) ==
    /\ At(desk, c, "disable")
    /\ account' = IF Linked THEN "disabled" ELSE account
    /\ desk' = Goes(desk, c, [desk[c] EXCEPT !.pc = "close"])
    /\ UNCHANGED <<today, employee, placement, wage, faceVars, cuts, crossed, begun>>

(* The rows are read, and the photo of a template deleted. *)
TerminateReads(c) ==
    /\ At(desk, c, "close")
    /\ photo' = (photo /\ ~face_template)
    /\ desk' = Goes(desk, c, [pc |-> "terminate", on |-> desk[c].on, face |-> face_template,
                              rows |-> {a \in placement : a.active}])
    /\ UNCHANGED <<today, employee, placement, wage, account, face_template, crossed, begun, cuts>>

(* effective_to is exclusive: the last day stays inside. *)
LastDay(row, on) == IF row.to > on THEN on + 1 ELSE row.to

(* A row that was active when read is ended, whatever became of it. *)
EndedRow(a, h) ==
    LET r == CHOOSE x \in h.rows : x.id = a.id
        last == IF LastDay(r, h.on) = r.to THEN a.to ELSE LastDay(r, h.on)
    IN  IF \E x \in h.rows : x.id = a.id THEN [a EXCEPT !.active = FALSE, !.to = last] ELSE a

terminate_employee(c) ==
    /\ At(desk, c, "terminate")
    /\ placement' = {EndedRow(a, desk[c]) : a \in placement}
    /\ employee' = [employee EXCEPT !.status = "terminated", !.ended = desk[c].on]
    /\ face_template' = (face_template /\ ~desk[c].face)
    /\ End(c)
    /\ UNCHANGED <<today, wage, account, photo, cuts>>

-----------------------------------------------------------------------------
(* The face template *)

enroll_face_template(c) ==
    /\ Hired /\ employee.status # "terminated"
    /\ Begin(c, [pc |-> "enroll"])
    /\ UNCHANGED <<today, employee, placement, wage, account, faceVars, cuts>>

(* The photo is stored first, the row commits last. *)
write_face_template(c) ==
    /\ At(desk, c, "enroll")
    /\ photo' = TRUE
    /\ desk' = Goes(desk, c, [pc |-> "enrolled"])
    /\ UNCHANGED <<today, employee, placement, wage, account, face_template, crossed, begun, cuts>>

EnrollCommit(c) ==
    /\ At(desk, c, "enrolled")
    /\ face_template' = TRUE
    /\ End(c)
    /\ UNCHANGED <<today, employee, placement, wage, account, photo, cuts>>

(* The photo goes before the commit. *)
delete_face_template ==
    /\ \A c \in Clerk : desk[c] = Idle
    /\ face_template
    /\ face_template' = FALSE
    /\ photo' = FALSE
    /\ UNCHANGED <<today, employee, placement, wage, account, crossed, begun, desk, cuts>>

-----------------------------------------------------------------------------
(* The rest of the world *)

(* No request runs for days. *)
Midnight ==
    /\ today < MaxDay
    /\ \A c \in Clerk : desk[c] = Idle
    /\ today' = today + 1
    /\ UNCHANGED <<employee, placement, wage, account, faceVars, desk, cuts, crossed, begun>>

(* A request dies, or its commit fails: what it did outside stays done. *)
CutOff(c) ==
    /\ desk[c] # Idle
    /\ cuts < MaxCut
    /\ cuts' = cuts + 1
    /\ End(c)
    /\ UNCHANGED <<today, employee, placement, wage, account, faceVars>>

WfNext ==
    \/ \E c \in Clerk :
        \/ \E operator \in BOOLEAN : onboard(c, operator)
        \/ \E dept \in Dept : onboard_employee(c, dept)
        \/ \E amount \in Wage, d \in Day : set_pay_rate(c, amount, d)
        \/ \E status \in {"active", "leave"} : patch_employee(c, status)
        \/ \E dept \in Dept, d \in Day : _move_department(c, dept, d)
        \/ RaiseCommit(c) \/ PatchCommit(c) \/ MoveCommit(c)
        \/ terminate(c) \/ disable_user(c) \/ TerminateReads(c) \/ terminate_employee(c)
        \/ enroll_face_template(c) \/ write_face_template(c) \/ EnrollCommit(c)
        \/ CutOff(c)
    \/ delete_face_template
    \/ Midnight

WfSpec == WfInit /\ [][WfNext]_wfVars

-----------------------------------------------------------------------------
(* Properties *)

WfTypeOK ==
    /\ employee.status \in {"absent", "active", "leave", "terminated"}
    /\ \A a \in placement : a.dept \in Dept /\ a.from \in Day /\ a.to \in Day \cup {MaxDay + 1, Open}
    /\ \A r \in wage : r.id < NextId /\ r.amount \in Wage
    /\ Cardinality({a \in placement : a.active /\ a.to = Open}) <= 1

(* Until somebody separates, every day of theirs has at most one placement  *)
(* and at most one rate, however raises and moves, dated into the past or   *)
(* the future, follow or overtake each other: promotion and pay runs never  *)
(* meet the Ambiguous errors (uq_one_active_primary_per_employee,           *)
(* uq_one_open_rate_per_assignment_type, the half-open closes); and no day  *)
(* is a gap in which the staff list would drop them.                        *)
EveryDayHasOnePrice ==
    ~Ended => \A d \in Day :
        /\ ~Raises(primary_assignment_on(placement, d)) /\ ~Raises(Price(d))
        /\ Hired /\ d >= today => list_employees(d).employed /\ ~Raises(list_employees(d).shown)

(* No raise, move or separation un-prices a day already worked: whenever    *)
(* its timecard is promoted, the same rows still price it (the half-open    *)
(* closes, the rate _move_department carries, the exclusive end of          *)
(* terminate_employee).  Of requests that overlap, a move that read no rate *)
(* can strand one set meanwhile.                                            *)
WorkedDayStaysPriced ==
    [][~crossed => \A d \in 1..today : Price(d) # {} => Price(d)' # {}]_wfVars

(* Who is recorded as separated cannot sign in: the account is disabled     *)
(* before the commit, so that no failure leaves it open.  An account that   *)
(* no row names is out of terminate_employee's reach, and nobody hired has  *)
(* one unless a request was cut off after it was made.                      *)
SeparatedCannotSignIn ==
    /\ Ended /\ Linked => account = "disabled"
    /\ Hired /\ ~Linked /\ account = "enabled" => cuts > 0

(* Separation leaves no face behind: neither the template nor its photo,    *)
(* unless requests overlapped or one was cut off between the photo store    *)
(* and the commit.                                                          *)
SeparationDeletesFace == Ended /\ ~crossed /\ cuts = 0 => ~face_template /\ ~photo

(* An employee is placed and paid without a gap or a doubt, and a separation  *)
(* takes the account and the face with it.                                    *)
WorkforceSafe ==
    /\ WfTypeOK /\ EveryDayHasOnePrice
    /\ SeparatedCannotSignIn /\ SeparationDeletesFace

(* The comment in terminate_employee: "effective-dating alone answers       *)
(* whether this person was employed here on date X".                        *)
NotEmployedAfterTheLastDay ==
    employee.status = "terminated" /\ ~crossed =>
        \A d \in Day : d > employee.ended => assignments_on(placement, d) = {}
=============================================================================
