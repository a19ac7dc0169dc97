----------------------------- MODULE Paychecks -----------------------------
(***************************************************************************)
(* Who issues a paycheck (usali/assignments.py): every history of a        *)
(* person's placements that the unique indexes of employee_assignment      *)
(* admit, row by row, and for every pay period in it the property whose    *)
(* run picks the person up.                                                *)
(***************************************************************************)
EXTENDS Placements

CONSTANTS Site,      \* properties
          LastOn,    \* bound: days
          MaxRow     \* bound: placement rows

ASSUME PaychecksConstants == LastOn \in Nat

VARIABLE stints
ckVars == stints

PlacedOn == 1..LastOn

CkInit == stints = {}

(* uq (employee, property, effective_from) and                             *)
(* uq_one_active_primary_per_employee.                                     *)
Admitted(a) ==
    /\ \A b \in stints : <<a.property, a.from>> # <<b.property, b.from>>
    /\ a.primary /\ a.active /\ a.to = Open =>
          ~\E b \in stints : b.primary /\ b.active /\ b.to = Open

Place(p, from, to, active, primary) ==
    LET a == [property |-> p, from |-> from, to |-> to, active |-> active, primary |-> primary]
    IN  /\ Cardinality(stints) < MaxRow
        /\ from < to
        /\ Admitted(a)
        /\ stints' = stints \cup {a}

CkNext ==
    \E p \in Site, from \in PlacedOn, to \in PlacedOn \cup {Open}, active, primary \in BOOLEAN :
        Place(p, from, to, active, primary)

CkSpec == CkInit /\ [][CkNext]_ckVars

(* A period is paid by exactly one property: by the one whose primary       *)
(* placement was in force on the last day of it that had any, whatever      *)
(* transfer, gap or ended row the history has; by none when no day of the   *)
(* period is covered.  Where two properties both claim that day every run   *)
(* refuses.  (employee_ids_paid_by_during's prefilter by period and its     *)
(* walk back by days agree.)                                                *)
PaidExactlyOnce ==
    \A start \in PlacedOn : \A end \in start..LastOn :
        LET owner == _owner_on_last_covered_day(stints, start, end)
            covered == {on \in start..end : primary_assignment_on(stints, on) # {}}
        IN  /\ ~Raises(owner) => {p \in Site : paid_by_during(stints, p, start, end)} = owner
            /\ (owner = {}) <=> (covered = {})
=============================================================================
