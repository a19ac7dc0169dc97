------------------------------ MODULE MCPeople ------------------------------
(***************************************************************************)
(* Staff: one employee from hiring to separation with two requests at      *)
(* once, a fortnight's schedule and its planners, the projection of a      *)
(* week, its targets, the labor reports, and a deposit chain two           *)
(* administrators replace.  They share no state: a behaviour moves the one *)
(* in focus and the others rest in one of their initial states.            *)
(***************************************************************************)
EXTENDS Workforce, Scheduling, Targets, Projection, LaborReports, Deposits, TLC

VARIABLE focus

(* A state with daily overtime, double time and the seventh day. *)
California == [weekly |-> 3, ot |-> 2, dt |-> 4, seventh |-> 2, pays_double |-> TRUE]
Laws == {California}

(* Shifts of a day of four ticks; the second goes on after midnight. *)
ShiftHours == {<<0, 2>>, <<3, 6>>}
Slots == {<<0, 2>>, <<3, 5>>}

(* Deposit chains: one account, two, the same two sealed for each other's   *)
(* place, percentages that leave nothing, no remainder, the confirmed       *)
(* erasure; on file nothing, a profile's account, or one without its kind.  *)
Account(type, value, slot) == [type |-> type, value |-> value, slot |-> slot, complete |-> TRUE]
Remainder(slot) == Account("remainder", 0, slot)

MCBody == {<<Remainder(1)>>,
           <<Account("percent", 60, 1), Remainder(2)>>,
           <<Account("amount", 1, 2), Remainder(1)>>,
           <<Account("percent", 60, 1), Account("percent", 40, 2), Remainder(3)>>,
           <<Account("amount", 5, 1)>>, <<>>}

MCOnFile == {<<>>, <<Remainder(Legacy)>>, <<[Remainder(Legacy) EXCEPT !.complete = FALSE]>>}

(* One component moves in a behaviour, so the others may use its names.      *)
PeopleAlike == Permutations(Clerk) \cup Permutations(Dept)

PeopleInit ==
    /\ focus \in {"workforce", "scheduling", "targets", "projection", "reports", "deposits"}
    /\ WfInit /\ ScInit /\ TgInit /\ PjInit /\ LrInit /\ DepInit
    /\ focus # "deposits" => ssn = 0 /\ deposits = {}

PeopleNext ==
    /\ \/ /\ focus = "workforce" /\ WfNext
          /\ UNCHANGED <<scVars, tgVars, pjVars, lrVars, depVars>>
       \/ /\ focus = "scheduling" /\ ScNext
          /\ UNCHANGED <<wfVars, tgVars, pjVars, lrVars, depVars>>
       \/ /\ focus = "targets" /\ TgNext
          /\ UNCHANGED <<wfVars, scVars, pjVars, lrVars, depVars>>
       \/ /\ focus = "projection" /\ PjNext
          /\ UNCHANGED <<wfVars, scVars, tgVars, lrVars, depVars>>
       \/ /\ focus = "reports" /\ LrNext
          /\ UNCHANGED <<wfVars, scVars, tgVars, pjVars, depVars>>
       \/ /\ focus = "deposits" /\ DepNext
          /\ UNCHANGED <<wfVars, scVars, tgVars, pjVars, lrVars>>
    /\ UNCHANGED focus

PeopleSpec ==
    PeopleInit /\ [][PeopleNext]_<<focus, wfVars, scVars, tgVars, pjVars, lrVars, depVars>>
=============================================================================
