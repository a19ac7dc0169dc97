------------------------------ MODULE MCMoney ------------------------------
(***************************************************************************)
(* Money: the QuickBooks export over a month of two days, and its sessions *)
(* overlapping on one of them; the pay runs of one employee of two hotels  *)
(* with two settlement requests; and the indicators of three days. They    *)
(* share no state: a behaviour moves the one in focus and the others rest. *)
(* A focus adds the bounds that make its own case the one explored.        *)
(***************************************************************************)
EXTENDS QboPush, PayRun, Performance, TLC

CONSTANTS planA, planB, uncoded, w1, w2, e1, k1, k2

VARIABLE focus

Hours == <<2, 1>>
SickHours == <<1, 0>>
MoneyAlike == Permutations({planA, planB}) \cup Permutations(Clerk)

(* One session at a time, and of the two days only the first gets a GL      *)
(* entry, a plan that does not build or, once it has one, another; or       *)
(* sessions that overlap, facts of one day, and no chart.                   *)
OneSession ==
    /\ pusher'[w2] = Idle /\ entry'[2] = NoPlan /\ content'[2] # uncoded
    /\ content[2] \in {NoPlan, content'[2]}
OneDay == content[2] = NoPlan /\ ~chartOn

(* Hours punched for a period. *)
Punched(p) == Worked(e1, p) + Stray(e1, p)

(* A paid period's hours, moved and settled between two hotels; submissions *)
(* and syncs that fail, are lost and are tried again; a run of the second   *)
(* period, its answers kept, after all that happened to the first's.        *)
LateHours == Punched(2) = 0 /\ vault[e1] = 1 /\ Len(people) <= 1 /\ Len(payrolls) <= 1
Retries ==
    /\ Punched(1) <= 1 /\ Punched(2) = 0
    /\ sick[e1][1] = 0 \/ (Len(people) <= 1 /\ vault[e1] = 1)
TwoPeriods ==
    /\ Punched(1) <= 1 /\ Stray(e1, 1) = 0 /\ sick[e1][1] = 0
    /\ vault[e1] = 1 /\ Len(people) <= 1 /\ lost[2] = 0

(* Rooms out of order for a day or until the end; one rate without guests.  *)
FewBlocks ==
    /\ \A b \in blocks : b.to \in {b.from, Horizon}
    /\ \A d \in DOMAIN stats : stats[d].sold = 0 => stats[d].rate = 1

PayrollFocus == {"hours", "retries", "periods"}

MoneyInit ==
    /\ focus \in {"export", "overlap", "performance"} \cup PayrollFocus
    /\ QpInit /\ PrInit /\ PfInit
    /\ focus # "export" => ~chartOn

MoneyNext ==
    /\ \/ focus \in {"export", "overlap"} /\ QpNext /\ UNCHANGED <<prVars, pfVars>>
       \/ focus \in PayrollFocus /\ PrNext /\ UNCHANGED <<qpVars, pfVars>>
       \/ focus = "performance" /\ PfNext /\ UNCHANGED <<qpVars, prVars>>
    /\ focus = "export" => OneSession
    /\ focus = "overlap" => OneDay'
    /\ focus = "hours" => LateHours'
    /\ focus = "retries" => Retries'
    /\ focus = "periods" => TwoPeriods'
    /\ focus = "performance" => FewBlocks'
    /\ UNCHANGED focus

MoneySpec == MoneyInit /\ [][MoneyNext]_<<focus, qpVars, prVars, pfVars>>
=============================================================================
