------------------------------- MODULE PayRun -------------------------------
(***************************************************************************)
(* A property's pay runs: preflight over timecards and the sick ledger,    *)
(* syncing employees to the payroll provider, submitting, fetching results *)
(* into the books, and settling hours that a run did not pay               *)
(* (usali/payroll_run.py, payroll_run_api.py, apportion.py).               *)
(*                                                                         *)
(* One POST /runs is under way at a time; timecards, the sick ledger, the  *)
(* vault, settlements and fetches change between any two of its steps, and *)
(* any answer of the provider may be lost.  Refusals that concern a person *)
(* alone (rates, deposit chain, sealed profile) only keep a run from       *)
(* happening: where they can strike mid-run they are a nondeterministic    *)
(* choice.  Hours and money are integers, one unit being a cent.           *)
(***************************************************************************)
EXTENDS Integers, Sequences, FiniteSets, FiniteSetsExt, Handlers

CONSTANTS Employee,
          NPeriods,    \* pay periods 1..NPeriods
          NHotels,     \* hotels 1..NHotels an employee works at; 1 is the paying one
          Clerk,       \* concurrent settlement requests
          Gross,       \* gross amounts the provider may price a line at
          MaxHours,    \* bound: hours ever punched by an employee, per period
          MaxSick,     \* bound: sick hours taken by an employee, per period
          MaxVersion,  \* bound: edits of an employee's sealed payload
          MaxPeople,   \* bound: employee records at the provider
          MaxPayrolls  \* bound: payrolls at the provider

ASSUME PayRunConstants ==
    /\ IsFiniteSet(Employee) /\ NPeriods \in Nat \ {0} /\ NHotels \in Nat \ {0}
    /\ Gross \subseteq Int
    /\ MaxVersion \in Nat \ {0} /\ MaxPeople \in Nat /\ MaxPayrolls \in Nat
    /\ MaxHours \in [1..NPeriods -> Nat] /\ MaxSick \in [1..NPeriods -> Nat]

VARIABLES card,      \* per employee and period, the timecard
          sick,      \* net sick hours the ledger shows as taken
          vault,     \* version of the payload (name, SSN, deposit chain) on file
          ref,       \* provider_employee_ref: remote id and payload_fingerprint
          run,       \* the property's pay_run per period, with its lines and census
          settled,   \* wage_settlement hours per period and employee
          facts,     \* usali_actual_labor_fact per period and hotel
          people,    \* provider: its employee records
          payrolls,  \* provider: its payrolls
          lost,      \* per period, payrolls booked whose answer never became a row
          peak,      \* most hours an approved card ever showed
          tx,        \* the POST /runs under way
          act        \* the settlements under way

prVars == <<card, sick, vault, ref, run, settled, facts, people, payrolls, lost, peak, tx, act>>
cards == <<card, peak>>
remote == <<people, payrolls, lost>>

Period == 1..NPeriods
Hotel == 1..NHotels
Home == 1
Sum(f) == MapThenSumSet(LAMBDA k : f[k], DOMAIN f)

NoHours == [h \in Hotel |-> 0]
NoCard == [status |-> "none", hours |-> NoHours, stray |-> NoHours]
NoRef == [id |-> 0, fp |-> 0]
NoLine == [worked |-> 0, sick |-> 0]
NoRun == [status |-> "none", remote |-> 0, lines |-> <<>>, census |-> <<>>]
(* What a run that did not reach the provider leaves behind. *)
FailedRun == [NoRun EXCEPT !.status = "failed"]
NoFacts == [hours |-> NoHours, gross |-> NoHours]

PrInit ==
    /\ card = [e \in Employee |-> [p \in Period |-> NoCard]]
    /\ sick = [e \in Employee |-> [p \in Period |-> 0]]
    /\ vault = [e \in Employee |-> 1]
    /\ ref = [e \in Employee |-> NoRef]
    /\ run = [p \in Period |-> NoRun]
    /\ settled = [p \in Period |-> [e \in Employee |-> 0]]
    /\ facts = [p \in Period |-> NoFacts]
    /\ people = <<>> /\ payrolls = <<>>
    /\ lost = [p \in Period |-> 0]
    /\ peak = [e \in Employee |-> [p \in Period |-> 0]]
    /\ tx = Idle
    /\ act = [k \in Clerk |-> Idle]

-----------------------------------------------------------------------------
(* Timecards, the sick ledger and the vault, as far as a run reads them *)

Worked(e, p) == Sum(card[e][p].hours)
Stray(e, p) == Sum(card[e][p].stray)

(* A punch lands on the card, which it may create, or unlinked beside an    *)
(* approved one.                                                            *)
punch(e, p, h) ==
    /\ Worked(e, p) + Stray(e, p) < MaxHours[p]
    /\ LET c == card[e][p]
       IN  card' = [card EXCEPT ![e][p] =
                      IF c.status = "approved" THEN [c EXCEPT !.stray[h] = @ + 1]
                      ELSE [c EXCEPT !.status = "open", !.hours[h] = @ + 1]]
    /\ UNCHANGED <<sick, vault, ref, run, settled, facts, remote, peak, tx, act>>

approve_timecard(e, p) ==
    /\ card[e][p].status = "open"
    /\ card' = [card EXCEPT ![e][p].status = "approved"]
    /\ peak' = [peak EXCEPT ![e][p] = Max({@, Worked(e, p)})]
    /\ UNCHANGED <<sick, vault, ref, run, settled, facts, remote, tx, act>>

(* reopen_timecard relinks the strays. *)
reopen_timecard(e, p) ==
    /\ card[e][p].status = "approved"
    /\ card' = [card EXCEPT ![e][p] =
                  [status |-> "open", hours |-> [h \in Hotel |-> @.hours[h] + @.stray[h]],
                   stray |-> NoHours]]
    /\ UNCHANGED <<sick, vault, ref, run, settled, facts, remote, peak, tx, act>>

(* An adjustment that takes an hour off an open card. *)
add_adjustment(e, p, h) ==
    /\ card[e][p].status = "open" /\ card[e][p].hours[h] > 0
    /\ card' = [card EXCEPT ![e][p].hours[h] = @ - 1]
    /\ UNCHANGED <<sick, vault, ref, run, settled, facts, remote, peak, tx, act>>

(* record_usage and void_usage. *)
record_sick(e, p, h) ==
    /\ h # sick[e][p]
    /\ sick' = [sick EXCEPT ![e][p] = h]
    /\ UNCHANGED <<cards, vault, ref, run, settled, facts, remote, tx, act>>

edit_payload(e) ==
    /\ vault[e] < MaxVersion
    /\ vault' = [vault EXCEPT ![e] = @ + 1]
    /\ UNCHANGED <<cards, sick, ref, run, settled, facts, remote, tx, act>>

-----------------------------------------------------------------------------
(* assemble_pay_run_entries *)

Submitted(p) == run[p].status \in {"submitted", "processed"}
Paid(p) == DOMAIN run[p].lines
Line(p, e) == IF e \in Paid(p) THEN run[p].lines[e] ELSE NoLine

(* _late_sick_problems: the ledger shows more than that run's line paid.     *)
(* With one property, hours that moved between properties do not arise.      *)
_late_sick_problems(p) ==
    {x \in Employee \X (1..(p - 1)) :
        Submitted(x[2]) /\ sick[x[1]][x[2]] > Line(x[2], x[1]).sick}

(* _late_worked_problems: unlinked punches up to and including this period. *)
_late_worked_problems(p) == {x \in Employee \X (1..p) : Stray(x[1], x[2]) > 0}

(* _worked_hours_facts: what is still owed on a paid line. *)
Delta(e, p) == Worked(e, p) - Line(p, e).worked - settled[p][e]

(* Faulty: a reopened card is left to whoever reopened it. *)
_paid_worked_problems_ApprovedOnly(p) ==
    {x \in Employee \X (1..(p - 1)) :
        /\ Submitted(x[2]) /\ x[1] \in Paid(x[2])
        /\ card[x[1]][x[2]].status = "approved" /\ Delta(x[1], x[2]) > 0}

(* _paid_worked_problems: on the lines of earlier runs, a card reopened and  *)
(* not re-approved, or hours beyond what was paid and settled.               *)
_paid_worked_problems(p) ==
    {x \in Employee \X (1..(p - 1)) :
        /\ Submitted(x[2]) /\ x[1] \in Paid(x[2])
        /\ \/ card[x[1]][x[2]].status = "open"
           \/ card[x[1]][x[2]].status = "approved" /\ Delta(x[1], x[2]) > 0}

(* Cards of the period that cannot be paid as they are. *)
Unpayable(p) ==
    {x \in Employee \X {p} :
        \/ card[x[1]][p].status = "open"
        \/ card[x[1]][p].status = "approved" /\ Worked(x[1], p) + sick[x[1]][p] = 0}

Problems(p) ==
    _late_sick_problems(p) \cup _late_worked_problems(p)
        \cup _paid_worked_problems(p) \cup Unpayable(p)

HasCard(e, p) == card[e][p].status # "none"

(* Card holders, and whoever was sick all period without a card. *)
Entries(p) ==
    [e \in {x \in Employee : HasCard(x, p) \/ sick[x][p] > 0} |->
        [worked |-> Worked(e, p), sick |-> sick[e][p]]]

Ok(p) == Problems(p) = {} /\ \E e \in Employee : HasCard(e, p)

-----------------------------------------------------------------------------
(* apportion and the census *)

(* Faulty: every share is rounded down and nobody gets the remainder. *)
apportion_Floor(total, weights) ==
    LET basis == Sum(weights)
    IN  [k \in DOMAIN weights |-> IF basis <= 0 THEN 0 ELSE (total * weights[k]) \div basis]

(* apportion: largest remainder on the magnitude, ties by key. *)
apportion(total, weights) ==
    LET basis == Sum(weights)
        magnitude == IF total < 0 THEN -total ELSE total
        share(k) == (magnitude * weights[k]) \div basis
        rem(k) == (magnitude * weights[k]) % basis
        steps == magnitude - Sum([k \in DOMAIN weights |-> share(k)])
        rank(k) == Cardinality({j \in DOMAIN weights :
                                  rem(j) > rem(k) \/ (rem(j) = rem(k) /\ j < k)})
    IN  IF basis <= 0 \/ total = 0 THEN [k \in DOMAIN weights |-> 0]
        ELSE [k \in DOMAIN weights |->
                (IF total < 0 THEN -1 ELSE 1) * (share(k) + (IF rank(k) < steps THEN 1 ELSE 0))]

(* _line_weights reads the card as it is now; sick hours go to the paying    *)
(* hotel, and a line with no weight goes there wholly.                       *)
_line_weights(e, p, line) ==
    LET w == [card[e][p].hours EXCEPT ![Home] = @ + line.sick]
    IN  IF Sum(w) > 0 THEN w ELSE [NoHours EXCEPT ![Home] = 1]

Census(p, lines) ==
    [e \in DOMAIN lines |-> apportion(lines[e].worked + lines[e].sick,
                                      _line_weights(e, p, lines[e]))]

-----------------------------------------------------------------------------
(* execute_pay_run under POST /runs *)

(* Faulty: any earlier run may be replaced. *)
Replaceable_Any(p) == TRUE

(* Only a failed run is replaced; a second request meets PayRunConflict. *)
Replaceable(p) == run[p].status \in {"none", "failed"}

create_run(p) ==
    /\ tx = Idle
    /\ Ok(p) /\ Replaceable(p)
    /\ tx' = [pc |-> "sync", period |-> p, report |-> Entries(p),
              todo |-> DOMAIN Entries(p), refs |-> ref]
    /\ UNCHANGED <<cards, sick, vault, ref, run, settled, facts, remote, act>>

(* The run is committed as failed, with the refs made on the way. *)
Fail ==
    /\ run' = [run EXCEPT ![tx.period] = FailedRun]
    /\ ref' = tx.refs
    /\ tx' = Idle

(* PayRunBlocked, a crash or any other exception: nothing is committed. *)
RollBack == tx' = Idle /\ UNCHANGED <<run, ref>>

(* An employee whose copy at the provider is current is left alone. *)
provider_payload_stale(e) == tx.refs[e] = NoRef \/ tx.refs[e].fp # vault[e]

(* The payload on file now (Deposits has what is in it). *)
_build_payroll_employee(e) == [emp |-> e, version |-> vault[e]]

(* The provider's records after sync_employee or update_employee. *)
PeopleAfter(e) ==
    IF tx.refs[e] = NoRef THEN Append(people, _build_payroll_employee(e))
    ELSE [people EXCEPT ![tx.refs[e].id] = _build_payroll_employee(e)]

(* sync_employees, one employee: the payload is delivered, and only then is *)
(* its fingerprint stored.                                                  *)
sync_employees(e) ==
    /\ tx.pc = "sync" /\ e \in tx.todo
    /\ provider_payload_stale(e) => Len(PeopleAfter(e)) <= MaxPeople
    /\ people' = IF provider_payload_stale(e) THEN PeopleAfter(e) ELSE people
    /\ tx' = [tx EXCEPT !.todo = @ \ {e},
                        !.refs[e] = [id |-> IF @.id = 0 THEN Len(people) + 1 ELSE @.id,
                                     fp |-> vault[e]]]
    /\ UNCHANGED <<cards, sick, vault, ref, run, settled, facts, payrolls, lost, act>>

(* Faulty: the fingerprint is stored although the payload may not be there. *)
UpdateRefused_Marks(e) ==
    /\ run' = [run EXCEPT ![tx.period] = FailedRun]
    /\ ref' = [tx.refs EXCEPT ![e].fp = vault[e]]
    /\ tx' = Idle

(* A failed update raises PayRunBlocked, which leaves the transaction. *)
UpdateRefused(e) == RollBack

(* ProviderError while syncing; the provider may have acted all the same. *)
SyncFails(e, acted) ==
    /\ tx.pc = "sync" /\ e \in tx.todo
    /\ provider_payload_stale(e)
    /\ acted => Len(PeopleAfter(e)) <= MaxPeople
    /\ people' = IF acted THEN PeopleAfter(e) ELSE people
    /\ IF tx.refs[e] = NoRef THEN Fail ELSE UpdateRefused(e)
    /\ UNCHANGED <<cards, sick, vault, settled, facts, payrolls, lost, act>>

(* The second assembly: anything that changed since the first, or a refusal *)
(* this model leaves out (drift), fails the run before it is sent.          *)
Recheck(drift) ==
    /\ tx.pc = "sync" /\ tx.todo = {}
    /\ IF drift \/ ~Ok(tx.period) \/ Entries(tx.period) # tx.report
       THEN Fail
       ELSE /\ tx' = [pc |-> "submit", period |-> tx.period, report |-> tx.report, refs |-> tx.refs]
            /\ UNCHANGED <<run, ref>>
    /\ UNCHANGED <<cards, sick, vault, settled, facts, remote, act>>

Booked == Append(payrolls, [period |-> tx.period, entries |-> tx.report, gross |-> <<>>])

submit_pay_run ==
    /\ tx.pc = "submit"
    /\ Len(payrolls) < MaxPayrolls
    /\ payrolls' = Booked
    /\ tx' = [pc |-> "submitted", period |-> tx.period, report |-> tx.report, refs |-> tx.refs,
              remote |-> Len(payrolls) + 1]
    /\ UNCHANGED <<cards, sick, vault, ref, run, settled, facts, people, lost, act>>

(* Refused, or booked with the answer lost: a failed run either way. *)
SubmitFails(acted) ==
    /\ tx.pc = "submit"
    /\ acted => Len(payrolls) < MaxPayrolls
    /\ payrolls' = IF acted THEN Booked ELSE payrolls
    /\ lost' = IF acted THEN [lost EXCEPT ![tx.period] = @ + 1] ELSE lost
    /\ Fail
    /\ UNCHANGED <<cards, sick, vault, settled, facts, people, act>>

(* Lines and census are stored with the answer, and committed. *)
SubmitCommit ==
    /\ tx.pc = "submitted"
    /\ run' = [run EXCEPT ![tx.period] =
                 [status |-> "submitted", remote |-> tx.remote, lines |-> tx.report,
                  census |-> Census(tx.period, tx.report)]]
    /\ ref' = tx.refs
    /\ tx' = Idle
    /\ UNCHANGED <<cards, sick, vault, settled, facts, remote, act>>

Crash ==
    /\ tx # Idle
    /\ lost' = IF tx.pc = "submitted" THEN [lost EXCEPT ![tx.period] = @ + 1] ELSE lost
    /\ RollBack
    /\ UNCHANGED <<cards, sick, vault, settled, facts, people, payrolls, act>>

-----------------------------------------------------------------------------
(* Results *)

(* The provider prices a payroll. *)
Process(i, g) ==
    /\ payrolls[i].gross = <<>>
    /\ payrolls' = [payrolls EXCEPT ![i].gross = [e \in DOMAIN payrolls[i].entries |-> g]]
    /\ UNCHANGED <<cards, sick, vault, ref, run, settled, facts, people, lost, tx, act>>

(* SELECT ... FOR UPDATE of the line. *)
LineFree(p, e) == ~\E k \in Clerk : act[k] # Idle /\ act[k].period = p /\ act[k].emp = e

(* The census stored at submission. *)
BookedHours(p) == run[p].census

(* The facts of the period anew: the provider's money split by the census. *)
fetch_pay_run_results(p) ==
    LET gross == payrolls[run[p].remote].gross
        hours == BookedHours(p)
    IN  [hours |-> [h \in Hotel |-> Sum([e \in Paid(p) |-> hours[e][h]])],
         gross |-> [h \in Hotel |->
                      Sum([e \in Paid(p) |-> apportion(gross[e], hours[e])[h]])]]

(* A run that was sent and that the provider has priced, any number of times, *)
(* behind any settlement that holds a line.                                   *)
fetch_results(p) ==
    /\ Submitted(p) /\ payrolls[run[p].remote].gross # <<>>
    /\ \A e \in Paid(p) : LineFree(p, e)
    /\ facts' = [facts EXCEPT ![p] = fetch_pay_run_results(p)]
    /\ run' = [run EXCEPT ![p].status = "processed"]
    /\ UNCHANGED <<cards, sick, vault, ref, settled, remote, tx, act>>

-----------------------------------------------------------------------------
(* settle_worked_hours *)

settle_worked_hours(k, p, e) ==
    /\ act[k] = Idle
    /\ Submitted(p) /\ e \in Paid(p)
    /\ LineFree(p, e)
    /\ card[e][p].status = "approved" /\ Delta(e, p) > 0
    /\ act' = [act EXCEPT ![k] = [pc |-> "settling", period |-> p, emp |-> e, hours |-> Delta(e, p)]]
    /\ UNCHANGED <<cards, sick, vault, ref, run, settled, facts, remote, tx>>

SettleCommit(k) ==
    /\ act[k] # Idle
    /\ settled' = [settled EXCEPT ![act[k].period][act[k].emp] = @ + act[k].hours]
    /\ act' = [act EXCEPT ![k] = Idle]
    /\ UNCHANGED <<cards, sick, vault, ref, run, facts, remote, tx>>

SettleAbort(k) ==
    /\ act[k] # Idle
    /\ act' = [act EXCEPT ![k] = Idle]
    /\ UNCHANGED <<cards, sick, vault, ref, run, settled, facts, remote, tx>>

PrNext ==
    \/ \E e \in Employee, p \in Period :
         \/ approve_timecard(e, p) \/ reopen_timecard(e, p)
         \/ \E h \in 0..MaxSick[p] : record_sick(e, p, h)
         \/ \E h \in Hotel : punch(e, p, h) \/ add_adjustment(e, p, h)
         \/ \E k \in Clerk : settle_worked_hours(k, p, e)
    \/ \E e \in Employee : edit_payload(e) \/ sync_employees(e)
    \/ \E p \in Period : create_run(p) \/ fetch_results(p)
    \/ \E e \in Employee, acted \in BOOLEAN : SyncFails(e, acted)
    \/ \E drift \in BOOLEAN : Recheck(drift)
    \/ submit_pay_run \/ \E acted \in BOOLEAN : SubmitFails(acted)
    \/ SubmitCommit \/ Crash
    \/ \E i \in DOMAIN payrolls, g \in Gross : Process(i, g)
    \/ \E k \in Clerk : SettleCommit(k) \/ SettleAbort(k)

PrSpec == PrInit /\ [][PrNext]_prVars

-----------------------------------------------------------------------------
(* Properties *)

PrTypeOK ==
    /\ \A e \in Employee : \A p \in Period :
         /\ card[e][p].status \in {"none", "open", "approved"}
         /\ card[e][p].hours \in [Hotel -> Nat] /\ card[e][p].stray \in [Hotel -> Nat]
         /\ sick[e][p] \in 0..MaxSick[p] /\ peak[e][p] \in Nat /\ settled[p][e] \in Nat
    /\ \A e \in Employee : vault[e] \in 1..MaxVersion /\ ref[e].id \in 0..Len(people)
    /\ \A p \in Period : /\ run[p].status \in {"none", "failed", "submitted", "processed"}
                         /\ run[p].remote \in 0..Len(payrolls) /\ lost[p] \in Nat
    /\ tx.pc \in {"idle", "sync", "submit", "submitted"}

(* Nobody is paid twice unless an answer was lost: the provider holds one     *)
(* payroll per period beyond those whose answer never became a row, the run   *)
(* names it, and its lines are what was sent (execute_pay_run).               *)
PayrollsAccounted ==
    \A p \in Period :
        LET sent == {i \in DOMAIN payrolls : payrolls[i].period = p}
            held == Submitted(p) \/ (tx.pc = "submitted" /\ tx.period = p)
        IN  /\ Cardinality(sent) = lost[p] + (IF held THEN 1 ELSE 0)
            /\ Submitted(p) => /\ run[p].remote \in sent
                               /\ payrolls[run[p].remote].entries = run[p].lines

(* "Loudly wrong beats silently unpaid": whatever a paid employee worked or   *)
(* took sick in a submitted period and nobody paid or settled, and any stray  *)
(* punch, blocks every later run, whichever punches, reopenings, corrections  *)
(* and settlements came after the run (the three guards of the preflight).    *)
UnpaidIsNamed ==
    \A p \in Period, e \in Employee, q \in Period :
        /\ Submitted(p) /\ p < q
        /\ \/ e \in Paid(p) /\ Worked(e, p) + Stray(e, p) > Line(p, e).worked + settled[p][e]
           \/ Stray(e, p) > 0
           \/ sick[e][p] > Line(p, e).sick
        => Problems(q) # {}

(* A settlement "can neither overshoot nor mask a later drift": pay and       *)
(* settlements never exceed the most an approved card ever showed.            *)
SettledWasOwed ==
    \A p \in Period, e \in Employee :
        settled[p][e] > 0 => Line(p, e).worked + settled[p][e] <= peak[e][p]

(* An hour is paid once: by one payroll, or by a settlement of what it left.  *)
NobodyIsPaidTwice == PrTypeOK /\ PayrollsAccounted /\ SettledWasOwed

(* A ref that does not read stale describes what the provider holds, so "the  *)
(* run must never submit against a copy the employee has replaced", whatever  *)
(* failed in between (sync_employees, provider_payload_stale).                *)
FreshRefIsDelivered ==
    \A e \in Employee :
        ref[e] # NoRef =>
            /\ people[ref[e].id].emp = e
            /\ ref[e].fp = vault[e] => people[ref[e].id].version = vault[e]

(* The books show what the provider paid: a processed run's facts add up, to  *)
(* the cent, to its payroll's gross and its submitted hours, however the      *)
(* cards moved since; a hotel nobody worked at carries none of it.            *)
BooksMatchPayroll ==
    \A p \in Period :
        run[p].status = "processed" =>
            LET paid == payrolls[run[p].remote]
            IN  /\ Sum(facts[p].gross) = Sum(paid.gross)
                /\ Sum(facts[p].hours) =
                     Sum([e \in Paid(p) |-> paid.entries[e].worked + paid.entries[e].sick])
                /\ \A h \in Hotel : facts[p].hours[h] = 0 => facts[p].gross[h] = 0
=============================================================================
