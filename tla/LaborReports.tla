---------------------------- MODULE LaborReports ----------------------------
(***************************************************************************)
(* Labor in the statements (usali/reporting.py, and labor_productivity of  *)
(* performance.py): hours and cost by department over any window, what is  *)
(* withheld so that no figure is one person's pay, and the variance of the *)
(* estimates to the processed pay runs.  Facts are promoted and retracted, *)
(* sick days taken and pay runs processed in any order.  A fact is one     *)
(* hour, priced or not; a cost is the set of the facts it sums.            *)
(***************************************************************************)
EXTENDS Integers, FiniteSets, FiniteSetsExt

CONSTANTS Staff, Division,   \* employees and departments
          LastShift,         \* bound: days
          MaxEntry           \* bound: facts, sick days and runs

VARIABLES labor,    \* usali_labor_fact: who, where, when, est_cost > 0
          sick,     \* sick_days_taken: who, where, when, a rate resolved
          payruns   \* processed pay runs: period, and who was paid where
lrVars == <<labor, sick, payruns>>

ShiftDays == 1..LastShift
Entries == Cardinality(labor) + Cardinality(sick) + Cardinality(payruns)

LrInit == labor = {} /\ sick = {} /\ payruns = {}

(* promote_timecard: one fact of a person and day in a department. *)
PromoteFact(e, u, d, priced) ==
    /\ Entries < MaxEntry
    /\ ~\E f \in labor : f.who = e /\ f.at = u /\ f.on = d
    /\ labor' = labor \cup {[who |-> e, at |-> u, on |-> d, priced |-> priced]}
    /\ UNCHANGED <<sick, payruns>>

RetractFact(f) ==
    /\ labor' = labor \ {f}
    /\ UNCHANGED <<sick, payruns>>

TakeSickDay(e, u, d, priced) ==
    /\ Entries < MaxEntry
    /\ ~\E s \in sick : s.who = e /\ s.on = d
    /\ sick' = sick \cup {[who |-> e, at |-> u, on |-> d, priced |-> priced]}
    /\ UNCHANGED <<labor, payruns>>

VoidSickDay(s) ==
    /\ sick' = sick \ {s}
    /\ UNCHANGED <<labor, payruns>>

(* The lines of a run snapshot who was paid, and where. *)
ProcessRun(from, to) ==
    /\ Entries < MaxEntry
    /\ from <= to
    /\ \A r \in payruns : r.from # from
    /\ payruns' = payruns \cup
          {[from |-> from, to |-> to,
            paid |-> {<<f.at, f.who>> : f \in {x \in labor \cup sick : x.on \in from..to /\ x.priced}}]}
    /\ UNCHANGED <<labor, sick>>

LrNext ==
    \/ \E e \in Staff, u \in Division, d \in ShiftDays, priced \in BOOLEAN :
          PromoteFact(e, u, d, priced) \/ TakeSickDay(e, u, d, priced)
    \/ \E f \in labor : RetractFact(f)
    \/ \E s \in sick : VoidSickDay(s)
    \/ \E from, to \in ShiftDays : ProcessRun(from, to)

LrSpec == LrInit /\ [][LrNext]_lrVars

-----------------------------------------------------------------------------
(* What may be shown *)

(* Faulty: two people somewhere in the window. *)
_discloses_WholeWindow(people) == Cardinality(UNION {people[x] : x \in DOMAIN people}) >= 2

(* Every unit that carries money has two people; none is not enough. *)
_discloses(people) ==
    DOMAIN people # {} /\ \A x \in DOMAIN people : Cardinality(people[x]) >= 2

(* The priced people of a department, by the days that have any. *)
ByDay(rows, u) ==
    LET money == {f \in rows : f.at = u /\ f.priced}
    IN  [d \in {f.on : f \in money} |-> {f.who : f \in {x \in money : x.on = d}}]

Within(rows, start, end) == {f \in rows : f.on \in start..end}
Shown(rows) == [shown |-> TRUE, sum |-> rows]
Hidden == [shown |-> FALSE, sum |-> {}]

(* A column of departments: the rows a shown figure sums. *)
Column(rows) ==
    [u \in {f.at : f \in rows} |->
        IF _discloses(ByDay(rows, u)) THEN Shown({f \in rows : f.at = u /\ f.priced}) ELSE Hidden]

ColumnTotal(column) == UNION {column[u].sum : u \in DOMAIN column}

_labor_sections(start, end) ==
    LET rows == Within(labor, start, end)
        column == Column(rows)
    IN  [lines |-> column,
         hours |-> Cardinality(rows),
         cost |-> ColumnTotal(column),
         suppressed |-> Cardinality({u \in DOMAIN column : ~column[u].shown}),
         unpriced |-> Cardinality({f \in rows : ~f.priced})]

_sick_pay(start, end) == Column(Within(sick, start, end))

-----------------------------------------------------------------------------
(* Per day *)

DayWithheld(d) == _labor_sections(d, d).suppressed > 0

labor_productivity(start, end) ==
    [hours |-> Cardinality(UNION {Within(labor, d, d) : d \in start..end}),
     cost |-> IF \E d \in start..end : DayWithheld(d) THEN Hidden
              ELSE Shown(UNION {_labor_sections(d, d).cost : d \in start..end})]

labor_analytics(start, end) ==
    [days |-> [d \in start..end |-> _labor_sections(d, d)], window |-> _labor_sections(start, end)]

-----------------------------------------------------------------------------
(* Estimates against pay runs *)

RunsIn(start, end) == {r \in payruns : r.from <= end /\ start <= r.to}

(* The facts of the runs' full periods, each once. *)
Covered(rows, runs) == {f \in rows : \E r \in runs : f.on \in r.from..r.to}

(* Worked and sick money of a department, hidden when either part is. *)
EstimateOf(runs, u) ==
    LET worked == {f \in Covered(labor, runs) : f.at = u /\ f.priced}
        away == {f \in Covered(sick, runs) : f.at = u /\ f.priced}
        hides(rows) == rows # {} /\ ~_discloses(ByDay(rows, u))
    IN  IF hides(worked) \/ hides(away) THEN Hidden
        ELSE Shown({<<"worked", f>> : f \in worked} \cup {<<"sick", f>> : f \in away})

(* Gross of a department, the unit a pay run. *)
ActualOf(runs, u) ==
    LET people == [r \in {x \in runs : \E p \in x.paid : p[1] = u} |->
                      {p[2] : p \in {q \in r.paid : q[1] = u}}]
    IN  IF DOMAIN people # {} /\ ~_discloses(people) THEN Hidden
        ELSE Shown({[run |-> r, who |-> people[r]] : r \in DOMAIN people})

_labor_variance(start, end) ==
    LET runs == RunsIn(start, end)
    IN  [u \in Division |->
            LET est == EstimateOf(runs, u)
                actual == ActualOf(runs, u)
            IN  [est |-> est, actual |-> actual, shown |-> est.shown /\ actual.shown]]

-----------------------------------------------------------------------------
(* Properties *)

Spans == {w \in ShiftDays \X ShiftDays : w[1] <= w[2]}
Alone(rows) == Cardinality({f.who : f \in rows}) = 1

(* No two answers differ by one person's pay: whichever windows a caller    *)
(* asks for, where a department's cost is shown for both and one sums more  *)
(* than the other, the difference is of at least two people; so for labor,  *)
(* for sick pay, and for the estimates of the variance, whose windows pull  *)
(* in whole pay runs, and for the gross of the runs themselves (the         *)
(* per-unit rule of _discloses).                                            *)
DifferencesAreOfTwo ==
    LET section == [w \in Spans |-> _labor_sections(w[1], w[2]).lines]
        ill == [w \in Spans |-> _sick_pay(w[1], w[2])]
        variance == [w \in Spans |-> _labor_variance(w[1], w[2])]
        solo(a, b) == a.shown /\ b.shown /\ a.sum \subseteq b.sum /\ Alone(b.sum \ a.sum)
        both(f, a, b) == DOMAIN f[a] \cap DOMAIN f[b]
        work(c) == [c EXCEPT !.sum = {t[2] : t \in c.sum}]
    IN  \A a, b \in Spans :
            /\ \A u \in both(section, a, b) : ~solo(section[a][u], section[b][u])
            /\ \A u \in both(ill, a, b) : ~solo(ill[a][u], ill[b][u])
            /\ \A u \in Division :
                  /\ ~solo(work(variance[a][u].est), work(variance[b][u].est))
                  /\ LET x == variance[a][u].actual
                         y == variance[b][u].actual
                     IN  x.shown /\ y.shown => \A t \in y.sum \ x.sum : Cardinality(t.who) > 1

(* The reports tie: hours by day are the hours of the window, withheld or   *)
(* not; a cost per occupied room, where shown, is the payroll expense of    *)
(* the statement of the same window; overlapping pay periods count no fact  *)
(* twice and lose none; a variance never appears beside a withheld operand. *)
LaborReportsTie ==
    \A w \in Spans :
        LET window == _labor_sections(w[1], w[2])
            each == labor_productivity(w[1], w[2])
            daily == labor_analytics(w[1], w[2]).days
            hours == [d \in w[1]..w[2] |-> daily[d].hours]
            variance == _labor_variance(w[1], w[2])
        IN  /\ each.hours = window.hours
            /\ MapThenSumSet(LAMBDA d : hours[d], DOMAIN hours) = window.hours
            /\ each.cost.shown => each.cost.sum = window.cost /\ window.suppressed = 0
            /\ \A u \in Division :
                  variance[u].shown =>
                      {t[2] : t \in variance[u].est.sum} =
                          {f \in labor \cup sick : f.at = u /\ f.priced /\
                              \E r \in payruns : r.from <= w[2] /\ w[1] <= r.to /\ f.on \in r.from..r.to}

(* Two people behind every difference, and one truth behind every report.     *)
LaborReportsHold ==
    <<labor, sick, payruns>> # <<{}, {}, {}>> => DifferencesAreOfTwo /\ LaborReportsTie
=============================================================================
