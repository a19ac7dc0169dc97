---------------------------- MODULE Statements ----------------------------
(***************************************************************************)
(* The statements (usali/reporting.py): the Summary Operating Statement    *)
(* read from the facts and the one whose totals are the journal's, the     *)
(* parity gate between the two, the CPA pack and the trial balance.  Facts *)
(* land in any order and are never edited; a day is posted, and posted     *)
(* again when facts arrived since; the chart is seeded, extended by hand   *)
(* and classified afterwards.  Periods stay open (GlPosting closes them).  *)
(* Amounts are signed, a credit positive; a schedule of 0 is SQL NULL.     *)
(***************************************************************************)
EXTENDS Integers, Sequences, FiniteSets, FiniteSetsExt, Functions

CONSTANTS Posted,       \* bound: business dates
          Code,         \* transaction codes of the dictionaries
          Class,        \* code -> source, schedule, major, sub, line, account
          NoAccount,    \* gl_account_code is NULL
          Clearing,     \* the account with role guest_ledger_clearing
          Extension,    \* accounts an operator may add by hand
          Amount,       \* raw amounts
          MaxFactRows,  \* bound: facts
          MaxPosts      \* bound: journal entries

Accounts == ({Class[c].account : c \in Code} \ {NoAccount}) \cup {Clearing}

ASSUME StatementsConstants ==
    /\ Posted \in Nat /\ IsFiniteSet(Code) /\ Amount \subseteq Int
    /\ Extension \subseteq Accounts /\ Clearing # NoAccount

(* The dictionaries give an account one (schedule, major), as the template
   of the chart repeats it. *)
ASSUME DictionaryInvariant ==
    /\ \A c \in Code : Class[c].account # Clearing
    /\ \A c, k \in Code :
         Class[c].account = Class[k].account /\ Class[c].account # NoAccount
           => Class[c].schedule = Class[k].schedule /\ Class[c].major = Class[k].major

VARIABLES landed,    \* usali_financial_fact: (day, code, amount) -> copies
          measured,  \* days with statistic facts
          posted,    \* journal_entry of source pms_daily, with its lines
          stands,    \* day -> the entry its ledger row names, 0 if none
          accounts,  \* gl_account: "absent", "bare" (NULL classes) or "classed"
          notice     \* the property's source does not back the statement

stVars == <<landed, measured, posted, stands, accounts, notice>>

BookDays == 1..Posted
Spans == {w \in BookDays \X BookDays : w[1] <= w[2]}
FactRow == [day : BookDays, code : Code, amount : Amount]
NoFact == [r \in {} |-> 0]

Added(f) == MapThenSumSet(LAMBDA k : f[k], DOMAIN f)

StInit ==
    /\ landed = NoFact
    /\ measured = {}
    /\ posted = <<>>
    /\ stands = [d \in BookDays |-> 0]
    /\ accounts = [a \in Accounts |-> "absent"]
    /\ notice \in BOOLEAN

-----------------------------------------------------------------------------
(* Facts, and sums over them *)

Copies == Added(landed)

Facts(w) == {r \in DOMAIN landed : w[1] <= r.day /\ r.day <= w[2]}

SumOf(rows) == Added([r \in rows |-> landed[r] * r.amount])

schedule(r) == Class[r.code].schedule
major(r) == Class[r.code].major
account(r) == Class[r.code].account

(* transform: a staged row whose code is mapped becomes a fact.  A source
   with a notice stages statistics only. *)
transform(r) ==
    /\ ~notice
    /\ Copies + Cardinality(measured) < MaxFactRows
    /\ landed' = IF r \in DOMAIN landed THEN [landed EXCEPT ![r] = @ + 1]
                 ELSE [x \in DOMAIN landed \cup {r} |-> IF x = r THEN 1 ELSE landed[x]]
    /\ UNCHANGED <<measured, posted, stands, accounts, notice>>

transform_statistics(d) ==
    /\ Copies + Cardinality(measured) < MaxFactRows
    /\ d \notin measured
    /\ measured' = measured \cup {d}
    /\ UNCHANGED <<landed, posted, stands, accounts, notice>>

-----------------------------------------------------------------------------
(* The chart *)

(* Inserts what is absent and never updates what exists. *)
seed_chart ==
    /\ \E a \in Accounts : accounts[a] = "absent"
    /\ accounts' = [a \in Accounts |-> IF accounts[a] = "absent" THEN "classed" ELSE accounts[a]]
    /\ UNCHANGED <<landed, measured, posted, stands, notice>>

(* Fills NULL classes from the template, and nothing else. *)
fill_usali ==
    /\ \E a \in Accounts : accounts[a] = "bare"
    /\ accounts' = [a \in Accounts |-> IF accounts[a] = "bare" THEN "classed" ELSE accounts[a]]
    /\ UNCHANGED <<landed, measured, posted, stands, notice>>

(* PUT /accounts of a code the chart lacks: no class, no role. *)
put_account(a) ==
    /\ a \in Extension /\ accounts[a] = "absent"
    /\ accounts' = [accounts EXCEPT ![a] = "bare"]
    /\ UNCHANGED <<landed, measured, posted, stands, notice>>

-----------------------------------------------------------------------------
(* Posting a day *)

_group_by_gl(rows) ==
    [a \in {account(r) : r \in rows} |-> SumOf({r \in rows : account(r) = a})]

(* One line per account that moved, and a balancing line. *)
build_pms_daily_plan(d) ==
    LET nets  == _group_by_gl(Facts(<<d, d>>))
        moved == {a \in DOMAIN nets : nets[a] # 0}
        rest  == -Added(nets)
    IN  [a \in moved \cup (IF rest # 0 THEN {Clearing} ELSE {}) |->
           IF a = Clearing THEN rest ELSE nets[a]]

Plannable(d) ==
    /\ \E a \in Accounts : accounts[a] # "absent"
    /\ Facts(<<d, d>>) # {}
    /\ \A r \in Facts(<<d, d>>) : account(r) # NoAccount
    /\ \A a \in DOMAIN build_pms_daily_plan(d) : accounts[a] # "absent"

Flipped_Same(lines) == lines
Flipped(lines) == [a \in DOMAIN lines |-> -lines[a]]

(* The standing entry is undone and the day written afresh. *)
post_and_record(d) ==
    LET plan == build_pms_daily_plan(d)
        news == IF stands[d] = 0 THEN TRUE ELSE posted[stands[d]].lines # plan
        undo == IF stands[d] = 0 THEN <<>>
                ELSE <<[day |-> d, lines |-> Flipped(posted[stands[d]].lines)]>>
    IN  /\ Plannable(d) /\ news
        /\ Len(posted) + Len(undo) < MaxPosts
        /\ posted' = posted \o undo \o <<[day |-> d, lines |-> plan]>>
        /\ stands' = [stands EXCEPT ![d] = Len(posted')]
        /\ UNCHANGED <<landed, measured, accounts, notice>>

StNext ==
    \/ \E r \in FactRow : transform(r)
    \/ \E d \in BookDays : transform_statistics(d) \/ post_and_record(d)
    \/ \E a \in Accounts : put_account(a)
    \/ seed_chart
    \/ fill_usali

StSpec == StInit /\ [][StNext]_stVars

-----------------------------------------------------------------------------
(* The statement of the facts *)

_OPERATED_SCHEDULES == {1, 2, 3}
_MISC_INCOME_SCHEDULE == 4
_ALLOWED_SCHEDULES == _OPERATED_SCHEDULES \cup {_MISC_INCOME_SCHEDULE}

LineOf(r) == [major |-> major(r), sub |-> Class[r.code].sub, line |-> Class[r.code].line]

_grouped_lines(rows) ==
    [k \in {LineOf(r) : r \in rows} |-> SumOf({r \in rows : LineOf(r) = k})]

_dept_sections(lines) ==
    [s \in {k.sub : k \in DOMAIN lines} |->
       Added(Restrict(lines, {k \in DOMAIN lines : k.sub = s}))]

Operated(rows) == {r \in rows : schedule(r) \in _OPERATED_SCHEDULES}
Misc(rows) == {r \in rows : schedule(r) = _MISC_INCOME_SCHEDULE}
Taxes(rows) == {r \in rows : schedule(r) = 0 /\ major(r) = "taxes"}
Settlements(rows) == {r \in rows : schedule(r) = 0 /\ major(r) = "settlements"}
Other(rows) == {r \in rows : schedule(r) = 0 /\ major(r) \notin {"taxes", "settlements"}}

(* Why the code raises, "" when it answers. *)
SosRefusal(w) ==
    LET rows == Facts(w)
    IN  IF rows = {} THEN "no facts"
        ELSE IF Cardinality({Class[r.code].source : r \in rows}) # 1 THEN "sources"
        ELSE IF \E r \in rows : schedule(r) \notin _ALLOWED_SCHEDULES \cup {0} THEN "schedules"
        ELSE ""

summary_operating_statement(w) ==
    LET rows == Facts(w)
    IN  [operated_departments |-> _dept_sections(_grouped_lines(Operated(rows))),
         misc_income_total |-> Added(_grouped_lines(Misc(rows))),
         total_operating_revenue |-> SumOf({r \in rows : schedule(r) # 0}),
         taxes_total |-> Added(_grouped_lines(Taxes(rows))),
         settlements_total |-> Added(_grouped_lines(Settlements(rows))),
         other_total |-> Added(_grouped_lines(Other(rows)))]

(* GET /sos/line/transactions *)
line_transactions(w, k) == {r \in Facts(w) : LineOf(r) = k}

-----------------------------------------------------------------------------
(* The statement of the journal *)

EntriesIn(w) == {i \in DOMAIN posted : w[1] <= posted[i].day /\ posted[i].day <= w[2]}

(* The accounts the entries touch. *)
Touched(ids) == UNION {DOMAIN posted[i].lines : i \in ids}

NetsOver(ids, omitted) ==
    [a \in Touched(ids) \ omitted |->
       Added([i \in {i \in ids : a \in DOMAIN posted[i].lines} |-> posted[i].lines[a]])]

_journal_nets(w) == NetsOver(EntriesIn(w), {Clearing})

(* What the chart says of an account: an unclassified one is unscheduled. *)
chart(a) ==
    LET c == CHOOSE c \in Code : Class[c].account = a
    IN  IF accounts[a] = "classed" THEN [schedule |-> Class[c].schedule, major |-> Class[c].major]
        ELSE [schedule |-> 0, major |-> "unclassified"]

(* Sub-categories the operated facts of a schedule fall under. *)
subs_of(w, s) == {Class[r.code].sub : r \in {r \in Facts(w) : schedule(r) = s}}

JournalRefusal(w) ==
    LET nets == _journal_nets(w)
    IN  IF SosRefusal(w) # "" THEN SosRefusal(w)
        ELSE IF DOMAIN nets = {} THEN "not posted"
        ELSE IF \E a \in DOMAIN nets : chart(a).schedule \notin _ALLOWED_SCHEDULES \cup {0}
             THEN "schedules"
        ELSE IF \E s \in _OPERATED_SCHEDULES : Cardinality(subs_of(w, s)) > 1 THEN "fans out"
        ELSE ""

(* The totals are the journal's; the sections are the facts', each with the
   net of the schedules it holds. *)
summary_operating_statement_from_journal(w) ==
    LET nets == _journal_nets(w)
        Net(S) == Added([a \in S |-> nets[a]])
        scheduled(S) == {a \in DOMAIN nets : chart(a).schedule \in S}
        unscheduled(M) == {a \in DOMAIN nets : chart(a).schedule = 0 /\ chart(a).major \in M}
        section(s) == Net(scheduled({x \in _OPERATED_SCHEDULES : s \in subs_of(w, x)}))
    IN  [operated_departments |->
           [s \in DOMAIN summary_operating_statement(w).operated_departments |-> section(s)],
         misc_income_total |-> Net(scheduled({_MISC_INCOME_SCHEDULE})),
         total_operating_revenue |-> Net(scheduled(_ALLOWED_SCHEDULES)),
         taxes_total |-> Net(unscheduled({"taxes"})),
         settlements_total |-> Net(unscheduled({"settlements"})),
         other_total |-> Net({a \in DOMAIN nets : chart(a).schedule = 0}
                               \ unscheduled({"taxes", "settlements"}))]

(* The accounts on which facts and journal differ; a fact with no account is
   on neither side. *)
sos_journal_parity(w) ==
    LET nets  == _journal_nets(w)
        facts == _group_by_gl({r \in Facts(w) : account(r) # NoAccount})
        at(f, a) == IF a \in DOMAIN f THEN f[a] ELSE 0
    IN  {a \in DOMAIN nets \cup DOMAIN facts : at(nets, a) # at(facts, a)}

-----------------------------------------------------------------------------
(* The statement without a statement, and the property list *)

(* Statistics of the latest day of the window that has any. *)
_statistics(w) == {d \in measured : w[1] <= d /\ d <= w[2] /\ \A x \in measured : x <= w[2] => x <= d}

(* GET /sos *)
sos_answers(w) == IF notice THEN _statistics(w) # {} ELSE JournalRefusal(w) = ""

list_properties ==
    LET days == measured \cup {r.day : r \in DOMAIN landed}
    IN  IF days = {} THEN <<>> ELSE <<Min(days), Max(days)>>

-----------------------------------------------------------------------------
(* The CPA pack, the revenue of a day, and the trial balance *)

_sales_report(rows) ==
    LET scheduled == {r \in rows : schedule(r) # 0}
    IN  [lines |-> _grouped_lines(scheduled), total_operating_revenue |-> SumOf(scheduled)]

_tax_report(rows) ==
    [taxes_total |-> SumOf(Taxes(rows)),
     room_revenue_base |-> SumOf({r \in Operated(rows) : Class[r.code].sub = "rooms"})]

(* An empty month is an empty pack, an unknown property an error. *)
CpaRefused(w) ==
    LET here == {Class[r.code].source : r \in Facts(w)}
        ever == {Class[r.code].source : r \in DOMAIN landed}
    IN  Cardinality(IF here = {} THEN ever ELSE here) # 1

cpa_pack(w) == [sales |-> _sales_report(Facts(w)), taxes |-> _tax_report(Facts(w))]

_revenue_by_day(d) == SumOf({r \in Facts(<<d, d>>) : schedule(r) # 0})

(* The entries behind an account, each with all its lines. *)
journal_entries(w, a) == {i \in EntriesIn(w) : a \in DOMAIN posted[i].lines}

trial_balance(w) ==
    LET side(sign, a) == Added([i \in journal_entries(w, a) |-> Max({0, sign * posted[i].lines[a]})])
        total(sign) == Added([a \in Accounts |-> side(sign, a)])
    IN  [lines |-> [a \in Accounts |-> [debits |-> side(-1, a), credits |-> side(1, a)]],
         total_debits |-> total(-1), total_credits |-> total(1)]

-----------------------------------------------------------------------------
(* Properties *)

Section(report, s) ==
    IF s \in DOMAIN report.operated_departments THEN report.operated_departments[s] ELSE 0

(* The statement, its drill-through, the CPA pack, the daily revenue and the
   property list are five reads of one table.  When the statement answers,
   its parts hold every fact once; its revenue is the sum of the days' and
   of the pack's; the Rooms section is the base the pack taxes; a line is the
   sum of its transactions.  And the window the list offers holds everything
   there is: a property of statistics only opens on its last date. *)
StatementsTie ==
    /\ \A w \in Spans : SosRefusal(w) = "" =>
         LET report == summary_operating_statement(w)
             pack   == cpa_pack(w)
             lines  == _grouped_lines(Facts(w))
         IN  /\ SumOf(Facts(w)) = report.total_operating_revenue + report.taxes_total
                                   + report.settlements_total + report.other_total
             /\ report.total_operating_revenue =
                  Added([d \in w[1]..w[2] |-> _revenue_by_day(d)])
             /\ ~CpaRefused(w)
             /\ pack.sales.total_operating_revenue = report.total_operating_revenue
             /\ pack.taxes.taxes_total = report.taxes_total
             /\ pack.taxes.room_revenue_base = Section(report, "rooms")
             /\ \A k \in DOMAIN lines : SumOf(line_transactions(w, k)) = lines[k]
    /\ list_properties # <<>> =>
         /\ Facts(list_properties) = DOMAIN landed
         /\ notice => sos_answers(<<list_properties[2], list_properties[2]>>)

(* Posting a day puts its facts in the books to the cent, whatever was posted
   before: the trial balance balances, and once every day of a window stands as it
   would be posted now, the gate is green.  A green gate means what the
   cutover note says: over mapped facts and a classified chart the journal's
   statement, where it answers, is the facts' statement, section by section. *)
JournalStatementTies ==
    \A w \in Spans :
      /\ LET books == trial_balance(w)
             nets  == _journal_nets(w)
         IN  /\ books.total_debits = books.total_credits
             /\ \A a \in DOMAIN nets : nets[a] = books.lines[a].credits - books.lines[a].debits
      /\ (\A d \in w[1]..w[2] :
            stands[d] # 0 /\ posted[stands[d]].lines = build_pms_daily_plan(d))
           => sos_journal_parity(w) = {}
      /\ /\ JournalRefusal(w) = ""
         /\ \A r \in Facts(w) : account(r) # NoAccount
         /\ \A a \in DOMAIN _journal_nets(w) : accounts[a] = "classed"
         /\ sos_journal_parity(w) = {}
         => summary_operating_statement_from_journal(w) = summary_operating_statement(w)

(* Both statements tie, each to what it is read from and one to the other. *)
StatementsHold == StatementsTie /\ JournalStatementTies
=============================================================================
