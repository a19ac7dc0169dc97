----------------------------- MODULE GlPosting -----------------------------
(***************************************************************************)
(* The GL posting engine (usali/gl_posting.py) with the operations that    *)
(* drive it: PMS ingestion, labor promotion and demotion, the explicit     *)
(* gl-post / POST /api/gl/post loops, period close and reopen, the fiscal  *)
(* calendar and the chart of accounts.  Every operation is one transaction *)
(* here; GlPostingTx splits the posting into its SQL statements.           *)
(*                                                                         *)
(* Data abstraction.  A grain is (property, business date, source).  What  *)
(* its facts would post is one member of Content: two plans have the same  *)
(* member iff _finish_plan gives them the same hash, so the member stands  *)
(* for the sorted lines AND for the hash.  Entry ids are positions in the  *)
(* grain's own journal; 0 is SQL NULL.                                     *)
(***************************************************************************)
EXTENDS Integers, Sequences, FiniteSets

CONSTANTS Property, Date, Source,
          Content,       \* line sets a plan can carry
          NoFacts,       \* build_plan returned None
          Unmapped,      \* contents with a fact whose gl_account_code is NULL
          Account,       \* account codes of the chart template
          RoleAccount,   \* template accounts that carry a system_role
          Needs,         \* accounts that the lines of a content post to
          Calendar,      \* fiscal calendar configurations
          NoCalendar,
          PeriodKey,
          KeyOf,         \* KeyOf[cal][day]: period_containing(cal, day)
          MaxJournal     \* bound: journal entries per grain

ASSUME GlConstants ==
    /\ Date \subseteq Nat
    /\ Source \subseteq {"pms_daily", "payroll_accrual"}
    /\ NoFacts \notin Content
    /\ Unmapped \subseteq Content
    /\ RoleAccount \subseteq Account
    /\ Needs \in [Content -> SUBSET Account]
    /\ NoCalendar \notin Calendar
    /\ KeyOf \in [Calendar -> [Date -> PeriodKey]]
    /\ MaxJournal \in Nat

VARIABLES
    facts,      \* what build_plan derives from the fact tables, per grain
    ledger,     \* gl_posting_ledger: the row of each grain
    journal,    \* journal_entry + journal_line, per grain, append-only
    closed,     \* (property, period key) pairs whose last event is "close"
    calendar,   \* fiscal_calendar, per property
    chart       \* gl_account, per code

vars == <<facts, ledger, journal, closed, calendar, chart>>

Grain == [property : Property, date : Date, source : Source]

RowStatus == {"absent", "posted", "failed"}

NoRow == [status |-> "absent", entry |-> 0, hash |-> NoFacts, refused |-> FALSE]

Row == [status : RowStatus, entry : Nat, hash : Content \cup {NoFacts}, refused : BOOLEAN]

Entry == [content : Content, reversal_of : Nat]

(* "role" is an active account that carries its system_role. *)
AccountState == {"absent", "active", "inactive", "role"}

TypeOK ==
    /\ facts \in [Grain -> Content \cup {NoFacts}]
    /\ ledger \in [Grain -> Row]
    /\ journal \in [Grain -> Seq(Entry)]
    /\ closed \subseteq Property \X PeriodKey
    /\ calendar \in [Property -> Calendar \cup {NoCalendar}]
    /\ chart \in [Account -> AccountState]

-----------------------------------------------------------------------------
(* Reads *)

has_active_chart == \E a \in Account : chart[a] \in {"active", "role"}

(* A plan needs every account active, and a structural account found by role. *)
Buildable(c) ==
    /\ c \notin Unmapped
    /\ \A a \in Needs[c] :
          IF a \in RoleAccount THEN chart[a] = "role" ELSE chart[a] \in {"active", "role"}

PeriodOf(g) == <<g.property, KeyOf[calendar[g.property]][g.date]>>

PeriodClosed(g) == PeriodOf(g) \in closed

HasEntry(g) == ledger[g].entry # 0

(* Faulty variants of the next definitions; a run of each must fail. *)
Decide_NoHashCheck(on, row, configured, f, builds, shut) ==
    IF ~on THEN "skipped"
    ELSE IF ~configured THEN "failed"
    ELSE IF f = NoFacts
         THEN IF row.entry = 0 THEN "skipped" ELSE IF shut THEN "failed" ELSE "reversed"
    ELSE IF ~builds \/ shut THEN "failed"
    ELSE IF row.entry # 0 THEN "reposted" ELSE "posted"

Decide_EmptiedIgnoresClose(on, row, configured, f, builds, shut) ==
    IF ~on THEN "skipped"
    ELSE IF ~configured THEN "failed"
    ELSE IF f = NoFacts THEN IF row.entry = 0 THEN "skipped" ELSE "reversed"
    ELSE IF ~builds THEN "failed"
    ELSE IF row.entry # 0 /\ row.hash = f THEN "noop"
    ELSE IF shut THEN "failed"
    ELSE IF row.entry # 0 THEN "reposted" ELSE "posted"

(* The decision of post_and_record from what its statements read: whether  *)
(* the chart is on, the ledger row, the calendar, the facts and whether    *)
(* they build, and the state of the period.                                *)
Decide(on, row, configured, f, builds, shut) ==
    IF ~on THEN "skipped"
    ELSE IF ~configured THEN "failed"
    ELSE IF f = NoFacts
         THEN IF row.entry = 0 THEN "skipped" ELSE IF shut THEN "failed" ELSE "reversed"
    ELSE IF ~builds THEN "failed"
    ELSE IF row.entry # 0 /\ row.hash = f THEN "noop"
    ELSE IF shut THEN "failed"
    ELSE IF row.entry # 0 THEN "reposted" ELSE "posted"

Configured(g) == calendar[g.property] # NoCalendar

Outcome(g, f) ==
    Decide(has_active_chart, ledger[g], Configured(g), f,
           f # NoFacts /\ Buildable(f), Configured(g) /\ PeriodClosed(g))

(* _write_entry: an original, or the flipped lines of the row's entry. *)
Original(f) == [content |-> f, reversal_of |-> 0]

Reversal(g, row) == [content |-> journal[g][row.entry].content, reversal_of |-> row.entry]

(* Faulty: the correction is written and the old entry left standing. *)
Appended_NoReversal(g, o, row, f) ==
    IF o \in {"posted", "reposted"} THEN <<Original(f)>>
    ELSE IF o = "reversed" THEN <<Reversal(g, row)>> ELSE <<>>

(* Faulty: the corrected entry goes in ahead of the reversal. *)
Appended_Swapped(g, o, row, f) ==
    IF o = "posted" THEN <<Original(f)>>
    ELSE IF o = "reposted" THEN <<Original(f), Reversal(g, row)>>
    ELSE IF o = "reversed" THEN <<Reversal(g, row)>> ELSE <<>>

Appended(g, o, row, f) ==
    IF o = "posted" THEN <<Original(f)>>
    ELSE IF o = "reposted" THEN <<Reversal(g, row), Original(f)>>
    ELSE IF o = "reversed" THEN <<Reversal(g, row)>>
    ELSE <<>>

PostedRow(f, n) == [status |-> "posted", entry |-> n, hash |-> f, refused |-> FALSE]

(* Faulty: a status the table's CHECK does not know. *)
FailedRow_OtherStatus(row) ==
    [status |-> IF row.entry # 0 THEN row.status ELSE "refused",
     entry |-> row.entry, hash |-> row.hash, refused |-> TRUE]

(* Faulty: a refusal forgets the entry that stands. *)
FailedRow_DropsEntry(row) ==
    [status |-> "failed", entry |-> 0, hash |-> NoFacts, refused |-> TRUE]

(* _fail keeps a standing entry's status and only records the refusal. *)
FailedRow(row) ==
    [status |-> IF row.entry # 0 THEN row.status ELSE "failed",
     entry |-> row.entry, hash |-> row.hash, refused |-> TRUE]

ClearedRow(row) ==
    [status |-> row.status, entry |-> row.entry, hash |-> row.hash, refused |-> FALSE]

(* Faulty: the emptied grain keeps its ledger row. *)
RowAfter_ReversedKeepsRow(o, row, f, n) ==
    IF o \in {"posted", "reposted"} THEN PostedRow(f, n)
    ELSE IF o = "noop" THEN ClearedRow(row)
    ELSE IF o = "failed" THEN FailedRow(row)
    ELSE row

(* n is the number of the last entry written. *)
RowAfter(o, row, f, n) ==
    IF o \in {"posted", "reposted"} THEN PostedRow(f, n)
    ELSE IF o = "reversed" THEN NoRow
    ELSE IF o = "noop" THEN ClearedRow(row)
    ELSE IF o = "failed" THEN FailedRow(row)
    ELSE row

JournalAfter(g, f) == journal[g] \o Appended(g, Outcome(g, f), ledger[g], f)

(* post_and_record over the grains R of one transaction, reading facts f. *)
post_and_record(R, f) ==
    /\ \A g \in R : Len(journal[g]) + 2 <= MaxJournal
    /\ journal' = [g \in Grain |-> IF g \in R THEN JournalAfter(g, f[g]) ELSE journal[g]]
    /\ ledger' = [g \in Grain |->
                    IF g \in R
                    THEN RowAfter(Outcome(g, f[g]), ledger[g], f[g], Len(JournalAfter(g, f[g])))
                    ELSE ledger[g]]

-----------------------------------------------------------------------------
Init ==
    /\ facts = [g \in Grain |-> NoFacts]
    /\ ledger = [g \in Grain |-> NoRow]
    /\ journal = [g \in Grain |-> <<>>]
    /\ closed = {}
    /\ calendar = [p \in Property |-> NoCalendar]
    /\ chart = [a \in Account |-> "absent"]

(* _process_section: the promoted facts and their posting commit together; *)
(* a statistics or segment report posts too, over facts it left alone.     *)
process_section(g, c) ==
    /\ g.source = "pms_daily"
    /\ facts' = [facts EXCEPT ![g] = c]
    /\ post_and_record({g}, facts')
    /\ UNCHANGED <<closed, calendar, chart>>

(* The `transform` command promotes staged rows and posts nothing. *)
transform(g, c) ==
    /\ g.source = "pms_daily"
    /\ facts' = [facts EXCEPT ![g] = c]
    /\ UNCHANGED <<ledger, journal, closed, calendar, chart>>

(* approve / promote-labor: promote_timecard rewrites the facts of the     *)
(* grains D; the hook posts the grains W it wrote, not the ones it left.   *)
promote_timecard(D, W, c) ==
    /\ \A g \in W : c[g] # NoFacts
    /\ facts' = [g \in Grain |-> IF g \in D THEN c[g] ELSE facts[g]]
    /\ post_and_record(W, facts')
    /\ UNCHANGED <<closed, calendar, chart>>

(* reopen: demote_timecard deletes the card's facts, and every grain they  *)
(* covered is posted again over what other cards leave there.              *)
demote_timecard(D, c) ==
    /\ facts' = [g \in Grain |-> IF g \in D THEN c[g] ELSE facts[g]]
    /\ post_and_record(D, facts')
    /\ UNCHANGED <<closed, calendar, chart>>

InRange(p, from, to) == {g \in Grain : g.property = p /\ g.date \in from..to}

(* The gl-post command: every date of the range, both sources, one commit. *)
gl_post(p, from, to) ==
    /\ post_and_record(InRange(p, from, to), facts)
    /\ UNCHANGED <<facts, closed, calendar, chart>>

(* POST /api/gl/post: the same loop behind the calendar gate. *)
post_range(p, from, to) ==
    /\ calendar[p] # NoCalendar
    /\ from <= to
    /\ gl_post(p, from, to)

close_period(p, k) ==
    /\ calendar[p] # NoCalendar
    /\ closed' = closed \cup {<<p, k>>}
    /\ UNCHANGED <<facts, ledger, journal, calendar, chart>>

reopen_period(p, k) ==
    /\ closed' = closed \ {<<p, k>>}
    /\ UNCHANGED <<facts, ledger, journal, calendar, chart>>

set_fiscal_calendar(p, c) ==
    /\ calendar' = [calendar EXCEPT ![p] = c]
    /\ UNCHANGED <<facts, ledger, journal, closed, chart>>

(* Insert-only: rows that exist, inactive ones too, are left as they are. *)
seed_chart ==
    /\ chart' = [a \in Account |->
                   IF chart[a] # "absent" THEN chart[a]
                   ELSE IF a \in RoleAccount THEN "role" ELSE "active"]
    /\ UNCHANGED <<facts, ledger, journal, closed, calendar>>

put_account(a, is_active) ==
    /\ chart[a] = "role" => is_active
    /\ chart' = [chart EXCEPT ![a] = IF @ = "role" THEN "role"
                                     ELSE IF is_active THEN "active" ELSE "inactive"]
    /\ UNCHANGED <<facts, ledger, journal, closed, calendar>>

PayrollGrain == {g \in Grain : g.source = "payroll_accrual"}

Next ==
    \/ \E g \in Grain :
         \/ \E c \in Content \cup {facts[g]} : process_section(g, c)
         \/ \E c \in Content : transform(g, c)
    \/ \E D \in SUBSET PayrollGrain :
         \E c \in [D -> Content \cup {NoFacts}] :
            \/ demote_timecard(D, c)
            \/ \E W \in SUBSET D : promote_timecard(D, W, c)
    \/ \E p \in Property, from, to \in Date : gl_post(p, from, to) \/ post_range(p, from, to)
    \/ \E p \in Property, k \in PeriodKey : close_period(p, k) \/ reopen_period(p, k)
    \/ \E p \in Property, c \in Calendar : set_fiscal_calendar(p, c)
    \/ seed_chart
    \/ \E a \in Account, b \in BOOLEAN : put_account(a, b)

Spec == Init /\ [][Next]_vars

-----------------------------------------------------------------------------
(* Properties *)

Originals(g) == {i \in DOMAIN journal[g] : journal[g][i].reversal_of = 0}

Reversals(g) == DOMAIN journal[g] \ Originals(g)

(* A reversal flips an earlier original of its grain, line for line, and no  *)
(* entry is reversed twice (the reversal branches of post_and_record, which  *)
(* take the entry to reverse from the ledger row).                           *)
ReversalsPair ==
    \A g \in Grain :
        /\ \A i \in Reversals(g) :
              LET o == journal[g][i].reversal_of
              IN  /\ o \in Originals(g)
                  /\ o < i
                  /\ journal[g][o].content = journal[g][i].content
        /\ \A i, j \in Reversals(g) :
              journal[g][i].reversal_of = journal[g][j].reversal_of => i = j

(* The ledger row names the one original no reversal has undone, if there is *)
(* one, and its hash is that entry's (gl_posting_ledger.entry_id is "the     *)
(* CURRENT entry for that grain").                                           *)
OneStandingEntry ==
    \A g \in Grain :
        /\ {i \in Originals(g) : \A j \in Reversals(g) : journal[g][j].reversal_of # i}
             = IF HasEntry(g) THEN {ledger[g].entry} ELSE {}
        /\ HasEntry(g) <=> ledger[g].status = "posted"
        /\ ledger[g].hash = IF HasEntry(g) THEN journal[g][ledger[g].entry].content
                                          ELSE NoFacts

(* What the trial balance sums: originals less reversals, per content. *)
Net(g, c) ==
    Cardinality({i \in Originals(g) : journal[g][i].content = c})
      - Cardinality({i \in Reversals(g) : journal[g][i].content = c})

(* However often a grain was posted, re-posted and reversed, its journal     *)
(* nets to the current entry exactly once, or to nothing: no amount of the   *)
(* trial balance is doubled or left behind.                                  *)
BooksNetToCurrent ==
    \A g \in Grain, c \in Content :
        Net(g, c) = IF HasEntry(g) /\ journal[g][ledger[g].entry].content = c THEN 1 ELSE 0

(* While a period stays closed under an unchanged calendar, no operation     *)
(* moves the journal of a date inside it: not ingestion, not an approval, a  *)
(* reopened card or a backfill (PeriodClosedError and the plan-is-None arm). *)
ClosedPeriodFrozen ==
    [][\A g \in Grain :
         (/\ calendar[g.property] # NoCalendar
          /\ PeriodClosed(g)
          /\ PeriodOf(g) \in closed'
          /\ calendar'[g.property] = calendar[g.property])
            => journal'[g] = journal[g]]_vars

(* Entries are written only to bring the books from something else to what   *)
(* the facts say: a re-run over unchanged facts appends nothing.             *)
PostingConverges ==
    [][\A g \in Grain :
         journal'[g] # journal[g] =>
            ledger'[g].hash = facts'[g] /\ ledger[g].hash # facts'[g]]_vars

(* The engine keeps the journal's promise: see Books.                        *)
B == INSTANCE Books WITH Nothing <- NoFacts, book <- journal,
                         standing <- [g \in Grain |-> ledger[g].entry]

(* Every operation leaves the books alone or corrects some grains of them,   *)
(* each in one step: no reader ever sees a reversal without its correction.  *)
KeepsBooks == B!BooksSpec

=============================================================================
