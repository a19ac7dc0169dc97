---------------------------- MODULE GlPostingTx ----------------------------
(***************************************************************************)
(* post_and_record as the SQL statements of a transaction.  Sessions run   *)
(* at PostgreSQL's default READ COMMITTED (db.py sets no level): each read *)
(* sees what was committed when it ran, nothing is locked by reading, and  *)
(* the writes become visible together at commit.  A write to a ledger row  *)
(* another transaction wrote waits for that one to end, so the commit step *)
(* meets the row as the last committed transaction left it:                *)
(*   - INSERT of a row that exists now: IntegrityError, rolled back;       *)
(*   - UPDATE of a row that is gone: StaleDataError, rolled back;          *)
(*   - UPDATE of a row someone else updated: overwrites it;                *)
(*   - DELETE of a row that is gone: a warning, the transaction commits.   *)
(* The other operations of GlPosting stay one step each and may fall       *)
(* between any two statements of a posting.                                *)
(***************************************************************************)
EXTENDS GlPosting

CONSTANTS Worker,     \* sessions that post: HTTP requests, the CLI, ingestion
          MaxRow      \* bound: ledger rows inserted per grain

ASSUME MaxRowAssumption == MaxRow \in Nat

VARIABLES rowId,    \* posting_ledger_id of each grain's row; 0 if it has none
          lastId,   \* the id sequence
          tx        \* each worker's transaction

txVars == <<facts, ledger, journal, closed, calendar, chart, rowId, lastId, tx>>

Idle == [pc |-> "idle"]

TxInit ==
    /\ Init
    /\ rowId = [g \in Grain |-> 0]
    /\ lastId = [g \in Grain |-> 0]
    /\ tx = [w \in Worker |-> Idle]

(* own is <<c>> when the transaction itself promoted facts that make the   *)
(* grain's content c (ingestion, approval, reopen: only labor empties), and *)
(* <<>> when it only posts (gl-post, POST /api/gl/post).                    *)
Begin(w, g, own) ==
    /\ tx[w] = Idle
    /\ own = <<NoFacts>> => g.source = "payroll_accrual"
    /\ tx' = [tx EXCEPT ![w] = [pc |-> "row", grain |-> g, own |-> own]]
    /\ UNCHANGED <<vars, rowId, lastId>>

(* has_active_chart and the SELECT of the ledger row. *)
ReadRow(w) ==
    /\ tx[w].pc = "row"
    /\ LET t == tx[w]
       IN  tx' = [tx EXCEPT ![w] =
                    [pc |-> "plan", grain |-> t.grain, own |-> t.own, on |-> has_active_chart,
                     row |-> ledger[t.grain], id |-> rowId[t.grain]]]
    /\ UNCHANGED <<vars, rowId, lastId>>

(* The calendar and build_plan: committed facts under the transaction's own. *)
ReadPlan(w) ==
    /\ tx[w].pc = "plan"
    /\ LET t == tx[w]
           g == t.grain
           f == IF t.own # <<>> THEN t.own[1] ELSE facts[g]
       IN  tx' = [tx EXCEPT ![w] =
                    [pc |-> "period", grain |-> g, own |-> t.own, on |-> t.on,
                     row |-> t.row, id |-> t.id, configured |-> Configured(g), plan |-> f,
                     seen |-> facts[g], builds |-> f # NoFacts /\ Buildable(f)]]
    /\ UNCHANGED <<vars, rowId, lastId>>

(* period_state. *)
ReadPeriod(w) ==
    /\ tx[w].pc = "period"
    /\ LET t == tx[w]
           shut == Configured(t.grain) /\ PeriodClosed(t.grain)
       IN  tx' = [tx EXCEPT ![w] =
                    [pc |-> "commit", grain |-> t.grain, own |-> t.own, row |-> t.row,
                     id |-> t.id, plan |-> t.plan, seen |-> t.seen,
                     outcome |-> Decide(t.on, t.row, t.configured, t.plan, t.builds, shut)]]
    /\ UNCHANGED <<vars, rowId, lastId>>

(* The ORM flushes a row whose columns changed; _fail always moves posted_at. *)
WritesRow(t) == t.outcome = "failed" \/ RowAfter(t.outcome, t.row, t.plan, 0) # t.row

Inserts(t) == t.id = 0 /\ WritesRow(t)
Deletes(t) == t.outcome = "reversed"
Updates(t) == t.id # 0 /\ WritesRow(t) /\ ~Deletes(t)

(* Faulty: an UPDATE that matches no row passes unnoticed. *)
Conflicts_LostRowUnnoticed(t) == Inserts(t) /\ rowId[t.grain] # 0

(* IntegrityError on the unique constraint, StaleDataError on a lost row. *)
Conflicts(t) ==
    \/ Inserts(t) /\ rowId[t.grain] # 0
    \/ Updates(t) /\ rowId[t.grain] # t.id

(* UPDATE sets only the columns that differ from what the session loaded. *)
Merge(current, loaded, new) ==
    [col \in DOMAIN new |-> IF new[col] # loaded[col] THEN new[col] ELSE current[col]]

(* Facts of the grain committed by someone else since they were read mix    *)
(* with the transaction's own into some other content.                      *)
FactsAfter(t) ==
    IF t.own = <<>> THEN {facts[t.grain]}
    ELSE IF facts[t.grain] = t.seen THEN {t.plan} ELSE Content

Commit(w) ==
    /\ tx[w].pc = "commit"
    /\ ~Conflicts(tx[w])
    /\ LET t == tx[w]
           g == t.grain
           J == journal[g] \o Appended(g, t.outcome, t.row, t.plan)
           new == RowAfter(t.outcome, t.row, t.plan, Len(J))
       IN  /\ Len(J) <= MaxJournal
           /\ Inserts(t) => lastId[g] < MaxRow
           /\ journal' = [journal EXCEPT ![g] = J]
           /\ \E c \in FactsAfter(t) : facts' = [facts EXCEPT ![g] = c]
           /\ lastId' = [lastId EXCEPT ![g] = IF Inserts(t) THEN @ + 1 ELSE @]
           /\ rowId' = [rowId EXCEPT ![g] =
                          IF Inserts(t) THEN lastId[g] + 1
                          ELSE IF Deletes(t) /\ @ = t.id THEN 0 ELSE @]
           /\ ledger' = [ledger EXCEPT ![g] =
                           IF Inserts(t) THEN new
                           ELSE IF Updates(t) THEN Merge(@, t.row, new)
                           ELSE IF Deletes(t) /\ rowId[g] = t.id THEN NoRow ELSE @]
    /\ tx' = [tx EXCEPT ![w] = Idle]
    /\ UNCHANGED <<closed, calendar, chart>>

(* A refused flush, a crash or a lost connection before the commit. *)
Rollback(w) ==
    /\ tx[w] # Idle
    /\ tx' = [tx EXCEPT ![w] = Idle]
    /\ UNCHANGED <<vars, rowId, lastId>>

(* Operations of other requests that post nothing. *)
Elsewhere ==
    /\ \/ \E g \in Grain, c \in Content : transform(g, c)
       \/ \E p \in Property, k \in PeriodKey : close_period(p, k) \/ reopen_period(p, k)
       \/ \E p \in Property, c \in Calendar : set_fiscal_calendar(p, c)
       \/ seed_chart
    /\ UNCHANGED <<rowId, lastId, tx>>

TxNext ==
    \/ \E w \in Worker :
         \/ \E g \in Grain : \E own \in {<<>>} \cup {<<c>> : c \in Content \cup {NoFacts}} :
               Begin(w, g, own)
         \/ ReadRow(w) \/ ReadPlan(w) \/ ReadPeriod(w) \/ Commit(w) \/ Rollback(w)
    \/ Elsewhere

TxSpec == TxInit /\ [][TxNext]_txVars

-----------------------------------------------------------------------------
(* Properties *)

(* ClosedPeriodFrozen of GlPosting fails here: a close may commit between   *)
(* period_state and the commit.  So does OneStandingEntry: two sessions that *)
(* loaded the same row both post.                                            *)

(* The two constraints of gl_posting_ledger, kept by every interleaving: a  *)
(* row is posted exactly when it names an entry, and that entry exists, is  *)
(* an original, and has the hash the row records.                           *)
RowNamesItsEntry ==
    \A g \in Grain :
        /\ (ledger[g].status = "posted") <=> HasEntry(g)
        /\ HasEntry(g) => /\ ledger[g].entry \in Originals(g)
                          /\ journal[g][ledger[g].entry].content = ledger[g].hash
        /\ rowId[g] = 0 <=> ledger[g].status = "absent"
=============================================================================
