------------------------------ MODULE QboPush ------------------------------
(***************************************************************************)
(* The QuickBooks export (usali/qbo_push.py): push_day and push_month over *)
(* the push ledger, one database session per run, against a QBO that       *)
(* replays a known requestid.  Statements of two sessions interleave; the  *)
(* plan a day would push changes at any moment (ingestion, a GL posting, a *)
(* chart edit); a POST may be rejected, lost on either leg, or answered    *)
(* with a body that does not parse.                                        *)
(*                                                                         *)
(* Data abstraction.  A content stands for a plan's lines, for its         *)
(* request_hash, for the requestid cut from it, and for the id QBO gives   *)
(* the entry: QBO keeps at most one entry per requestid.                   *)
(***************************************************************************)
EXTENDS Naturals, FiniteSets, Handlers

CONSTANTS Day,        \* business dates of one property, in one month
          Content,    \* plans a day can have
          NoPlan,     \* no facts (NoFactsError), or no id / hash at all
          Unbuildable,\* contents that cannot be built (UnmappedGlError, ValueError)
          Worker,     \* sessions that push: portal requests and the CLI
          MaxLost     \* bound: answers lost after QBO booked the entry

ASSUME QboConstants ==
    /\ NoPlan \notin Content
    /\ Unbuildable \subseteq Content
    /\ Day \subseteq Nat
    /\ MaxLost \in Nat

VARIABLES content,  \* what the facts of a day would post
          entry,    \* content of the day's current GL entry, NoPlan if none
          chartOn,  \* the org has an active chart
          row,      \* qbo_push_ledger
          qbo,      \* contents booked in QuickBooks, per day
          orphan,   \* contents booked whose answer never reached a commit
          pusher,   \* each worker's session
          raced     \* days a session wrote after another had changed the row it read

qpVars == <<content, entry, chartOn, row, qbo, orphan, pusher, raced>>

NoRow == [status |-> "absent", hash |-> NoPlan, je |-> NoPlan]

Row == [status : {"absent", "pushed", "failed", "stale"},
        hash : Content \cup {NoPlan}, je : Content \cup {NoPlan}]

QpInit ==
    /\ content = [d \in Day |-> NoPlan]
    /\ entry = [d \in Day |-> NoPlan]
    /\ chartOn \in BOOLEAN
    /\ row = [d \in Day |-> NoRow]
    /\ qbo = [d \in Day |-> {}]
    /\ orphan = [d \in Day |-> {}]
    /\ pusher = [w \in Worker |-> Idle]
    /\ raced = {}

-----------------------------------------------------------------------------
(* The posted journal when the day has a current entry, facts otherwise. *)
plan_for_push(d) == IF chartOn /\ entry[d] # NoPlan THEN entry[d] ELSE content[d]

(* A posted entry always builds: its lines are already stored. *)
Builds(d) == (chartOn /\ entry[d] # NoPlan) \/ content[d] \notin Unbuildable

(* A session about to look at the first of the days todo. *)
Session(todo, month, pending) ==
    [pc |-> "plan", todo |-> todo, month |-> month, pending |-> pending,
     plan |-> NoPlan, loaded |-> NoRow, draft |-> NoRow]

(* The days are taken in ascending order. *)
First(todo) == CHOOSE d \in todo : \A e \in todo : d <= e

(* The session goes on with the days that are left, or closes. *)
NextDay(t) ==
    LET left == t.todo \ {First(t.todo)}
    IN  IF left # {} THEN Session(left, t.month, t.pending) ELSE Idle

(* fact_dates: the month's days that have facts now. *)
fact_dates == {d \in Day : content[d] # NoPlan}

(* qbo-push --month; a month without facts pushes nothing. *)
push_month(w) ==
    /\ pusher[w] = Idle
    /\ fact_dates # {}
    /\ pusher' = [pusher EXCEPT ![w] = Session(fact_dates, TRUE, {})]
    /\ UNCHANGED <<content, entry, chartOn, row, qbo, orphan, raced>>

(* POST /api/qbo/push and qbo-push --date. *)
push_day(w, d) ==
    /\ pusher[w] = Idle
    /\ pusher' = [pusher EXCEPT ![w] = Session({d}, FALSE, {})]
    /\ UNCHANGED <<content, entry, chartOn, row, qbo, orphan, raced>>

(* No facts, or a plan that cannot be built: the end of push_day, and one  *)
(* failed result of push_month, which goes on.                             *)
ReadPlan(w) ==
    /\ At(pusher, w, "plan")
    /\ LET t == pusher[w]
           d == First(t.todo)
       IN  pusher' = [pusher EXCEPT ![w] =
                    IF plan_for_push(d) = NoPlan \/ ~Builds(d)
                    THEN (IF t.month THEN NextDay(t) ELSE Idle)
                    ELSE [t EXCEPT !.pc = "row", !.plan = plan_for_push(d)]]
    /\ UNCHANGED <<content, entry, chartOn, row, qbo, orphan, raced>>

(* Faulty: a stale day whose plan changed again is pushed anew. *)
Decision_RepushesStale(r, plan) ==
    IF r.status = "pushed" THEN (IF r.hash = plan THEN "already-pushed" ELSE "stale")
    ELSE IF r.status = "stale" /\ r.hash = plan THEN "restore" ELSE "post"

(* Faulty: a pushed day whose plan changed is pushed anew. *)
Decision_RepushesChanged(r, plan) ==
    IF r.status = "pushed" /\ r.hash = plan THEN "already-pushed"
    ELSE IF r.status = "stale" THEN (IF r.hash = plan THEN "restore" ELSE "refused")
    ELSE "post"

Decision(r, plan) ==
    IF r.status = "pushed" THEN (IF r.hash = plan THEN "already-pushed" ELSE "stale")
    ELSE IF r.status = "stale" THEN (IF r.hash = plan THEN "restore" ELSE "refused")
    ELSE "post"

(* A new row is born failed; a retried one is failed already. *)
Attempt(r, plan) == [status |-> "failed", hash |-> plan, je |-> r.je]

(* The ledger row is loaded, unlocked, and decides. *)
ReadRow(w) ==
    /\ At(pusher, w, "row")
    /\ LET t == pusher[w]
           r == row[First(t.todo)]
           what == Decision(r, t.plan)
           Mark(s) == [t EXCEPT !.pc = "commit", !.loaded = r,
                                !.draft = [r EXCEPT !.status = s]]
       IN  pusher' = [pusher EXCEPT ![w] =
                    CASE what \in {"already-pushed", "refused"} -> NextDay(t)
                      [] what = "stale" -> Mark("stale")
                      [] what = "restore" -> Mark("pushed")
                      [] what = "post" -> [t EXCEPT !.pc = "post", !.loaded = r,
                                                    !.draft = Attempt(r, t.plan)]]
    /\ UNCHANGED <<content, entry, chartOn, row, qbo, orphan, raced>>

Book(d, c) == qbo' = [qbo EXCEPT ![d] = @ \cup {c}]

(* QBO accepts or replays the requestid, and the answer arrives. *)
PostAccepted(w) ==
    /\ At(pusher, w, "post")
    /\ LET t == pusher[w]
       IN  /\ Book(First(t.todo), t.plan)
           /\ pusher' = [pusher EXCEPT ![w] =
                       [t EXCEPT !.pc = "commit",
                                 !.draft = [status |-> "pushed", hash |-> t.plan, je |-> t.plan]]]
    /\ UNCHANGED <<content, entry, chartOn, row, orphan, raced>>

(* QboError: a fault QBO sent, throttling or a refused grant. *)
PostRejected(w) ==
    /\ At(pusher, w, "post")
    /\ LET t == pusher[w]
       IN  pusher' = [pusher EXCEPT ![w] =
                    [t EXCEPT !.pc = "commit",
                              !.draft = [status |-> "failed", hash |-> t.plan, je |-> NoPlan]]]
    /\ UNCHANGED <<content, entry, chartOn, row, qbo, orphan, raced>>

Lost == {x \in Day \X Content : x[2] \in orphan[x[1]]}

(* QBO books the entry and the answer is lost.  A transport error escapes  *)
(* the run and nothing is recorded; a body that does not parse is a        *)
(* ValueError, which push_month takes for a plan that could not be built:  *)
(* it goes on, and the row it had drafted rides along in the session.      *)
PostLost(w, parsed) ==
    /\ At(pusher, w, "post")
    /\ Cardinality(Lost) < MaxLost
    /\ LET t == pusher[w]
           d == First(t.todo)
       IN  /\ Book(d, t.plan)
           /\ orphan' = [orphan EXCEPT ![d] = @ \cup {t.plan}]
           /\ pusher' = [pusher EXCEPT ![w] =
                       IF parsed \/ ~t.month THEN Idle
                       ELSE NextDay([t EXCEPT !.pending = @ \cup
                              {[day |-> d, loaded |-> t.loaded, draft |-> t.draft]}])]
    /\ UNCHANGED <<content, entry, chartOn, row, raced>>

(* QBO is out of reach: QboUnreachable or an httpx error, the run aborts. *)
PostUnreachable(w) ==
    /\ At(pusher, w, "post")
    /\ pusher' = [pusher EXCEPT ![w] = Idle]
    /\ UNCHANGED <<content, entry, chartOn, row, qbo, orphan, raced>>

(* uq(property, date): an INSERT of a row someone else has inserted. *)
Conflicts(writes) ==
    \E x \in writes : x.loaded.status = "absent" /\ row[x.day].status # "absent"

(* INSERT writes the whole row, UPDATE the columns that differ from what   *)
(* the session loaded.                                                     *)
Written(x) ==
    [col \in DOMAIN NoRow |->
       IF x.loaded.status = "absent" \/ x.draft[col] # x.loaded[col]
       THEN x.draft[col] ELSE row[x.day][col]]

Writes(t) ==
    t.pending \cup {[day |-> First(t.todo), loaded |-> t.loaded, draft |-> t.draft]}

Uncommitted(t) ==
    At(pusher, t, "commit") /\ pusher[t].draft.status = "pushed" /\ pusher[t].loaded.status # "stale"

Commit(w) ==
    /\ At(pusher, w, "commit")
    /\ ~Conflicts(Writes(pusher[w]))
    /\ LET W == Writes(pusher[w])
       IN  row' = [d \in Day |->
                     IF \E x \in W : x.day = d
                     THEN Written(CHOOSE x \in W : x.day = d) ELSE row[d]]
           /\ raced' = raced \cup {x.day : x \in {y \in W : y.loaded # row[y.day]}}
    /\ pusher' = [pusher EXCEPT ![w] = NextDay([pusher[w] EXCEPT !.pending = {}])]
    /\ UNCHANGED <<content, entry, chartOn, qbo, orphan>>

(* IntegrityError, or a crash before the commit: nothing is recorded, and  *)
(* an entry QBO has answered for is on no ledger.                          *)
Abort(w) ==
    /\ pusher[w] # Idle
    /\ Uncommitted(w) => Cardinality(Lost) < MaxLost \/ Conflicts(Writes(pusher[w]))
    /\ orphan' = IF Uncommitted(w)
                 THEN [orphan EXCEPT ![First(pusher[w].todo)] = @ \cup {pusher[w].plan}]
                 ELSE orphan
    /\ pusher' = [pusher EXCEPT ![w] = Idle]
    /\ UNCHANGED <<content, entry, chartOn, row, qbo, raced>>

(* Ingestion, GL posting and chart edits by other requests. *)
Elsewhere ==
    /\ \/ \E d \in Day, c \in Content \cup {NoPlan} :
            content' = [content EXCEPT ![d] = c] /\ UNCHANGED <<entry, chartOn>>
       \/ \E d \in Day, c \in (Content \ Unbuildable) \cup {NoPlan} :
            chartOn /\ entry' = [entry EXCEPT ![d] = c] /\ UNCHANGED <<content, chartOn>>
       \/ chartOn' = ~chartOn /\ UNCHANGED <<content, entry>>
    /\ UNCHANGED <<row, qbo, orphan, pusher, raced>>

QpNext ==
    \/ \E w \in Worker :
         \/ push_month(w)
         \/ \E d \in Day : push_day(w, d)
         \/ ReadPlan(w) \/ ReadRow(w)
         \/ PostAccepted(w) \/ PostRejected(w) \/ PostUnreachable(w)
         \/ \E parsed \in BOOLEAN : PostLost(w, parsed)
         \/ Commit(w) \/ Abort(w)
    \/ Elsewhere

QpSpec == QpInit /\ [][QpNext]_qpVars

-----------------------------------------------------------------------------
(* Properties *)

QpTypeOK ==
    /\ content \in [Day -> Content \cup {NoPlan}]
    /\ entry \in [Day -> Content \cup {NoPlan}]
    /\ chartOn \in BOOLEAN
    /\ row \in [Day -> Row]
    /\ qbo \in [Day -> SUBSET Content]
    /\ orphan \in [Day -> SUBSET Content]
    /\ \A w \in Worker : pusher[w].pc \in {"idle", "plan", "row", "post", "commit"}
    /\ raced \subseteq Day

(* A ledger row that says `pushed` (or `stale`, once pushed) names an entry  *)
(* that is in QuickBooks and has the hash the row compares against: push_day *)
(* answers already-pushed from that comparison alone.                        *)
PushedRowIsInQbo ==
    \A d \in Day \ raced :
        row[d].status \in {"pushed", "stale"} =>
            row[d].hash \in qbo[d] /\ row[d].je = row[d].hash

(* Every entry in QuickBooks is the one the ledger names, or one whose       *)
(* answer was lost, or one about to be committed: no run of rejected,        *)
(* retried, stale and reverted pushes books a day twice.                     *)
EntriesAccounted ==
    \A d \in Day \ raced :
        qbo[d] \subseteq {row[d].je} \cup orphan[d]
            \cup {pusher[w].plan : w \in {v \in Worker : Uncommitted(v) /\ First(pusher[v].todo) = d}}

(* The ledger and QuickBooks agree on every day, in both directions, however *)
(* the sessions interleave: only an update over a row that another session   *)
(* had changed since it was read, which no lock prevents, can part them.     *)
PushIsAccounted == QpTypeOK /\ PushedRowIsInQbo /\ EntriesAccounted

(* A session about to post for a day whose row has changed since it looked.  *)
Overtaken(w, d) ==
    At(pusher, w, "post") /\ First(pusher[w].todo) = d /\ pusher[w].loaded # row[d]

(* Once a day is pushed, QuickBooks gets nothing more for it ("re-pushing is *)
(* refused": a changed plan marks the row stale), but from a session that    *)
(* had read the row before another one pushed the day.                       *)
PushedDayIsFinal ==
    [][\A d \in Day : row[d].status \in {"pushed", "stale"} /\ qbo'[d] # qbo[d]
          => \E w \in Worker : Overtaken(w, d)]_qpVars
=============================================================================
