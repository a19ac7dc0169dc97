# Open Hospitality: TLA+ specifications

Formal models of Open Hospitality (`src/usali`): PMS reports becoming facts, the
night audit, the general ledger and the statements read from it, the QuickBooks
export, the time clock, timecards, sick leave, pay runs and where the pay goes,
the workforce and its schedule, signup, mail intake and the CRM feed. Each module
is a translation of Python code read together with its tables (`models.py`);
`PROJECT.json` maps every definition to its lines.

The models answer questions that tests hardly reach: what two requests do to
each other, what a lost answer or a crash between two steps leaves behind, what
a long sequence of legal operations adds up to, and whether two reports over
tables that changed in between can contradict each other.

## The system

A FastAPI service and a command line over one PostgreSQL database, with a web
portal, a kiosk page, a mail worker, Keycloak for identities, QuickBooks for
accounting and a payroll provider. A handler opens one session, so **a request
is one transaction at READ COMMITTED** (`db.py` sets no other level): each
statement sees what is committed when it runs, reads lock nothing, writes appear
together at the commit. Few handlers lock a row (`with_for_update`: sick usage,
publish, settlements); elsewhere unique keys arbitrate. Two row-level walls
confine a session to one organization, so every module is the state of one.

| Part | State | Operations | Talks to | What is hard | Modelled in |
|---|---|---|---|---|---|
| Report ingestion | staged rows, financial / ledger / statistic / segment facts, exceptions, coverage, batches | `process_bytes`, `transform`, promotion, CLI `ingest` and `transform` | GL posting, night audit | the same or a corrected file again, at once or later; transform works on the whole date | `Ingestion` |
| Night audit | business date, adjustments, segment edits | page, correct a close, save segments, roll | ingestion's tables | checks of an earlier moment than the roll's commit | `NightAudit` |
| GL posting | journal, posting ledger, period events, calendar, chart | post, repost, reverse, close, reopen, calendar, chart edits | ingestion, labor promotion, QBO | corrections over reversals, closed periods | `GlPosting`, `GlPostingTx`, `Books` |
| QuickBooks export | push ledger | push a day, push a month | QuickBooks | lost answers, retries, changed plans | `QboPush` |
| Accounting connection | credential row, OAuth state | authorize, callback, disconnect, refresh, push | Intuit | rotating tokens shared by requests | `QboTokens` |
| Time clock | punches | punch, roster | timecards | order rule across midnight and forgotten punches | `Timeclock` |
| Timecards | cards, links, adjustments, labor facts, photos | punch assembly, approve, reopen, adjust, backfill, purge | GL posting, sick leave, photo store | approval against late writes; evidence retention | `Timecards` |
| Sick leave | ledger of accruals, usage, voids, adjustments | accrue, use, void, adjust | timecards, pay runs | balances under caps, entries out of date order | `SickLeave` |
| Pay runs | provider refs, runs, lines, census, settlements, actual facts | preflight, sync, submit, fetch, settle | payroll provider, timecards, vault | lost answers, hours that move after payday | `PayRun` |
| Pay destinations | sealed SSN, deposit chain | PUT profile, PUT chain, sync | payroll provider | chains replaced while they are read | `Deposits` |
| Signup and provisioning | invites, codes, tenants, grants | request, code, complete | Keycloak, mail | a saga over three systems, compensation, retries | `Signup` |
| Workforce | employees, placements, rates, face template | onboard, rate, move, status, terminate, enrol | Keycloak, photo store, timecards | half-open dating, steps before the commit | `Workforce`, `Placements`, `Paychecks` |
| Overtime | none | `compute_overtime` | timecards, projection | daily, weekly and seventh-day rules over the same hours | `Overtime`, `WorkedHours` |
| Scheduling | weeks, shifts, templates, versions, standards, forecasts | add, move, delete, publish, targets, hints | workforce, night audit | overlap across midnight and weeks, racing publishes | `Scheduling`, `Shifts`, `Targets` |
| What a manager reads of a week | none | projection, cost, adherence | shifts, punches | days merged from plan and fact | `Projection` |
| Labor reports | none | sections, analytics, variance | labor facts, sick days, pay runs | withholding over windows a caller chooses | `LaborReports` |
| Statements | none | operating statement, journal statement, parity, CPA pack, trial balance | facts, journal, chart | two sources for one page | `Statements` |
| Performance | room counts, out-of-order rooms, settings | metrics, comparison, series, reconciliation | statistics, segments | gaps in the past, days landing twice | `Performance` |
| Fiscal calendar | calendar row | period of a day, bounds of a period | GL posting, reports | 53rd weeks, leap years | `Fiscal` |
| Mail intake | addresses, events | webhook, judge, record, rotate | ingestion, Cloudflare worker | redelivery, event written last | `Intake` |
| CRM feed | pull batches, snapshots | connect, refresh, demand, pace | Delphi, Tripleseat | pages of books that change, overlapping pulls | `CrmDemand` |
| Adaptors, redaction, crypto, face matching, auth, tenancy, frontend | none, or one row | parsing, sealing, filtering | | functions of bytes and rows | not modelled |

`PROJECT.json` lists every part under `components` with the reason for those
left out, and under `hazards` the places where this code can go wrong in ways a
test hardly reaches, each with the properties that watch it.

## Modules

### General ledger

`Books` is the journal's promise: per grain (property, date, source) an
append-only list of which at most one entry stands, and a correction that undoes
and writes in one step.

`GlPosting` is the engine. `post_and_record` is split as in the code: `Decide`
(its branches and early returns), `Appended` (entries written), `RowAfter` (the
ledger row). A member of `Content` is the sorted lines and their hash at once;
two plans are the same member exactly when `_finish_plan` hashes them alike. The
operations that reach it are the actions: ingestion (`process_section`), labor
`promote_timecard` and `demote_timecard` with the warnings they swallow,
`gl_post` and `post_range`, close and reopen, calendar and chart. Each is one
transaction here.

`GlPostingTx` opens the transaction: begin, read the row, read the plan, read
the period, commit, with everything else between any two statements. Its commit
is the ORM's: an insert over an existing row and an update of a missing row fail,
an update overwrites the changed columns, a delete of a missing row passes.

### QuickBooks

`QboPush`: `push_day` and `push_month` over the push ledger. The plan of a day
changes at any moment; a POST may be accepted, rejected, lost on either leg; any number
of sessions push at once. QBO replays a requestid it knows (from how the client uses it
and the repository's mock). `QboTokens`: consent, callback, disconnect, and clients that load, refresh,
store and post; nothing serialises load, grant and store.

### Time

`Timeclock`: the kiosk's order rule and `compute_day` over ticks; `punch_state`
and `punch_states` are the two derivations of where an employee stands. The spans
`compute_day` pays are a set: each opening event with the closing one that follows it
with neither between. A run starts in either of two worlds: in `atOnce` a punch may
begin at one kiosk while another is under way, in the other it may not, and only there
the hours of a day are claimed.
`Timecards`: one card from its punches to its labor facts and to the purge of its
photos, with each request's reads and commit apart. Approval and reopening flush the
card's status before they touch its facts, so they wait for each other; the backfill
(`promote_labor_cmd`) reads the card, files its facts and commits without that lock. The
purge is the query for the card, the query for its punches, one deletion after another,
the query for the orphans, and the commit. A run starts in either of two worlds,
`overlap` true or false: two of the properties hold only where requests to one card do
not overlap, and say so. `SickLeave`: the ledger summed by day and kind, and the fold
that derives balances; a usage is held to the cap its day length gives, or to none.

### Pay runs

`PayRun`: `POST /runs` as preflight, one sync step per employee, submission and
commit; cards, ledger, vault, settlements and fetches move in between; every
provider answer may be lost. `apportion` is exact integer arithmetic, largest
remainder first.

`Deposits` opens what `PayRun` calls a version of the sealed payload: the SSN and
the chain of accounts, PUTs of the chain as DELETE, INSERTs and commit under the
row locks and the unique key, and the sync's four reads (two of the fingerprint,
two of the payload) as four statements. An envelope is the slot it was sealed for.

### Reports and the night audit

`Ingestion`: `process_bytes` as staging, transform's reads, its writes and sum
check, and the commit with its unique keys; a failure rolls everything back. The
rows of a file are (file, transaction code), a unit of money each. `NightAudit`
extends it with the audit of one Opera property: page, corrections, segment edits
and the roll, whose checks and commit are two steps; an upload from the audit page
(`upload_night_audit_report`) takes only files of that property and date. A close is its
AR balance, the sum of the other sub-ledgers and the hotel's balance, so that a correction
of the first takes the identity of that day with it; the segment check compares rooms and
room revenue, and is skipped, which lets the roll pass, where a reference is missing.


### People

`Placements` is effective dating as operators over sets of rows dated `[from, to)`:
a resolver is the set of its candidates, and the code raises where there are two.
`Paychecks` runs the owner-of-a-period rule over every history of rows the unique
indexes admit. `Workforce` is one employee from hiring to separation: each request
reads its rows, calls Keycloak or the photo store, and writes by primary key in one
transaction; between any two of these another request or a death may come. The account
in Keycloak and the subject in the employee's row are two things: an onboarding that is
cut off leaves an account no row names, and a separation disables the one the row names.
`Overtime` is `compute_overtime` as a function; `WorkedHours` books days and hours
in every order and classifies anew, as a timecard does.

`Scheduling`: weeks, shifts, templates and publishes of two planners; a request
validates against what it read and commits later; only publish locks. `Shifts` are
the intervals both it and `Projection` use. `Projection` merges planned and punched
days of a running week into hours, overtime, warnings, cost and adherence.
`Targets`: standards, forecasts and the hints drawn from filed statistics.

### Reports

`Statements`: the operating statement from the facts and the one from the journal,
the parity gate, sales, tax and CPA reports, trial balance and drill-through, over
facts that land, days that are posted again and a chart that is seeded, extended
and classified in any order. `Performance`: occupancy, ADR and RevPAR with prior
windows, daily series and reconciliation. `LaborReports`: a cost is the set of the
facts it sums, so that the difference of two answers is a set of people.
`Fiscal`: `period_containing`, `resolve_period` and the two calendars over day
numbers.

### The outside

`Signup`: the saga of `POST /complete` with every Keycloak call, commit and
compensation a step of its own, for two requests. `Intake`: the worker, the judge,
one commit per attachment, the event last, and redelivery from the mailbox people
read. `CrmDemand`: pulls page by page of books that change under them, batches
stamped with the start of their transaction, and the two reads. `Handlers` has the
few operators by which all of these say where a request stands.

## Runs

An `MC` module gives the instances. Most of them hold several components that share
no state in the code either: the variable `focus`, chosen initially, says which one
a behaviour moves; the others rest in an initial state. That is a disjoint union of
state spaces and not a product, and each component is explored as fully as alone.
Where a component has more dimensions than one exhaustive run can hold, it has several
focuses, each with its own bounds: timecards without a purge, and with one where every
punch was matched and none adjusted; the month's export by one session with the GL (the
second day's facts land once), and two sessions overlapping on one day; a pay run with
hours that move between hotels, with submissions and syncs that fail and are tried again
(sick leave only while there is one record and one version of it), and with a second
period, whose own answers are not lost.
Model values are shared between components of one module where both are symmetric
in them, so that one permutation serves both.

| Run | Checks | Instance | Distinct states |
|---|---|---|---|
| `gl_posting` | `TypeOK`, `ReversalsPair`, `OneStandingEntry`, `BooksNetToCurrent`, `ClosedPeriodFrozen`, `PostingConverges`, refinement `KeepsBooks` | one date, both sources, three contents (one unmapped), two accounts, two calendars, six entries a grain | 88 k |
| `gl_tx` | `RowNamesItsEntry` | one grain, two sessions, three entries, two row ids | 917 k |
| `money` | `PushIsAccounted`, `PushedDayIsFinal`; `NobodyIsPaidTwice`, `UnpaidIsNamed`, `FreshRefIsDelivered`, `BooksMatchPayroll`; `PerformanceHolds` | a month of two days, the first of them posted to the GL, three plans (one unbuildable), one lost answer, and one of these days with two sessions at once; one employee of two hotels, two periods, two settlement requests, two versions of the sealed payload, two payrolls and two records of the employee at the provider; three days and the year before, four rows | 333 k |
| `accounts` | `StoredTokenLives`, liveness `PushEnds`; `StatementsHold`; `PeriodsTile`; `NoPyramiding`, `MoreHoursNeverPayLess`; `PaidExactlyOnce` | two pushes, two companies, five tokens; ten transaction codes, two days, two facts, three postings; six years under three month and nine 4-4-5 calendars; four days over two workweeks, five hours, federal and Californian rules; three rows at two hotels | 138 k |
| `hours` | `CardAgrees`, `PaidIsReviewed`, `EvidenceIsKept`; `DaysAreTrue`; `YearUseWithinCap`, `UsageNeverOverdraws` | two punches, an adjustment, two requests, with a purge or with the adjustment; two kiosks, two days of eight ticks (one where punches overlap), a shift that expires after five, five punches; three days in two years, two cards, adjustments on two days, each cap in force or not | 614 k |
| `people` | `WorkforceSafe`, `WorkedDayStaysPriced`; `SchedulingSafe`; `HintsCountDays`; `WeekReportsHold`; `LaborReportsHold`; `PayGoesWhereItSays` | one employee, two requests at once, five in all, three days; two weeks, two planners, two shifts; three filings of three days; three people over two days; three facts; two PUTs of six chains, one sync at a time | 545 k |
| `front_door` | `SignupSafe`; `IntakeSafe` | two requests, two addresses, two aliases, two invites and codes, one death; two mails of three kinds, two deliveries, two addresses, one redelivery | 1.5 M |
| `feeds` | `IngestionSafe`, `RolledIsAudited`; `DemandIsTrue` | two days, six files, three of them exports of one trial balance (one follows from the day before, one once that is corrected, one does not add up), two requests, one file from the command line, one correction; three bookings in pages of one, two pulls, two edits, both providers | 857 k |
| `gl_tx_close_race` | `ClosedPeriodFrozen` is violated | one session and a close | |
| `sick_leave_clamp` | `AccrualNeverCosts` is violated | as in `hours`, longer absences | |
| `night_audit_reexport` | `RollTiesTheBooks` is violated | one request, a second market-statistics export | |
| `workforce_moved` | `NotEmployedAfterTheLastDay` is violated | one employee, two requests, three days | |

What the properties say is in the comment above each. Those that end in `Safe`,
`Hold`, `Agrees` or `True` are conjunctions of named parts, each with its comment;
every run's property is broken by a mutant of one mapped definition, listed in
`PROJECT.json`; the mutated forms stand above the definitions, marked `Faulty`.

Why the bounds are enough. The journal of six entries holds a posting, two
corrections and a withdrawal, after which a grain repeats. Two requests are what a
race needs; a third repeats a role. Two days of a month show a push that fails in
the middle; one lost answer, the retry after it and the plan that changed
meanwhile. Two payrolls at the provider are a submission and its second attempt, or two
periods' runs; two records, an employee created again after a rolled-back run. Five tokens let both pushes refresh twice after a reconnect. Two
business days of eight ticks have a shift across the cutoff, an expired one and a
forgotten one. Two facts of ten codes reach every pair of ways the statement can
read a line. Six years hold leap years and a 53rd week under each weekday. Three
placement rows have a transfer, a gap and a stint inside another. Two weeks
with shifts across midnight meet every edge the overlap check has. Pages of one
booking make every cancellation shift one. Two of everything in `Signup` lets a
retry meet what another request left. Every bound is a named constant or (`OneSession`,
`OneDay`, `LateHours`, `Retries`, `TwoPeriods`, `FewBlocks` in `MCMoney`) a named condition of an `MC` module, and every run ends by exhausting its states.

Deadlock is checked in the ledger runs and in `money`. The other `MC` modules say
`CHECK_DEADLOCK FALSE`: their clocks, calendars and row counts stop at a bound, and
a database that has reached it has no further request.

Fairness. Only the tokens of `accounts` assume any: weak fairness of each client's
own steps, because a request that runs is scheduled until it returns. Refused
grants, crashes, consent and disconnect are never assumed to happen. The other
components state safety only: what they could promise to happen depends on a
person (an approval, a roll, a retry, a redelivery).

### What the violated properties show

* `gl_tx_close_race`. ADR-011 says a closed period refuses postings, loudly. The
  period is read once, unlocked (`gl_posting.py:600`); a close committed between
  that read and the posting's commit is not seen and the entry lands in the closed
  period.
* `sick_leave_clamp`. `models.py:1516-1519` says the cap recorded with each entry
  keeps the fold from extinguishing banked hours. The fold clamps the running
  balance, not the day's accrual (`sick_leave.py:193`): hours banked under a higher
  cap are cut by the next card's lower one.
* `night_audit_reexport`. The comment above `segment_reconciliation` says it reads
  only promoted facts. It reads staged rows (`night_audit.py:382`), and a second
  export of a day is staged while promotion skips a day that has facts: the roll
  ties one export and the books show the other.
* `workforce_moved`. The comment in `terminate_employee` (`onboarding.py:222`) rests
  the employment model on effective dating alone. `patch_employee` refuses a
  terminated employee only where the body has a status (`workforce.py:1056`); a
  department move on the last day goes through and opens a placement without end.

## What overlapping requests break

Sequences met while modelling, for which no run is kept: the property that would
forbid them does not hold, or holds only where the module says so.

General ledger
* Two sessions that loaded the same posted ledger row both repost: the unique key
  (`models.py:440`) arbitrates inserts only. The row names one entry; the other
  stands too. `OneStandingEntry` is therefore claimed of `GlPosting` and not of
  `GlPostingTx`.
* Setting another fiscal calendar (`property_config_api.py:317`) gives dates other
  period keys, so dates of a closed period may become open. Close events name
  periods, and `ClosedPeriodFrozen` speaks of periods under one calendar.

QuickBooks
* `push_day`'s docstring says that of two simultaneous pushes both derive the same
  `request_hash`, so that QuickBooks has one entry at most (`qbo_push.py:206-210`). Each
  reads its plan on its own: where a file, a posting or the chart changed in between,
  both entries are booked and the ledger keeps one. A failed retry beside a successful push can
  leave `pushed` with the other's hash (`qbo_push.py:262`). `PushIsAccounted` excepts
  the days on which a session wrote over a row that had changed since it read it
  (`raced`), `PushedDayIsFinal` the sessions that were overtaken.
* A refresh that began before a reconnect stores the old company's token on the
  new company's row (`integrations.py:566`).

Time and sick leave
* An adjustment or a punch that read `open` commits after an approval
  (`timecard_api.py:455`, `timecards.py:319`): the card is approved and not priced
  from all its events. The purge's stamp can land on a card reopened meanwhile
  (`timecards.py:410`).
* "only `approved` cards, only past the cutoff", says the purge of what it deletes for good
  (`timecards.py:378`). It selects the cards without a lock and deletes their images one
  by one: a reopen committed in between puts the card under review again and its evidence
  goes all the same, and so does the image of an orphan that the reopen has just linked.
  `EvidenceIsKept` excepts exactly purges that a flip or a linking crossed.
* The labor backfill takes no lock (`cli.py:697-712`): beside a reopen it can leave labor
  facts on the open card, and beside a flip of the pay type unpriced ones, until the next
  promotion or reopening. `FactsFollowApproval` excepts facts of a backfill that crossed a
  flip (`stray`).
* Reopening takes back the labor facts and leaves the sick accrual until the next
  approval (`timecard_api.py:391`).
* The purge command always opens the local photo store, also where a bucket is
  configured (`cli.py:681`); images stored for a punch whose transaction then fails stay
  (`kiosk.py:636`).
* Two taps at once on two kiosks are both recorded: the debounce is a read
  (`kiosk.py:586`).
* A `lunch_start` at one kiosk and a `clock_out` at another both pass the order rule
  before either is recorded (`kiosk.py:601-609`): the shift is paid straight through a
  break that never closes, which the rule is there to prevent. The day is warned about.
* A void is dated freely (`sick_leave_api.py:251`): the year adds up while the
  absent day stays paid. Without rules or a day length no cap is applied
  (`sick_leave_api.py:184-193`), and the use of that year has no bound. Accrual does not take the employee's lock
  (`sick_leave.py:118`); `UsageNeverOverdraws` excepts exactly the usages a
  promotion crosses.

Pay runs
* An answer lost after the provider booked a payroll leaves no row; running the
  period again submits again, without an idempotency key. `PayrollsAccounted`
  counts these apart. Employees created before a rolled-back run are created anew.
* Hours of a person without a card at the time of the run belong to no line and
  are never named (`payroll_run.py:540`).
* Two fetches of one run can leave two sets of facts where the department is NULL
  (`models.py:2188`).
* Fingerprint and payload are separate statements (`payroll_run.py:1449` says one
  snapshot). `Deposits` shows that this errs toward sending again: the mark is read
  first, so a record of another chain reads stale, unless the edit between them is
  undone exactly.
* The census weights are read after the submission (`payroll_run.py:1601`): they
  may split other hours than those sent; the totals agree (`BooksMatchPayroll`).

Reports and the night audit
* Two files of one date at once: the sum check counts the other's rows and fails a
  good upload (`transform.py:97`). It leaves nothing behind, and trying again works.
* A corrected export staged from the command line (`cli.py:338`), and any second
  export of a source without ledger balances (AutoClerk, SkyTouch), is added to the
  first.
* The roll writes the next date as a value (`night_audit_api.py:656`); a late
  commit sets the date back. Two corrections of one close both log the same old
  amount (`night_audit_api.py:446`).
* A trial balance that contradicts itself "needs a corrected export"
  (`night_audit_api.py:406`), which the unique key refuses.
* A prior close that arrives after the roll is never compared.
* Correcting the AR close of a rolled day makes the roll-forward of the next day true and
  the balance identity of that day false: the hotel's balance stays
  (`night_audit_api.py:443`). `RolledIsAudited` excepts a day with such a correction.
* A roll passes while the segment check is skipped (`night_audit_api.py:641`); what lands
  after it is never reconciled.

Signup and mail
* A death between the claim of an invite and the tenant's commit leaves it consumed
  (`signup_api.py:240`), and a first property that fails leaves a tenant whose owner
  cannot run that step again (`signup_api.py:274`). `SpentInviteIsAccounted` excepts
  exactly requests that were cut off.
* The comment at `signup_api.py:121-125` says a second invite to one address "cannot
  become a second workspace"; the claim consumes only its own token's row, so two
  invites make two.
* Two requests for a code at once leave two challenges (`otp.py:47`), and every
  verification then raises.
* A policy edit that read the address before a rotation writes to the revoked row
  (`intake_address_api.py`); the new address has the default policy.

People
* Of overlapping requests a move that read no rate strands one set meanwhile
  (`workforce.py:934`), and a separation beside an enrolment can leave a face
  template. `WorkedDayStaysPriced` and `SeparationDeletesFace` say so.
* An onboarding that dies or rolls back after Keycloak made the account leaves it enabled;
  if the person is then onboarded without a role, no row names it and a separation does not
  disable it (`onboarding.py:212`, the comment at `onboarding.py:79-84` says so).
  `SeparatedCannotSignIn` is of linked accounts, and of others where nothing was cut off.
* Two managers can book one person twice (`schedule_api.py:300`); `NoDoubleBooking`
  speaks of edits that do not overlap.
* Adherence loads the cards of people placed on the week's first day only
  (`schedule_api.py:1555`): who joins mid-week is a no-show though they punched.
  `ReportsAgree` is limited to the others.

Reports
* A posted day whose facts cancel has an entry without lines, and the journal's
  statement refuses it as not posted (`reporting.py:1180` against the docstring at
  `reporting.py:111-120`).
* `performance.py:467-480` promises that a prior window is "never a failed request";
  more rooms out of order than there are on a past day fails it with a 409, and
  `PastGapsNeverFail` excepts that.
* An account put by hand has no classes until `fill_usali` runs; until then the
  journal's statement files it under other.

CRM feed
* `crm_pull.py:20-24` says silence of a newer pull means that the demand is gone. A
  cancellation on a page already read shifts a staying booking over the page's edge,
  unread (`delphi_adapter.py:124-150`): the pull is silent about it. `DemandIsTrue`
  speaks of pulls during which nothing changed, and of never counting too much.
* The provider is read twice (`crm_api.py`): a batch may carry the name of one
  connected in between.

## Proofs

The theorems hold for every value of the constants: any number of requests, days,
rows, files, messages, and any bound. They are in modules of their own beside the
components, with the invariants they rest on.

| Module | Theorem | States | Of |
|---|---|---|---|
| `GlPostingProofs` | `TypeCorrect` | `Spec => []TypeOK` | `GlPosting` |
| | `ReversalsPaired` | `Spec => []ReversalsPair` | |
| | `OneEntryStands` | `Spec => []OneStandingEntry` | |
| | `BooksNet` | `Spec => []BooksNetToCurrent` | |
| | `ClosedIsFrozen` | `Spec => ClosedPeriodFrozen` | |
| | `PostingIsIdempotent` | `Spec => PostingConverges` | |
| | `ImplementsBooks` | `Spec => KeepsBooks`: the engine implements `Books` | |
| | `RowsNameTheirEntries` | `TxSpec => []RowNamesItsEntry` | `GlPostingTx` |
| `AccountsProofs` | `PushesAccounted` | `QpSpec => []PushIsAccounted` | `QboPush` |
| | `PushedIsFinal` | `QpSpec => PushedDayIsFinal` | |
| | `TokenLives` | `QtSpec => []StoredTokenLives` | `QboTokens` |
| | `CalendarTiles` | `FcSpec => []PeriodsTile` | `Fiscal` |
| | `HoursAreClassifiedOnce` | `OtSpec => []NoPyramiding` | `WorkedHours` |
| | `AnHourMoreNeverCosts` | `OtSpec => MoreHoursNeverPayLess` | |
| | `PaidOnceEach` | `CkSpec => []PaidExactlyOnce` | `Paychecks` |
| `HoursProofs` | `CardsAgree` | `TcSpec => []CardAgrees` | `Timecards` |
| | `PaidWasReviewed` | `TcSpec => []PaidIsReviewed` | |
| | `EvidenceKept` | `TcSpec => EvidenceIsKept` | |
| | `YearUseBounded` | `SlSpec => []YearUseWithinCap` | `SickLeave` |
| | `NeverOverdrawn` | `SlSpec => UsageNeverOverdraws` | |
| | `NoOnesPayShows` | `LrSpec => []LaborReportsHold` | `LaborReports` |
| | `WeekIsReported` | `PjSpec => []WeekReportsHold` | `Projection` |
| | `DaysArePaidTrue` | `TkSpec => []DaysAreTrue` | `Timeclock` |
| `PeopleProofs` | `EmployedIsSafe` | `WfSpec => []WorkforceSafe` | `Workforce` |
| | `WorkedStaysPriced` | `WfSpec => WorkedDayStaysPriced` | |
| | `ScheduleIsSafe` | `ScSpec => []SchedulingSafe` | `Scheduling` |
| | `DaysNotFilings` | `TgSpec => []HintsCountDays` | `Targets` |
| | `PayArrives` | `DepSpec => []PayGoesWhereItSays` | `Deposits` |
| `MoneyProofs` | `PaidOnce` | `PrSpec => []NobodyIsPaidTwice` | `PayRun` |
| | `UnpaidBlocks` | `PrSpec => []UnpaidIsNamed` | |
| | `FreshIsDelivered` | `PrSpec => []FreshRefIsDelivered` | |
| | `BooksAgree` | `PrSpec => []BooksMatchPayroll` | |
| | `StatementsAgree` | `StSpec => []StatementsHold` | `Statements` |
| | `PastAndTruthHold` | `PfSpec => []PerformanceHolds` | `Performance` |
| `NightAuditProofs` | `RowsAccounted` | `NaSpec => []IngestionSafe` | `Ingestion` under `NightAudit` |
| | `RollsStayAudited` | `NaSpec => []RolledIsAudited` | `NightAudit` |
| | `DemandIsWhatWasThere` | `CrmSpec => []DemandIsTrue` | `CrmDemand` |
| `FrontDoorProofs` | `SignupIsSafe` | `SgSpec => []SignupSafe` | `Signup` |
| | `MailIsSafe` | `InSpec => []IntakeSafe` | `Intake` |

`SumTheorems` has the lemmas on sums over finite sets the others need: a sum is an
integer, additive, monotone, counts an indicator, changes by what one place changes,
splits over a set and its rest, keeps its value under other names and group by group
(`TotalGrouped`), and may be taken in either order of two. The library's induction theorems take an
operator, which the provers cannot instantiate; these lemmas go by least
counterexamples instead: a smallest set without a partial sum, or with one outside a
set closed under addition, would have a smaller one inside it (`EverySubset`).

### Assumptions

Each is an `ASSUME` of the module that declares the constants, and TLC evaluates it
on every run of that module: `GlConstants` (dates are naturals, `NoFacts` is no
content, `Needs` and `KeyOf` are functions of their types), `QboConstants` and
`TokenConstants` (days are naturals, finitely many clients), `PayRunConstants` (finitely
many employees; at least one period, hotel and version of the sealed payload; bounds are
naturals), `StatementsConstants` (finitely many transaction codes, amounts are integers, the
clearing account is an account), `DictionaryInvariant` (the codes of an account share its
schedule and major category, and none is of the clearing account, as in the dictionaries the
template of the chart repeats), `PerformanceConstants` (finitely many room counts, one at
least; rates are integers),
`InfoType` and `AuditConstants` (finitely many files, each with a type, a day and its
codes), `SignupConstants`, `IntakeConstants` (attachments and sections are numbered,
an empty allowlist is a policy), `DaysAssumption` (the days end before the number
that stands for no end), `TargetsConstants` (a week is finite; rooms and standards are naturals),
`ScheduleConstants` (weeks lie on the payroll grid; a shift
starts on its business date and ends within a day of its start), `CrmConstants`
(finitely many bookings and refreshes, a page holds one at least), `ProjectionConstants`
(finitely many people and departments; a shift starts on its business date and ends after it
starts; a punched day has hours), `TimeclockConstants` (finitely many kiosks, a day has a
length, a double tap is over before a shift expires; bounds are naturals), `SickLeaveConstants`
(finitely many cards, each of a day; hours and caps are naturals), `FiscalConstants`
(months are of 1 to 12, weekdays of 0 to 6), `OvertimeAssumption` (a ruleset has the
shapes `__post_init__` lets through), `WorkedHoursConstants` (no week reaches the number
that stands for no threshold; the seventh day pays double no later than any other, as in
`_RULES`), `PaychecksConstants` and `ChainConstants` (bodies are lists; what the
migration carried over is a legal chain).

No theorem assumes anything besides. Where a property claims a part only while requests
do not overlap or overtake each other, the condition is a variable of the model and stands
in the property itself: `overlap` (`Timecards`) and `atOnce` (`Timeclock`), fixed at the
start and read when a request begins; `stray` and a purge's `crossed` (`Timecards`),
`crossed` (`Workforce`, `SickLeave`) and `raced` (`QboPush`, `Scheduling`), recorded when
it happens. The latter guard no action, and the theorems cover both worlds.

### The invariants

No property is inductive by itself. What each needs besides:

* **Journal.** That a new reversal undoes something not undone before rests on the row
  naming an entry that stands; that the row's entry is the only standing one rests on
  the reversals undoing distinct earlier originals. `Inv` is both, by grain: `Pairs`
  (of the journal), `Stands` (of the row), `OthersUndone`. `GrainStep`: an operation
  leaves a grain alone or takes it through `post_and_record`; `PostCases`: that keeps,
  posts, reposts or reverses, the last three only in an open period. The action
  properties follow from `WritesNews`, the refinement from `BooksStep`, with the entry
  of the ledger row as `standing`. `BooksNet` counts: the reversals of a content are
  in bijection with the originals undone, and one original at most is not.
* **Sessions.** In `GlPostingTx` the row a session loaded may be gone or rewritten.
  `Loaded` says what survives: ids are never used again, the journal only grows, and
  a row that has an entry keeps one while it lives, so what was loaded is an earlier
  version of the same row, or of one that is gone.
* **Tokens.** `OnTheWayIsUnseen`: a token between grant and store was never in the row,
  so nobody can have loaded or spent it; `MintedInOrder` makes new ones new.
* **Pushes.** `SessionOK` says what a session may hold: a loaded row that named an entry
  of QuickBooks then, a draft for it, and drafts of earlier days that ride along
  (`PendingOK`). `Accounted` finds every entry in QuickBooks in the row, among the lost
  answers or in a session's hands. Neither ties what was loaded to the row as it is: where
  the two differ at the commit, the day is `raced` from then on and nothing is claimed of
  it; where they are the same, the draft is the row (`WrittenIsDraft`), so the number of
  sessions does not matter.
* **Timecards.** `Remembers`: what a request read that stays true whoever commits
  beside it (rows are never deleted, an image belongs to a punch not on record); `Chosen`: the card
  a purge selected is approved and old as long as nothing crossed it; `StillTrue`: what it knows besides
  where requests do not overlap. A commit changes the record of another request at most by
  marking its purge as crossed or by sparing facts from its deletion (`Beside`). Facts on a
  card that is not approved are `stray`, because whoever files or flips holds the lock or
  is the backfill (`OneHolds`).
* **Employees.** `RowsOK` and `RatesOK` are the unique indexes and what they imply:
  placements are numbered, rates of one are apart and the last of them open. `PlacesOK`:
  until a separation placements are apart, and cover every day from today on. The heart
  is a move: the row it read need not be the open one, but the partial unique index
  refuses it otherwise, so that the row that ends is the one that had no end and the
  new one begins where it ends. `DeskOK` says what a request read and, while nobody
  crosses it, that this is still so; a day keeps its price because the rate of a
  placement never ends without a successor and a move carries it along. `AccountOK`: an
  enabled account that nobody's row names is there only while its onboarding runs, or after
  one was cut off.
* **Schedule.** `PlanOK`: a body that passed its check is free of every shift of its
  person, of any week, while no other edit runs: the check looks at a week and its
  neighbours, and shifts two weeks apart never overlap. The version a publish adds to
  was read under the lock of the week (`BesideOK`: no two publishes hold one week).
* **Deposits.** `Old`: rows carry the number of their PUT, and no PUT under way has the
  number of rows that are or were on file, so a chain once replaced never comes back and
  a fingerprint that equals the file was not overtaken. `PutOK`: what a PUT is about to
  delete is all that is on file, or none of it, and then the first ordinal is taken and
  it rolls back. `SyncOK`: the mark is read before the payload, so a mark still true at
  delivery is of what was read after it.
* **Sick leave.** `PendingOK`: a usage that passed its checks still fits what its year was
  held to (`entitled`, which only grows), since the lock keeps other usages out, and unless a promotion crossed it its
  replay is still above zero. A void only lowers what a day uses, and the replay is monotone
  in the sums of a day (`FoldGrows`): what was above zero stays.
* **Labor reports.** No state but that rows are finitely many: the rest is about any rows at
  all. The day rule lets through money with two people behind each of its days (`DayRule`);
  two windows differ by whole days, so whoever is in the difference has a second person
  beside them (`MoreByTwo`), and a window all of whose days are shown is shown
  (`ShownDays`). Hours tie by counting rows by day and days by row (`HoursByDay`).
* **A week's reports.** `PjInv`: the shifts of a person do not overlap, so of two of them
  one ends before the other begins. After the first shift of a short night something begins
  on another date; the first such shift, up to the second of the night, and the last one
  before it, of the first date still, are neighbours with no more rest between them
  (`NightsWarned`). Hours tie because classification loses none of a day (`RowIsDay`) and
  because shifts summed by department, by person or by date are the same shifts
  (`ShiftsGrouped`).
* **The time clock.** `TkInv`: no two punches, recorded or stamped, share an instant
  (`Apart`), and where they do not overlap, each that is not a `clock_in` was allowed by
  the one right before it (`OneByOne`). Days are intervals of the log, so the events of a
  day keep that order from wherever it begins (`DayIsOrderly`). Then nothing happens
  within a closed lunch (`LunchIsDirect`); what a shift covers and no lunch does is time
  on the clock (`ShiftIsWorked`); and if every event has its counterpart and the day
  began with a `clock_in`, whatever is not after a `clock_out` is in a closed shift
  (`InShift`), lunches included. Minutes are instants counted (`MinutesCount`).
* **Targets.** The last filings of the recent days are those days under other names
  (`LastOfEachDay`), so their sum and their number are the same (`TotalRenamed`).
* **Pay runs.** `TxOK`: the run under way is for a period without one, and knows its
  payroll once booked. `ActsOK`: only submitted lines are settled, one clerk at a line,
  and what a clerk is about to add was owed when the line was locked. `RefOK`: a
  fingerprint equal to the vault's was stored after that version was delivered.
* **Books of a run.** `BooksOK`: the census of a submitted line is all of its hours, and
  the facts of a fetched run are what another fetch would find. `ApportionSums`: by
  quotient and remainder the units left over are no more than the places with a
  remainder (`SharesSum`), and ranks of a total order number the places from zero
  (`RanksCount`), so exactly that many get one more and none of them is without weight.
* **Statements.** `StInv`: every journal entry balances (`PlanIs`, `NegatedBalance`), and
  the entries of a day come, account by account, to its standing one (`StandsFor`: a repost
  first undoes the standing entry; `PostedAgain`). A window's net on an account is the sum of
  its days', so where every day stands as it would be posted now it is the sum of the facts
  (`WindowStands`), and a green gate says just that (`ParityIs`). Both statements then are
  sums over the same accounts (`PartNet`): an account has the class of its facts
  (`ChartIs`), and where no schedule fans out a department is the schedules that hold it
  (`SectionNet`). Debits equal credits because entries summed by account and by line come
  to the same (`WindowBalances`).
* **Performance.** `PfInv`: a day's revenue is its rate over the rooms sold, and what has
  statistics or a room count is of the calendar. An error that is not degraded is an
  oversubscribed day (`Raised`), and that has a room count before it (`OversubscribedDay`);
  the mean of rates weighted by rooms sold is the ratio of sums (`DaysReconcile`).
* **Calendars.** `Starts` is the first day of a period and the thirteenth the next year's:
  the first days ascend within a year and from year to year (`PeriodsAscend`,
  `FiscalYearsAscend`), whatever the leap years, so the year, month and week a day is
  looked up under are the ones whose bounds hold it (`OnePeriod`).
* **Overtime.** Days that fill a threshold in their order, each with what the earlier
  ones leave, keep the lesser of the threshold and their sum (`Filled`); only the last
  day of a week can be its seventh (`SeventhIsLast`), so no earlier day's straight time is
  counted by another rule. An hour more moves its own week only (`OtherWeeks`), never
  undoes a seventh day (`SeventhStays`), and adds one hour of straight time at most
  (`DayGrows`).
* **Paychecks.** The last covered day of a period is a greatest element (`MaxOf`), and who
  owns it has a placement that overlaps the period (`OwnerOverlaps`).
* **Night audit.** `TxsOK`: the rows a transaction is about to insert are those of its
  file that are not there, no two transactions load one file or map one row. `Audited`:
  what a roll saw holds still, or a correction was logged since: of that day for the
  identity, of that day or the one before for the roll-forward; it covers the time
  between the checks of a roll and its commit as well.
* **Demand.** `PullOK`: a pull has each booking of the pages it read once, only such as were
  there at some time since it began, and, if nothing changed since, exactly those of the
  first pages (`NextPage`; `LastPage`: the page the count ends at ends the books). A batch is
  a pull that arrived. Stamps are distinct (`StampIsNew`), so the newest batch of a day is
  the one the reader's order puts first (`FirstIsNewest`).
* **Signup.** `OneOwner`: one request mails or holds an invite; `RequestOK` and
  `InviteOK` say what it made for each place the request can be at.
* **Mail.** `PostOK`: each attachment disposed of has its batch, and the one at the gate
  was judged against the property of the address it came to.

### What is only model-checked

* Liveness (`PushEnds`) and fairness: outside the prover.
* The properties of the violation runs, which are false.

Every other property the passing runs check is a theorem.

## Not modelled

Left out of the modelled parts: wording, audit rows, authorization and rate limits;
amounts beyond what a property tells apart. Ingestion leaves out HotelKey and the
filing of artifacts after the commit; its model covers the three Opera reports,
whose handlers the other sources repeat on fewer tables; packs are in `Intake`, as
documents. Pay runs leave out hours that moved between properties and treat a
person's refusals (rates, premiums, sealed profile) as a choice. `Workforce` is one
employee at one property: the stranded-day refusal never fires for a separation
dated today and is left out. `Scheduling` is one property. ADP is a second provider
behind the same protocol.

Not modelled at all, and why:
* AR and room-segment reports, CSV and PDF exports, preview: single reads and layout.
* Report adaptors, redaction, MIME and PDF parsing: words on a page to records.
* Sealing and field encryption, HMAC, face embeddings: numerics without state. What
  an envelope opens for is in `Deposits`.
* Authentication, roles, tenant walls, rate limits: a filter before each request.
* Onboarding checklist: derived on every read, one dismissal flag per item.
* Demo seeds, mocks, migrations, themes, web portal: clients, data and history.

## Plan

Done: general ledger with its refinement and proofs, QuickBooks, time, sick leave,
pay runs, ingestion and night audit; then signup, workforce, overtime, scheduling,
mail intake, CRM, deposits, statements, performance, labor reports and the fiscal
calendar; proofs of the ledger and its sessions, QuickBooks, timecards, workforce,
the time clock, schedules and their reports, deposits, pay runs, the statements,
performance, the night audit, signup, mail intake and the CRM feed.

Left to model
1. Sources without a ledger block and HotelKey in `Ingestion`; more than one day
   rolled in `NightAudit`.
2. The two QuickBooks modules composed, a push through a rotating token; `Intake`
   over `Ingestion`'s tables in place of its batches.
3. A second property in `Scheduling` and `Workforce`.

Left to prove: nothing the runs check; what is modelled next brings its own.
