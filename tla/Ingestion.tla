----------------------------- MODULE Ingestion -----------------------------
(***************************************************************************)
(* PMS report files becoming facts: stage, transform, promote, coverage    *)
(* and the batch's outcome, for the three reports of an Opera night audit  *)
(* (usali/ingestion.py, stage.py, transform.py, ledger_promote.py,         *)
(* segment_promote.py, stats_promote.py, the CLI's ingest and transform).  *)
(*                                                                         *)
(* A file is processed in one READ COMMITTED transaction whose statements  *)
(* see what others have committed so far, and transform works on every     *)
(* staged row of the source and date, whichever property's file it came    *)
(* from.  What a file says is in Info: rows by transaction code, one unit  *)
(* each; the closes of AR, of the other sub-ledgers and of the hotel, and  *)
(* the day's AR activity; the occupied rooms of a Manager Flash; the table *)
(* of the market codes.  Journal posting, the last part of the transaction,*)
(* is in GlPosting; filing the artifact after the commit changes no data.  *)
(***************************************************************************)
EXTENDS Integers, FiniteSets, FiniteSetsExt, Handlers

CONSTANTS Worker,   \* requests served concurrently
          File,     \* files that may arrive, each any number of times
          Info,     \* what is in a file
          Code,     \* transaction codes
          Mapped,   \* codes in the mapping dictionary
          MaxDay,   \* business dates 0..MaxDay
          MaxFed    \* bound: files staged from the command line

Day == 0..MaxDay
Property == {Info[f].prop : f \in File}

None == -1

(* What the market codes sum up to; no rows sum up to nothing. *)
Table == [ROOMS : Nat, ROOM_REVENUE : Nat]
NoTable == [ROOMS |-> 0, ROOM_REVENUE |-> 0]

ASSUME InfoType ==
    /\ IsFiniteSet(File) /\ "none" \notin File /\ MaxDay \in Nat
    /\ \A f \in File :
         /\ Info[f].type \in {"tb", "mf", "ms"} /\ Info[f].day \in Day
         /\ Info[f].codes \subseteq Code /\ (Info[f].type # "tb" => Info[f].codes = {})
         /\ Info[f].ar \in Int /\ Info[f].rest \in Int /\ Info[f].hotel \in Int /\ Info[f].act \in Int
         /\ Info[f].occupied \in Nat \cup {None} /\ Info[f].table \in Table

VARIABLES stage,     \* per row of a file, how often it is staged
          facts,     \* per row, how often it is a financial fact
          excs,      \* per row, how often it is a mapping exception
          ledger,    \* per property and day, the ledger balance facts
          stats,     \* statistics files staged and promoted
          segs,      \* per file, what its staged segment rows sum up to
          segfact,   \* per property and day, the promoted segment facts
          coverage,  \* ingestion_coverage
          done,      \* files with a transformed ingest_batch
          fed,       \* files with a batch the command line left as staged
          tx         \* transactions in flight

ivars == <<stage, facts, excs, ledger, stats, segs, segfact, coverage, done, fed, tx>>
books == <<stage, facts, excs>>
promoted == <<ledger, stats, segs, segfact>>
outcome == <<coverage, done, fed>>

Row == UNION {{<<f, c>> : c \in Info[f].codes} : f \in File}
RowsOf(f) == {r \in Row : r[1] = f}
RowsOn(d) == {r \in Row : Info[r[1]].day = d}
OfDay(type, p, d) == {f \in File : Info[f].type = type /\ Info[f].prop = p /\ Info[f].day = d}

NoClose == [file |-> "none"]

IngestInit ==
    /\ stage = [r \in Row |-> 0] /\ facts = [r \in Row |-> 0] /\ excs = [r \in Row |-> 0]
    /\ ledger = [p \in Property |-> [d \in Day |-> NoClose]]
    /\ stats = {} /\ segs = [f \in File |-> NoTable]
    /\ segfact = [p \in Property |-> [d \in Day |-> NoTable]]
    /\ coverage = {} /\ done = {} /\ fed = {}
    /\ tx = [w \in Worker |-> Idle]

Pc(w, pc) == tx[w].pc = pc
Goto(w, new) == tx' = [tx EXCEPT ![w] = new]
Loading(w) == tx[w].pc \in {"staged", "read", "flushed"}

(* An INSERT that meets another transaction's row waits for it to end. *)
InFlight(f) == \E w \in Worker : Loading(w) /\ tx[w].file = f

(* Faulty: the row hash is not looked at. *)
NewRows_All(f) == RowsOf(f)

(* stage_records: ON CONFLICT (org, source, date, row_hash) DO NOTHING. *)
NewRows(f) == {r \in RowsOf(f) : stage[r] = 0}

-----------------------------------------------------------------------------
(* The segment rows a transaction sees: those committed, and its own file's. *)
Seen(g, f) == IF g = f /\ segs[g] = NoTable THEN Info[g].table ELSE segs[g]

(* promote_segments over what is staged: a day with facts is skipped, else   *)
(* its codes are summed.                                                     *)
promote_segments(f) ==
    LET p == Info[f].prop  d == Info[f].day  S == OfDay("ms", p, d)
    IN  IF Info[f].type # "ms" \/ segfact[p][d] # NoTable THEN NoTable
        ELSE [ROOMS |-> MapThenSumSet(LAMBDA g : Seen(g, f).ROOMS, S),
              ROOM_REVENUE |-> MapThenSumSet(LAMBDA g : Seen(g, f).ROOM_REVENUE, S)]

Slot(f) == <<Info[f].prop, Info[f].day, Info[f].type>>

(* What process_bytes holds at its end: coverage looked up and, if missing, *)
(* about to be inserted; segments about to be promoted.                     *)
Flushed(f, new, toFacts, toExcs) ==
    [pc |-> "flushed", file |-> f, new |-> new, toFacts |-> toFacts, toExcs |-> toExcs,
     covers |-> Slot(f) \notin coverage, segment |-> promote_segments(f)]

(* The report's handler: a trial balance stages its rows for transform, a    *)
(* Manager Flash and the market statistics have none.                        *)
RunHandler(f) ==
    IF Info[f].type = "tb" THEN [pc |-> "staged", file |-> f, new |-> NewRows(f)]
    ELSE Flushed(f, {}, {}, {})

(* process_bytes, from detection to the staged rows. *)
process_bytes(w, f) ==
    /\ Pc(w, "idle")
    /\ ~InFlight(f)
    /\ Goto(w, RunHandler(f))
    /\ UNCHANGED <<books, promoted, outcome>>

(* transform's reads: the date's staged rows, then which of them have a fact *)
(* or an exception already.                                                  *)
ReadRows(w, d) ==
    LET copies(r) == stage[r] + (IF r \in tx[w].new THEN 1 ELSE 0)
    IN  /\ Pc(w, "staged")
        /\ d = IF tx[w].file = "none" THEN tx[w].day ELSE Info[tx[w].file].day
        /\ Goto(w, [pc |-> "read", file |-> tx[w].file, new |-> tx[w].new, day |-> d,
                    total |-> MapThenSumSet(copies, RowsOn(d)),
                    todo |-> {r \in RowsOn(d) : facts[r] + excs[r] < copies(r)}])
        /\ UNCHANGED <<books, promoted, outcome>>

(* A pipeline failure: everything is rolled back.  The failed batch and the *)
(* error record that say so are read by nobody here.                        *)
Fail(w) ==
    /\ Goto(w, Idle)
    /\ UNCHANGED <<books, promoted, outcome>>

(* transform's writes: an insert of a row someone else has mapped meanwhile  *)
(* breaks the unique stage_id; then the sums of all facts and exceptions of  *)
(* the date, as committed by now, must equal the rows that were read.        *)
Flush(w) ==
    /\ Pc(w, "read")
    /\ LET todo == tx[w].todo
           own(r) == IF r \in tx[w].new THEN 1 ELSE 0
           clash == \E r \in todo : facts[r] + excs[r] >= stage[r] + own(r)
           sums == MapThenSumSet(LAMBDA r : facts[r] + excs[r], RowsOn(tx[w].day)) + Cardinality(todo)
           toFacts == {r \in todo : r[2] \in Mapped}
       IN  /\ ~\E v \in Worker \ {w} : Pc(v, "flushed") /\ (tx[v].toFacts \cup tx[v].toExcs) \cap todo # {}
           /\ IF clash \/ sums # tx[w].total THEN Fail(w)
              ELSE /\ Goto(w, IF tx[w].file = "none"
                              THEN [pc |-> "flushed", file |-> "none", new |-> {},
                                    toFacts |-> toFacts, toExcs |-> todo \ toFacts]
                              ELSE Flushed(tx[w].file, tx[w].new, toFacts, todo \ toFacts))
                   /\ UNCHANGED <<books, promoted, outcome>>

(* The unique key (property, source, date, ledger_code): another export of   *)
(* the day has its balances on file.  The same file's are skipped.           *)
LedgerTaken(f) ==
    /\ Info[f].type = "tb"
    /\ ledger[Info[f].prop][Info[f].day].file \notin {"none", f}

(* A key that was free when it was looked up and is not at the insert. *)
Conflict(w) ==
    LET f == tx[w].file
    IN  \/ LedgerTaken(f)
        \/ tx[w].covers /\ Slot(f) \in coverage
        \/ tx[w].segment # NoTable /\ segfact[Info[f].prop][Info[f].day] # NoTable

Plus(count, rows) == [r \in Row |-> count[r] + (IF r \in rows THEN 1 ELSE 0)]

(* promote_ledgers: a file whose balances are on file adds nothing. *)
promote_ledgers(f) ==
    IF Info[f].type = "tb" /\ ledger[Info[f].prop][Info[f].day].file # f
    THEN [ledger EXCEPT ![Info[f].prop][Info[f].day] =
            [file |-> f, ar |-> Info[f].ar, rest |-> Info[f].rest, hotel |-> Info[f].hotel,
             act |-> Info[f].act]]
    ELSE ledger

(* stage_statistics and promote_statistics: a file already there adds nothing. *)
promote_statistics(f) == IF Info[f].type = "mf" THEN stats \cup {f} ELSE stats

(* stage_segments: ON CONFLICT (row_hash) DO NOTHING. *)
stage_segments(f) ==
    IF Info[f].type = "ms" /\ segs[f] = NoTable THEN [segs EXCEPT ![f] = Info[f].table] ELSE segs

(* The rows of a transform, committed. *)
BooksCommit(w) ==
    /\ stage' = Plus(stage, tx[w].new)
    /\ facts' = Plus(facts, tx[w].toFacts)
    /\ excs' = Plus(excs, tx[w].toExcs)

(* The end of process_bytes. *)
Commit(w) ==
    LET f == tx[w].file
    IN  /\ Pc(w, "flushed") /\ f # "none"
        /\ IF Conflict(w) THEN Fail(w)
           ELSE /\ BooksCommit(w)
                /\ ledger' = promote_ledgers(f)
                /\ stats' = promote_statistics(f)
                /\ segs' = stage_segments(f)
                /\ segfact' = IF tx[w].segment # NoTable
                              THEN [segfact EXCEPT ![Info[f].prop][Info[f].day] = tx[w].segment]
                              ELSE segfact
                /\ coverage' = coverage \cup {Slot(f)}
                /\ done' = done \cup {f}
                /\ Goto(w, Idle)
                /\ UNCHANGED fed

(* The end of the CLI's transform. *)
TransformCommit(w) ==
    /\ Pc(w, "flushed") /\ tx[w].file = "none"
    /\ BooksCommit(w)
    /\ Goto(w, Idle)
    /\ UNCHANGED <<promoted, outcome>>

(* Any other refusal of the pipeline, or a crash. *)
Abort(w) == Loading(w) /\ Fail(w)

(* The CLI's ingest: a trial balance's rows are staged and nothing more. *)
ingest_cmd(f) ==
    /\ Info[f].type = "tb" /\ ~InFlight(f)
    /\ Cardinality(fed \cup {f}) <= MaxFed
    /\ stage' = Plus(stage, NewRows(f))
    /\ fed' = fed \cup {f}
    /\ UNCHANGED <<facts, excs, promoted, coverage, done, tx>>

(* The CLI's transform. *)
transform_cmd(w, d) ==
    /\ Pc(w, "idle")
    /\ Goto(w, [pc |-> "staged", file |-> "none", new |-> {}, day |-> d])
    /\ UNCHANGED <<books, promoted, outcome>>

IngestNext ==
    \/ \E w \in Worker, f \in File : process_bytes(w, f)
    \/ \E w \in Worker, d \in Day : transform_cmd(w, d) \/ ReadRows(w, d)
    \/ \E w \in Worker : Flush(w) \/ Commit(w) \/ TransformCommit(w) \/ Abort(w)
    \/ \E f \in File : ingest_cmd(f)

-----------------------------------------------------------------------------
(* Properties *)

(* "Nothing is silently dropped" and nothing counts twice: a line of a file   *)
(* is staged at most once however often and however concurrently the file     *)
(* arrives, never has more than one fact or exception, and a file uploaded    *)
(* whole is in whole, with every line accounted for, or not in at all         *)
(* (stage_records, transform).                                                *)
EveryRowAccounted ==
    /\ \A r \in Row : stage[r] <= 1 /\ facts[r] + excs[r] <= stage[r]
    /\ \A f \in File :
         (f \notin fed /\ \E r \in RowsOf(f) : stage[r] > 0) =>
             /\ f \in done
             /\ \A r \in RowsOf(f) : facts[r] + excs[r] = 1

(* A corrected export of a day never doubles it: of the trial balances of a   *)
(* property's day that were uploaded, one has facts; the others are           *)
(* quarantined whole, "loud, never silent" (the unique key of                 *)
(* usali_ledger_balance_fact).  Rows staged from the command line are apart.  *)
OneExportPerDay ==
    \A p \in Property, d \in Day :
        Cardinality({f \in OfDay("tb", p, d) :
                       f \notin fed /\ \E r \in RowsOf(f) : facts[r] + excs[r] > 0}) <= 1
=============================================================================
