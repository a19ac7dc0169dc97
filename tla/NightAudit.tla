----------------------------- MODULE NightAudit -----------------------------
(***************************************************************************)
(* The night audit of one Opera property over what Ingestion lands: the    *)
(* explicit business date, the checklist, the ledger and segment checks,   *)
(* the corrections an auditor may make, and the roll (usali/night_audit.py,*)
(* night_audit_api.py).                                                    *)
(*                                                                         *)
(* The roll window (00:00-05:00) only narrows when a roll may happen; any  *)
(* roll here may fall into it.  Amounts are whole units, so the cent of    *)
(* tolerance is exact equality.                                            *)
(***************************************************************************)
EXTENDS Ingestion, Sequences

CONSTANTS Home,     \* the audited property
          Today,    \* its business date when it has no data yet
          RoomCode, \* transaction codes of the USALI sub-category Rooms
          Amount,   \* amounts and room counts an auditor may enter
          MaxLog    \* bound: corrections of a close

ASSUME AuditConstants == Home \in Property /\ Today \in Day /\ Amount \subseteq Nat \ {0} /\ MaxLog \in Nat

VARIABLES date,    \* night_audit_state.current_business_date, or None
          log,     \* night_audit_adjustment, its AR_LEDGER rows
          sealed   \* per rolled day, what its roll saw

avars == <<date, log, sealed>>
naVars == <<ivars, avars>>
NoSeal == [seen |-> None]

NaInit == IngestInit /\ date = None /\ log = <<>> /\ sealed = [d \in Day |-> NoSeal]

REQUIRED_REPORTS == {"tb", "mf", "ms"}

FactDays == {d \in Day : \E f \in OfDay("tb", Home, d) : \E r \in RowsOf(f) : facts[r] > 0}

(* get_or_init_state: the stored date, else the day after the last fact. *)
CurrentDate == IF date # None THEN date ELSE IF FactDays = {} THEN Today ELSE Max(FactDays) + 1

(* GET of the audit page stores the date. *)
get_night_audit ==
    /\ date = None
    /\ date' = CurrentDate
    /\ UNCHANGED <<ivars, log, sealed>>

(* The page's upload, after that GET: a file of this property and of the date
   as it is now, whatever it is by the time the file has landed. *)
upload_night_audit_report(w, f) ==
    /\ date # None
    /\ Info[f].prop = Home /\ Info[f].day = date
    /\ process_bytes(w, f)
    /\ UNCHANGED avars

Close(d) == IF d \in Day THEN ledger[Home][d] ELSE NoClose

Landed(d) == \A t \in REQUIRED_REPORTS : <<Home, d, t>> \in coverage

(* The sub-ledgers of the close add up to the hotel's. *)
Even(d) == Close(d).ar + Close(d).rest = Close(d).hotel
Ties(d) == Close(d - 1).ar + Close(d).act = Close(d).ar

(* Faulty: the close is only checked against itself. *)
ledger_checks_IdentityOnly(d) == Close(d) # NoClose /\ Even(d)

(* ledger_checks: balances on file once the trial balance has landed, the    *)
(* balance identity, and the prior AR close, if there is one, rolls forward. *)
ledger_checks(d) ==
    /\ Close(d) # NoClose /\ Even(d)
    /\ Close(d - 1) # NoClose => Ties(d)

Staged(d) == {f \in OfDay("ms", Home, d) : segs[f] # NoTable}

(* The ROOMS_OCCUPIED facts of a day, and the rows behind its Rooms line. *)
Flashed(d) == {m \in stats \cap OfDay("mf", Home, d) : Info[m].occupied # None}
RoomsLine(d) ==
    {r \in Row : r[1] \in OfDay("tb", Home, d) /\ r[2] \in RoomCode /\ facts[r] > 0}

(* segment_reconciliation: skipped, and nothing is compared, while a        *)
(* reference is missing.  Where a day was exported twice, whichever staged  *)
(* rows and whichever occupied rooms the database returns are the ones      *)
(* compared.  The tables that pass:                                         *)
segment_reconciliation(d) ==
    LET revenue == MapThenSumSet(LAMBDA r : facts[r], RoomsLine(d))
    IN  IF Staged(d) = {} \/ Flashed(d) = {} \/ RoomsLine(d) = {} THEN {NoTable}
        ELSE {segs[f] : f \in Staged(d)} \cap
             {[ROOMS |-> Info[m].occupied, ROOM_REVENUE |-> revenue] : m \in Flashed(d)}

(* The day after. *)
Rolled(d) == d + 1

(* roll_night_audit, its checks: only a reconciliation that fails refuses. *)
roll_night_audit(w) ==
    LET d == CurrentDate
    IN  /\ Pc(w, "idle") /\ d \in Day
        /\ Landed(d) /\ ledger_checks(d)
        /\ \E table \in segment_reconciliation(d) :
             Goto(w, [pc |-> "rolling", day |-> d, seen |-> Len(log), prior |-> Close(d - 1) # NoClose,
                      booked |-> segfact[Home][d], tied |-> table])
        /\ UNCHANGED <<books, promoted, outcome, avars>>

(* The date is written as a value, not as an increment. *)
RollCommit(w) ==
    /\ Pc(w, "rolling")
    /\ date' = Rolled(tx[w].day)
    /\ sealed' = [sealed EXCEPT ![tx[w].day] =
                    [seen |-> tx[w].seen, prior |-> tx[w].prior,
                     booked |-> tx[w].booked, tied |-> tx[w].tied]]
    /\ Goto(w, Idle)
    /\ UNCHANGED <<books, promoted, outcome, log>>

(* adjust_prior_close, its reads: the close of the day before the current. *)
adjust_prior_close(w, v) ==
    LET d == CurrentDate - 1
    IN  /\ Pc(w, "idle") /\ Len(log) < MaxLog
        /\ Close(d) # NoClose
        /\ Goto(w, [pc |-> "adjusting", day |-> d, old |-> Close(d).ar, new |-> v])
        /\ UNCHANGED <<books, promoted, outcome, avars>>

(* The UPDATE is only sent for a value that differs from the one loaded; it  *)
(* is of the AR close alone, so the identity of that day is gone with it.    *)
AdjustCommit(w) ==
    LET t == tx[w]
    IN  /\ Pc(w, "adjusting")
        /\ ledger' = IF t.new = t.old THEN ledger ELSE [ledger EXCEPT ![Home][t.day].ar = t.new]
        /\ log' = Append(log, [day |-> t.day, old |-> t.old, new |-> t.new])
        /\ date' = IF date = None THEN t.day + 1 ELSE date
        /\ Goto(w, Idle)
        /\ UNCHANGED <<books, stats, segs, segfact, outcome, sealed>>

(* save_segment_rows: the staged rows and their TOTAL are edited and the     *)
(* facts rebuilt.  With two exports staged the second TOTAL no longer adds   *)
(* up and promotion refuses, so nothing happens.                             *)
save_segment_rows(f, v) ==
    LET d == CurrentDate
    IN  /\ d \in Day /\ Staged(d) = {f} /\ segs[f] # v
        /\ segs' = [segs EXCEPT ![f] = v]
        /\ segfact' = [segfact EXCEPT ![Home][d] = v]
        /\ date' = d
        /\ UNCHANGED <<books, ledger, stats, outcome, tx, log, sealed>>

NaNext ==
    \/ IngestNext /\ UNCHANGED avars
    \/ get_night_audit
    \/ \E w \in Worker, f \in File : upload_night_audit_report(w, f)
    \/ \E w \in Worker, v \in Amount : adjust_prior_close(w, v)
    \/ \E w \in Worker : roll_night_audit(w) \/ RollCommit(w) \/ AdjustCommit(w)
    \/ \E f \in File, v \in [ROOMS : Amount, ROOM_REVENUE : Amount] : save_segment_rows(f, v)

NaSpec == NaInit /\ [][NaNext]_naVars

-----------------------------------------------------------------------------
(* Properties *)

NaTypeOK ==
    /\ stage \in [Row -> 0..2] /\ facts \in [Row -> 0..2] /\ excs \in [Row -> 0..2]
    /\ stats \subseteq File
    /\ \A f \in File : segs[f] \in Table
    /\ \A p \in Property, d \in Day :
         segfact[p][d] \in Table /\ (ledger[p][d] = NoClose \/ ledger[p][d].file \in OfDay("tb", p, d))
    /\ coverage \subseteq Property \X Day \X REQUIRED_REPORTS
    /\ done \subseteq File /\ fed \subseteq File
    /\ \A w \in Worker : tx[w].pc \in {"idle", "staged", "read", "flushed", "rolling", "adjusting"}
    /\ date \in {None} \cup 0..(MaxDay + 1)
    /\ \A i \in DOMAIN log : log[i].day \in Day

(* Every line of every export is in the books once, or nowhere.               *)
IngestionSafe == NaTypeOK /\ EveryRowAccounted /\ OneExportPerDay

Corrected(days, seen) == \E i \in DOMAIN log : i > seen /\ log[i].day \in days

(* A rolled day stays audited: its three reports are on file, its sub-ledgers *)
(* add up unless its own AR close was corrected since, and that close follows *)
(* from the one before it unless one of the two was; whatever uploads,        *)
(* re-exports, corrections and rolls overlapped.  A correction is one the log *)
(* has, made after the roll looked: "the control on this power is the         *)
(* append-only adjustment log".                                               *)
RolledIsAudited ==
    \A d \in Day :
        sealed[d] # NoSeal =>
            /\ \A t \in REQUIRED_REPORTS :
                 \E f \in OfDay(t, Home, d) : f \in done
            /\ Close(d) # NoClose
            /\ Even(d) \/ Corrected({d}, sealed[d].seen)
            /\ sealed[d].prior => Ties(d) \/ Corrected({d - 1, d}, sealed[d].seen)

(* The segment table the roll reconciles "reads ONLY the promoted fact        *)
(* tables - the same rows every report page uses" (night_audit.py): what it   *)
(* tied, unless the check was skipped, was what the books show.               *)
RollTiesTheBooks ==
    \A d \in Day : sealed[d] # NoSeal /\ sealed[d].tied # NoTable => sealed[d].tied = sealed[d].booked
=============================================================================
