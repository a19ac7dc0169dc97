-------------------------- MODULE NightAuditProofs --------------------------
(***************************************************************************)
(* What the property's systems report.  Every line of every export is in   *)
(* the books once or nowhere, no day is doubled by a second export, and a  *)
(* rolled day stays audited: for any files, workers, properties and days,  *)
(* and any interleaving of uploads, command-line transforms, corrections   *)
(* and rolls.  And the demand of the CRM is what was there: for any        *)
(* bookings, page size and horizon, and any interleaving of refreshes with *)
(* bookings, cancellations and changes of the connection.                  *)
(***************************************************************************)
EXTENDS NightAudit, CrmDemand, SumTheorems

-----------------------------------------------------------------------------
(* The invariant *)

Counted(r) == facts[r] + excs[r]

CloseOK(x, p, d) ==
    \/ x = NoClose
    \/ x.file \in OfDay("tb", p, d) /\ DOMAIN x = {"file", "ar", "rest", "hotel", "act"}

TablesOK ==
    /\ stage \in [Row -> {0, 1}] /\ facts \in [Row -> {0, 1}] /\ excs \in [Row -> {0, 1}]
    /\ \A r \in Row : Counted(r) <= stage[r]
    /\ DOMAIN ledger = Property
    /\ \A p \in Property : DOMAIN ledger[p] = Day /\ \A d \in Day : CloseOK(ledger[p][d], p, d)
    /\ stats \subseteq File /\ segs \in [File -> Table] /\ segfact \in [Property -> [Day -> Table]]
    /\ done \subseteq File /\ fed \subseteq File
    /\ date \in {None} \cup 0..(MaxDay + 1)
    /\ (\E S : log \in Seq(S)) /\ \A i \in 1..Len(log) : log[i].day \in Day
    /\ DOMAIN sealed = Day /\ DOMAIN tx = Worker

(* A file that was uploaded is in whole. *)
Whole(f) == f \in done /\ \A r \in RowsOf(f) : Counted(r) = 1
FilesOK == \A f \in File : (f \notin fed /\ \E r \in RowsOf(f) : stage[r] > 0) => Whole(f)

(* Its balances are those on file for its day, and coverage is of files     *)
(* that are in.                                                             *)
DoneOK ==
    /\ \A f \in done : Info[f].type = "tb" => ledger[Info[f].prop][Info[f].day].file = f
    /\ coverage \subseteq {Slot(f) : f \in done}

(* What a transaction has read.  The rows it is about to insert are those   *)
(* of its file that are not there: nobody else can be inserting them.  What *)
(* it has mapped is staged and was mapped by nobody before.                 *)
Own(t) == t.toFacts \cup t.toExcs
Loads == {"staged", "read", "flushed"}
LoadOK(t) ==
    t.pc \in Loads =>
        /\ t.file \in File \cup {"none"} /\ t.new = NewRows(t.file)
        /\ t.pc = "staged" /\ t.file = "none" => t.day \in Day
        /\ t.pc = "read" => t.todo \subseteq Row /\ t.new \subseteq t.todo
        /\ t.pc = "flushed" =>
             /\ Own(t) \subseteq Row /\ t.toFacts \cap t.toExcs = {} /\ t.new \subseteq Own(t)
             /\ \A r \in Own(t) : Counted(r) = 0 /\ (r \in t.new \/ stage[r] = 1)
             /\ t.file # "none" => t.segment \in Table

(* What the roll of a day saw holds still, or a correction of its close or  *)
(* of the one before was logged since.                                      *)
Audited(d, seen, prior) ==
    /\ \A t \in REQUIRED_REPORTS : \E f \in OfDay(t, Home, d) : f \in done
    /\ Close(d) # NoClose
    /\ Even(d) \/ \E i \in 1..Len(log) : i > seen /\ log[i].day = d
    /\ seen \in Nat /\ seen <= Len(log)
    /\ prior => /\ Close(d - 1) # NoClose
                /\ \/ Ties(d)
                   \/ \E i \in 1..Len(log) : i > seen /\ log[i].day \in {d - 1, d}

AuditOK(t) ==
    /\ t.pc = "rolling" => t.day \in Day /\ Audited(t.day, t.seen, t.prior)
    /\ t.pc = "adjusting" => t.day \in Day

TxOK(t) ==
    /\ t.pc \in Loads \cup {"idle", "rolling", "adjusting"}
    /\ LoadOK(t) /\ AuditOK(t)

(* Two transactions never load the same file or map the same row. *)
ApartOK(t, u) ==
    /\ t.pc \in Loads /\ u.pc \in Loads /\ t.file = u.file => t.file = "none"
    /\ t.pc = "flushed" /\ u.pc = "flushed" => Own(t) \cap Own(u) = {}

TxsOK ==
    /\ \A w \in Worker : \A t \in {tx[w]} : TxOK(t)
    /\ \A v, w \in Worker : v # w => ApartOK(tx[v], tx[w])

SealsOK == \A d \in Day : \A x \in {sealed[d]} : x # NoSeal => Audited(d, x.seen, x.prior)

NaInv == TablesOK /\ FilesOK /\ DoneOK /\ TxsOK /\ SealsOK

-----------------------------------------------------------------------------
(* Files, rows and closes *)

(* A row belongs to one file, of the trial balances. *)
LEMMA RowFacts ==
  ASSUME NEW r \in Row
  PROVE  r[1] \in File /\ r[2] \in Info[r[1]].codes /\ r = <<r[1], r[2]>> /\ r \in RowsOf(r[1])
         /\ Info[r[1]].day \in Day
<1>1. PICK f \in File : \E c \in Info[f].codes : r = <<f, c>>
  BY DEF Row
<1> QED BY <1>1, InfoType DEF RowsOf

(* The command line's transform inserts no rows. *)
LEMMA NoneRows == RowsOf("none") = {} /\ NewRows("none") = {}
BY RowFacts, InfoType DEF RowsOf, NewRows

(* A row is staged once and counted at most as often. *)
LEMMA RowCounts ==
  ASSUME TablesOK, NEW r \in Row
  PROVE  /\ stage[r] \in {0, 1} /\ facts[r] \in {0, 1} /\ excs[r] \in {0, 1}
         /\ Counted(r) = facts[r] + excs[r] /\ Counted(r) \in {0, 1} /\ Counted(r) <= stage[r]
<1>1. stage[r] \in {0, 1} /\ facts[r] \in {0, 1} /\ excs[r] \in {0, 1}
  BY DEF TablesOK
<1>2. Counted(r) = facts[r] + excs[r]
  BY DEF Counted
<1>3. Counted(r) <= stage[r]
  BY DEF TablesOK
<1> QED BY <1>1, <1>2, <1>3

(* The parts of a file's slot. *)
LEMMA SlotFacts ==
  ASSUME NEW f \in File
  PROVE  /\ Info[f].prop \in Property /\ Info[f].day \in Day
         /\ Info[f].type \in REQUIRED_REPORTS
         /\ f \in OfDay(Info[f].type, Info[f].prop, Info[f].day)
         /\ Slot(f) \in Property \X Day \X REQUIRED_REPORTS
BY InfoType DEF Property, REQUIRED_REPORTS, OfDay, Slot

(* No rows sum up to a table of nothing. *)
LEMMA TablesType == NoTable \in Table
BY DEF NoTable, Table

(* The empty books. *)
LEMMA NaInitInv == ASSUME NaInit PROVE NaInv
<1> USE DEF NaInit, IngestInit
<1>1. \A w \in Worker : tx[w].pc = "idle"
  BY DEF Idle
<1>2. TablesOK
  <2>1. log \in Seq({}) /\ Len(log) = 0
    OBVIOUS
  <2>2. \A r \in Row : stage[r] = 0 /\ facts[r] = 0 /\ excs[r] = 0
    OBVIOUS
  <2>3. \A r \in Row : Counted(r) <= stage[r]
    BY <2>2 DEF Counted
  <2>4. /\ DOMAIN ledger = Property
        /\ \A p \in Property : DOMAIN ledger[p] = Day /\ \A d \in Day : CloseOK(ledger[p][d], p, d)
    <3>1. \A p \in Property : DOMAIN ledger[p] = Day /\ \A d \in Day : ledger[p][d] = NoClose
      OBVIOUS
    <3>2. \A p, d : CloseOK(NoClose, p, d)
      BY DEF CloseOK
    <3>3. DOMAIN ledger = Property
      OBVIOUS
    <3> QED BY <3>1, <3>2, <3>3
  <2>5. stage \in [Row -> {0, 1}] /\ facts \in [Row -> {0, 1}] /\ excs \in [Row -> {0, 1}]
    OBVIOUS
  <2>6. segs \in [File -> Table] /\ segfact \in [Property -> [Day -> Table]]
    BY TablesType
  <2> QED BY <2>1, <2>3, <2>4, <2>5, <2>6 DEF TablesOK
<1>3. FilesOK
  BY DEF FilesOK, RowsOf
<1>4. DoneOK
  BY DEF DoneOK
<1>5. TxsOK
  BY <1>1 DEF TxsOK, TxOK, LoadOK, AuditOK, ApartOK, Loads
<1>6. SealsOK
  BY DEF SealsOK
<1> QED BY <1>2, <1>3, <1>4, <1>5, <1>6 DEF NaInv

(* The invariant has the types in it. *)
LEMMA NaInvType == ASSUME NaInv PROVE NaTypeOK
<1> USE DEF NaInv
<1>1. \A f \in File : segs[f] \in Table
  BY DEF TablesOK
<1>2. ASSUME NEW p \in Property, NEW d \in Day
      PROVE  segfact[p][d] \in Table /\ (ledger[p][d] = NoClose \/ ledger[p][d].file \in OfDay("tb", p, d))
  BY DEF TablesOK, CloseOK
<1>3. coverage \subseteq Property \X Day \X REQUIRED_REPORTS
  BY SlotFacts DEF DoneOK, TablesOK
<1>4. \A i \in DOMAIN log : log[i].day \in Day
  BY DEF TablesOK
<1>5. \A w \in Worker : tx[w].pc \in {"idle", "staged", "read", "flushed", "rolling", "adjusting"}
  BY DEF TxsOK, TxOK, Loads
<1>6. stage \in [Row -> 0..2] /\ facts \in [Row -> 0..2] /\ excs \in [Row -> 0..2]
  BY DEF TablesOK
<1>7. stats \subseteq File /\ done \subseteq File /\ fed \subseteq File /\ date \in {None} \cup 0..(MaxDay + 1)
  BY DEF TablesOK
<1> QED BY <1>1, <1>2, <1>3, <1>4, <1>5, <1>6, <1>7 DEF NaTypeOK

(* One export of a day: the others would need its balances on file. *)
LEMMA NaInvSafe == ASSUME NaInv PROVE IngestionSafe
<1> USE DEF NaInv
<1>1. EveryRowAccounted
  <2>1. ASSUME NEW r \in Row PROVE stage[r] <= 1 /\ facts[r] + excs[r] <= stage[r]
    BY RowCounts
  <2>2. ASSUME NEW f \in File, f \notin fed, \E r \in RowsOf(f) : stage[r] > 0
        PROVE  f \in done /\ \A r \in RowsOf(f) : facts[r] + excs[r] = 1
    BY <2>2 DEF FilesOK, Whole, Counted
  <2> QED BY <2>1, <2>2 DEF EveryRowAccounted
<1>2. OneExportPerDay
  <2> SUFFICES ASSUME NEW p \in Property, NEW d \in Day
               PROVE  Cardinality({f \in OfDay("tb", p, d) :
                        f \notin fed /\ \E r \in RowsOf(f) : facts[r] + excs[r] > 0}) <= 1
    BY DEF OneExportPerDay
  <2> DEFINE T == {f \in OfDay("tb", p, d) :
                     f \notin fed /\ \E r \in RowsOf(f) : facts[r] + excs[r] > 0}
  <2>1. ASSUME NEW f \in T PROVE ledger[p][d].file = f
    <3>1. f \in File /\ Info[f].type = "tb" /\ Info[f].prop = p /\ Info[f].day = d
      BY DEF OfDay
    <3>2. PICK r \in RowsOf(f) : facts[r] + excs[r] > 0
      OBVIOUS
    <3>3. stage[r] > 0
      <4>1. r \in Row
        BY DEF RowsOf
      <4> QED BY <3>2, <4>1, RowCounts
    <3>4. f \in done
      BY <3>1, <3>3 DEF FilesOK, Whole
    <3> QED BY <3>1, <3>4 DEF DoneOK
  <2> HIDE DEF T
  <2>2. T = {} \/ T = {ledger[p][d].file}
    BY <2>1
  <2>3. Cardinality(T) <= 1
    <3>1. CASE T = {}
      BY <3>1, FS_EmptySet
    <3>2. CASE T = {ledger[p][d].file}
      <4>1. PICK x : T = {x}
        BY <3>2
      <4>2. Cardinality({x}) = 1
        BY FS_Singleton, Zenon
      <4> QED BY <4>1, <4>2
    <3> QED BY <2>2, <3>1, <3>2
  <2> QED BY <2>3 DEF T
<1> QED BY <1>1, <1>2, NaInvType DEF IngestionSafe

(* What the seals say is what RolledIsAudited asks. *)
LEMMA NaInvRolled == ASSUME NaInv PROVE RolledIsAudited
<1> SUFFICES ASSUME NEW d \in Day, NEW x, x = sealed[d], x # NoSeal
             PROVE  /\ \A t \in REQUIRED_REPORTS : \E f \in OfDay(t, Home, d) : f \in done
                    /\ Close(d) # NoClose
                    /\ Even(d) \/ Corrected({d}, x.seen)
                    /\ x.prior => Ties(d) \/ Corrected({d - 1, d}, x.seen)
  BY DEF RolledIsAudited
<1>1. Audited(d, x.seen, x.prior)
  BY DEF NaInv, SealsOK
<1>2. DOMAIN log = 1..Len(log)
  BY DEF NaInv, TablesOK
<1> QED BY <1>1, <1>2 DEF Audited, Corrected

(* What a promotion adds up. *)
LEMMA SegmentType ==
  ASSUME TablesOK, NEW f \in File
  PROVE  promote_segments(f) \in Table
<1> DEFINE S == OfDay("ms", Info[f].prop, Info[f].day)
           rooms == [g \in S |-> Seen(g, f).ROOMS]
           revenue == [g \in S |-> Seen(g, f).ROOM_REVENUE]
<1>1. S \subseteq File /\ IsFiniteSet(S)
  <2>1. S \subseteq File
    BY DEF OfDay
  <2> QED BY <2>1, FS_Subset, InfoType
<1>2. ASSUME NEW g \in S PROVE Seen(g, f) \in Table
  <2>1. Info[g].table \in Table /\ segs[g] \in Table
    BY <1>1, InfoType DEF TablesOK
  <2> QED BY <2>1 DEF Seen
<1>3. /\ DOMAIN rooms = S /\ \A g \in S : rooms[g] \in Nat
      /\ DOMAIN revenue = S /\ \A g \in S : revenue[g] \in Nat
  BY <1>2 DEF Table
<1>4. Total(rooms) \in Nat /\ Total(revenue) \in Nat
  <2>1. 0 \in Nat /\ \A x, y \in Nat : x + y \in Nat
    OBVIOUS
  <2> HIDE DEF rooms, revenue, S
  <2> QED BY <1>1, <1>3, <2>1, TotalClosed
<1>5. MapThenSumSet(LAMBDA g : Seen(g, f).ROOMS, S) = Total(rooms)
  <2> DEFINE A(i) == i = [s \in SUBSET S |-> IF s = {} THEN 0
                            ELSE LET x == CHOOSE y \in s : TRUE IN Seen(x, f).ROOMS + i[s \ {x}]]
             B(i) == i = [s \in SUBSET S |-> IF s = {} THEN 0
                            ELSE LET x == CHOOSE y \in s : TRUE IN rooms[x] + i[s \ {x}]]
             sum == MapThenSumSet(LAMBDA g : Seen(g, f).ROOMS, S)
  <2>1. sum = (CHOOSE i : A(i))[S]
    BY Zenon DEF MapThenSumSet, MapThenFoldSet
  <2>2. Total(rooms) = (CHOOSE i : B(i))[S]
    BY <1>3, Zenon DEF Total, MapThenSumSet, MapThenFoldSet
  <2>3. \A i : A(i) <=> B(i)
    <3>1. \A s \in SUBSET S : s # {} => rooms[CHOOSE y \in s : TRUE] = Seen(CHOOSE y \in s : TRUE, f).ROOMS
      OBVIOUS
    <3> HIDE DEF rooms, S
    <3> QED BY <3>1
  <2> HIDE DEF A, B, sum, rooms
  <2> QED BY <2>1, <2>2, <2>3, Zenon DEF sum
<1>6. MapThenSumSet(LAMBDA g : Seen(g, f).ROOM_REVENUE, S) = Total(revenue)
  <2> DEFINE A(i) == i = [s \in SUBSET S |-> IF s = {} THEN 0
                            ELSE LET x == CHOOSE y \in s : TRUE IN Seen(x, f).ROOM_REVENUE + i[s \ {x}]]
             B(i) == i = [s \in SUBSET S |-> IF s = {} THEN 0
                            ELSE LET x == CHOOSE y \in s : TRUE IN revenue[x] + i[s \ {x}]]
             sum == MapThenSumSet(LAMBDA g : Seen(g, f).ROOM_REVENUE, S)
  <2>1. sum = (CHOOSE i : A(i))[S]
    BY Zenon DEF MapThenSumSet, MapThenFoldSet
  <2>2. Total(revenue) = (CHOOSE i : B(i))[S]
    BY <1>3, Zenon DEF Total, MapThenSumSet, MapThenFoldSet
  <2>3. \A i : A(i) <=> B(i)
    <3>1. \A s \in SUBSET S :
             s # {} => revenue[CHOOSE y \in s : TRUE] = Seen(CHOOSE y \in s : TRUE, f).ROOM_REVENUE
      OBVIOUS
    <3> HIDE DEF revenue, S
    <3> QED BY <3>1
  <2> HIDE DEF A, B, sum, revenue
  <2> QED BY <2>1, <2>2, <2>3, Zenon DEF sum
<1>7. PICK n, k : n = Total(rooms) /\ k = Total(revenue)
  OBVIOUS
<1>8. promote_segments(f) \in {NoTable, [ROOMS |-> n, ROOM_REVENUE |-> k]}
  <2> HIDE DEF rooms, revenue
  <2> QED BY <1>5, <1>6, <1>7, Zenon DEF promote_segments
<1>9. n \in Nat /\ k \in Nat
  BY <1>4, <1>7
<1> HIDE DEF rooms, revenue, S
<1> QED BY <1>8, <1>9, TablesType DEF Table

(* The business date is one of the property's days, or the day after. *)
LEMMA DateType ==
  ASSUME TablesOK
  PROVE  CurrentDate \in 0..(MaxDay + 1)
<1>1. CASE date # None
  BY <1>1 DEF CurrentDate, TablesOK
<1>2. CASE date = None /\ FactDays = {}
  BY <1>2, AuditConstants, InfoType DEF CurrentDate, Day
<1>3. CASE date = None /\ FactDays # {}
  <2> DEFINE T == {MaxDay - d : d \in FactDays}
  <2>1. FactDays \subseteq 0..MaxDay /\ MaxDay \in Nat
    BY InfoType DEF FactDays, Day
  <2>2. T \in SUBSET Nat /\ T # {}
    <3>1. \A d \in FactDays : MaxDay - d \in Nat
      <4> HIDE DEF FactDays
      <4> QED BY <2>1
    <3>2. \E d : d \in FactDays
      BY <1>3
    <3> HIDE DEF FactDays
    <3> QED BY <3>1, <3>2
  <2>3. PICK n \in T : \A k \in T : n <= k
    <3> HIDE DEF T
    <3> QED BY <2>2, LeastElement
  <2>4. PICK d \in FactDays : n = MaxDay - d
    BY <2>3
  <2>5. \A e \in FactDays : d >= e
    <3> SUFFICES ASSUME NEW e \in FactDays PROVE d >= e
      OBVIOUS
    <3>1. MaxDay - e \in T
      OBVIOUS
    <3>2. MaxDay - d <= MaxDay - e
      BY <2>3, <2>4, <3>1
    <3>3. d \in Int /\ e \in Int
      BY <2>1
    <3> QED BY <2>1, <3>2, <3>3
  <2>6. Max(FactDays) \in FactDays
    <3> HIDE DEF T
    <3> QED BY <2>4, <2>5 DEF Max
  <2>7. CurrentDate = Max(FactDays) + 1
    BY <1>3 DEF CurrentDate
  <2>8. Max(FactDays) \in 0..MaxDay
    BY <2>1, <2>6
  <2> HIDE DEF T
  <2> QED BY <2>1, <2>7, <2>8
<1> QED BY <1>1, <1>2, <1>3

-----------------------------------------------------------------------------
(* Transactions that read *)

LEMMA ApartSym == ASSUME NEW t, NEW u, ApartOK(t, u) PROVE ApartOK(u, t)
BY DEF ApartOK

tables == <<stage, facts, excs, ledger, stats, segs, segfact, coverage, done, fed, date, log, sealed>>

(* A transaction goes on and nothing is committed. *)
LEMMA TxMoves ==
  ASSUME NaInv, NEW w \in Worker, NEW k, tx' = [tx EXCEPT ![w] = k], UNCHANGED tables,
         TxOK(k), \A v \in Worker \ {w} : ApartOK(k, tx[v])
  PROVE  NaInv'
<1> USE DEF NaInv, tables
<1>1. DOMAIN tx = Worker /\ tx'[w] = k /\ \A v \in Worker \ {w} : tx'[v] = tx[v]
  BY DEF TablesOK
<1>2. DOMAIN tx' = Worker
  BY <1>1
<1>3. TablesOK'
  BY <1>2 DEF TablesOK, Counted, CloseOK
<1>4. FilesOK'
  BY DEF FilesOK, Whole, Counted
<1>5. DoneOK'
  BY DEF DoneOK
<1>6. \A d, seen, prior : Audited(d, seen, prior)' <=> Audited(d, seen, prior)
  BY DEF Audited, Close, Even, Ties
<1>7. SealsOK'
  BY <1>6 DEF SealsOK
<1>8. \A t : TxOK(t)' <=> TxOK(t)
  <2>1. \A t : LoadOK(t)' <=> LoadOK(t)
    BY DEF LoadOK, NewRows, Counted
  <2>2. \A t : AuditOK(t)' <=> AuditOK(t)
    BY <1>6 DEF AuditOK
  <2> QED BY <2>1, <2>2 DEF TxOK
<1>9. TxsOK'
  <2>1. \A v \in Worker : \A t \in {tx'[v]} : TxOK(t)'
    BY <1>1, <1>8 DEF TxsOK
  <2>2. \A u, v \in Worker : u # v => ApartOK(tx[u], tx[v])'
    BY <1>1, ApartSym DEF TxsOK
  <2> QED BY <2>1, <2>2 DEF TxsOK
<1> QED BY <1>3, <1>4, <1>5, <1>7, <1>9

(* A rollback, or the end of a transaction that committed nothing. *)
LEMMA FailStep ==
  ASSUME NaInv, NEW w \in Worker, Fail(w), UNCHANGED avars
  PROVE  NaInv'
<1>1. tx' = [tx EXCEPT ![w] = Idle] /\ UNCHANGED tables
  BY DEF Fail, Goto, tables, books, promoted, outcome, avars
<1>2. TxOK(Idle) /\ \A t : ApartOK(Idle, t)
  BY DEF TxOK, LoadOK, AuditOK, ApartOK, Idle, Loads
<1> QED BY <1>1, <1>2, TxMoves

(* An upload begins: no other transaction loads the file. *)
LEMMA UploadStep ==
  ASSUME NaInv, NEW w \in Worker, NEW f \in File, process_bytes(w, f), UNCHANGED avars
  PROVE  NaInv'
<1> DEFINE k == RunHandler(f)
<1>1. tx' = [tx EXCEPT ![w] = k] /\ UNCHANGED tables
  BY DEF process_bytes, Goto, tables, books, promoted, outcome, avars
<1>2. \A v \in Worker : tx[v].pc \in Loads => tx[v].file # f
  BY DEF process_bytes, InFlight, Loading, Loads
<1>3. CASE Info[f].type = "tb"
  <2>1. k = [pc |-> "staged", file |-> f, new |-> NewRows(f)]
    BY <1>3 DEF RunHandler
  <2>2. TxOK(k)
    BY <2>1, InfoType DEF TxOK, LoadOK, AuditOK, Loads
  <2>3. \A v \in Worker : ApartOK(k, tx[v])
    BY <1>2, <2>1 DEF ApartOK
  <2> HIDE DEF k
  <2> QED BY <1>1, <2>2, <2>3, TxMoves
<1>4. CASE Info[f].type # "tb"
  <2>1. /\ k.pc = "flushed" /\ k.file = f /\ k.new = {} /\ k.toFacts = {} /\ k.toExcs = {}
        /\ k.segment = promote_segments(f)
    BY <1>4 DEF RunHandler, Flushed
  <2>2. NewRows(f) = {}
    <3>1. Info[f].codes = {}
      BY <1>4, InfoType
    <3> QED BY <3>1, RowFacts DEF NewRows, RowsOf
  <2>3. promote_segments(f) \in Table
    BY SegmentType DEF NaInv
  <2> HIDE DEF k
  <2>4. TxOK(k)
    BY <2>1, <2>2, <2>3 DEF TxOK, LoadOK, AuditOK, Loads, Own
  <2>5. \A v \in Worker : ApartOK(k, tx[v])
    BY <1>2, <2>1 DEF ApartOK, Own
  <2> QED BY <1>1, <2>4, <2>5, TxMoves
<1> QED BY <1>3, <1>4

(* The command line's transform begins. *)
LEMMA TransformStep ==
  ASSUME NaInv, NEW w \in Worker, NEW d \in Day, transform_cmd(w, d), UNCHANGED avars
  PROVE  NaInv'
<1> DEFINE k == [pc |-> "staged", file |-> "none", new |-> {}, day |-> d]
<1>1. tx' = [tx EXCEPT ![w] = k] /\ UNCHANGED tables
  BY DEF transform_cmd, Goto, tables, books, promoted, outcome, avars
<1>2. TxOK(k)
  BY NoneRows DEF TxOK, LoadOK, AuditOK, Loads
<1>3. \A v \in Worker : ApartOK(k, tx[v])
  BY DEF ApartOK
<1> HIDE DEF k
<1> QED BY <1>1, <1>2, <1>3, TxMoves

(* transform reads: rows about to be inserted are among those to map. *)
LEMMA ReadStep ==
  ASSUME NaInv, NEW w \in Worker, NEW d \in Day, ReadRows(w, d), UNCHANGED avars
  PROVE  NaInv'
<1> DEFINE t == tx[w]
           copies(r) == stage[r] + (IF r \in t.new THEN 1 ELSE 0)
           todo == {r \in RowsOn(d) : facts[r] + excs[r] < copies(r)}
           k == [pc |-> "read", file |-> t.file, new |-> t.new, day |-> d,
                 total |-> MapThenSumSet(copies, RowsOn(d)), todo |-> todo]
<1>1. tx' = [tx EXCEPT ![w] = k] /\ UNCHANGED tables
  BY DEF ReadRows, Goto, tables, books, promoted, outcome, avars
<1>2. t.pc = "staged" /\ (t.file # "none" => d = Info[t.file].day)
  BY DEF ReadRows, Pc
<1>3. LoadOK(t) /\ t.file \in File \cup {"none"} /\ t.new = NewRows(t.file)
  BY <1>2 DEF NaInv, TxsOK, TxOK, LoadOK, Loads
<1>4. t.new \subseteq todo
  <2> SUFFICES ASSUME NEW r \in t.new PROVE r \in todo
    OBVIOUS
  <2>1. r \in RowsOf(t.file) /\ stage[r] = 0
    BY <1>3 DEF NewRows
  <2>2. r \in Row /\ r[1] = t.file
    BY <2>1 DEF RowsOf
  <2>3. t.file # "none"
    BY <2>1, NoneRows
  <2>4. r \in RowsOn(d)
    BY <1>2, <2>2, <2>3 DEF RowsOn
  <2>5. facts[r] + excs[r] = 0
    BY <2>1, <2>2, RowCounts DEF NaInv
  <2>6. copies(r) = 1
    BY <2>1
  <2> QED BY <2>4, <2>5, <2>6
<1>5. todo \subseteq Row
  BY DEF RowsOn
<1>6. k.pc = "read" /\ k.file = t.file /\ k.new = t.new /\ k.todo = todo
  OBVIOUS
<1> HIDE DEF k, todo
<1>7. TxOK(k)
  BY <1>3, <1>4, <1>5, <1>6 DEF TxOK, LoadOK, AuditOK, Loads
<1>8. \A v \in Worker \ {w} : ApartOK(k, tx[v])
  BY <1>2, <1>6 DEF ApartOK, NaInv, TxsOK, Loads
<1> QED BY <1>1, <1>7, <1>8, TxMoves

(* transform writes: what it maps is staged, is mapped by nobody and is not *)
(* about to be.                                                             *)
LEMMA FlushStep ==
  ASSUME NaInv, NEW w \in Worker, Flush(w), UNCHANGED avars
  PROVE  NaInv'
<1> DEFINE t == tx[w]
           own(r) == IF r \in t.new THEN 1 ELSE 0
           toFacts == {r \in t.todo : r[2] \in Mapped}
           k == IF t.file = "none"
                THEN [pc |-> "flushed", file |-> "none", new |-> {},
                      toFacts |-> toFacts, toExcs |-> t.todo \ toFacts]
                ELSE Flushed(t.file, t.new, toFacts, t.todo \ toFacts)
<1>1. CASE Fail(w)
  BY <1>1, FailStep
<1>2. CASE ~Fail(w)
  <2>1. /\ tx' = [tx EXCEPT ![w] = k] /\ UNCHANGED tables
        /\ \A r \in t.todo : ~(facts[r] + excs[r] >= stage[r] + own(r))
        /\ \A v \in Worker \ {w} : tx[v].pc = "flushed" => Own(tx[v]) \cap t.todo = {}
    BY <1>2 DEF Flush, Goto, Pc, tables, books, promoted, outcome, avars, Own
  <2>2. t.pc = "read"
    BY DEF Flush, Pc
  <2>3. /\ t.file \in File \cup {"none"} /\ t.new = NewRows(t.file)
        /\ t.todo \subseteq Row /\ t.new \subseteq t.todo
    BY <2>2 DEF NaInv, TxsOK, TxOK, LoadOK, Loads
  <2>4. ASSUME NEW r \in t.todo PROVE Counted(r) = 0 /\ (r \in t.new \/ stage[r] = 1)
    <3>1. r \in Row
      BY <2>3
    <3>2. r \in t.new => stage[r] = 0
      BY <2>3 DEF NewRows
    <3>3. /\ stage[r] \in {0, 1} /\ Counted(r) \in {0, 1} /\ Counted(r) <= stage[r]
          /\ Counted(r) = facts[r] + excs[r]
      BY <3>1, RowCounts DEF NaInv
    <3>4. ~(Counted(r) >= stage[r] + own(r))
      BY <2>1, <3>3
    <3> QED BY <3>2, <3>3, <3>4
  <2>5. /\ k.pc = "flushed" /\ k.file = t.file /\ k.new = t.new
        /\ k.toFacts = toFacts /\ k.toExcs = t.todo \ toFacts
        /\ k.file # "none" => k.segment = promote_segments(t.file)
    <3>1. CASE t.file = "none"
      BY <2>3, <3>1, NoneRows
    <3>2. CASE t.file # "none"
      BY <3>2 DEF Flushed
    <3> QED BY <3>1, <3>2
  <2>6. t.file # "none" => promote_segments(t.file) \in Table
    BY <2>3, SegmentType DEF NaInv
  <2> HIDE DEF k
  <2>7. Own(k) = t.todo /\ k.toFacts \cap k.toExcs = {}
    BY <2>5 DEF Own
  <2>8. TxOK(k)
    BY <2>3, <2>4, <2>5, <2>6, <2>7 DEF TxOK, LoadOK, AuditOK, Loads
  <2>9. \A v \in Worker \ {w} : ApartOK(k, tx[v])
    BY <2>1, <2>2, <2>5, <2>7 DEF ApartOK, NaInv, TxsOK, Loads
  <2> QED BY <2>1, <2>8, <2>9, TxMoves
<1> QED BY <1>1, <1>2

(* The roll's checks: what it is about to seal is so. *)
LEMMA RollStep ==
  ASSUME NaInv, NEW w \in Worker, roll_night_audit(w)
  PROVE  NaInv'
<1> DEFINE d == CurrentDate
<1>0. PICK table \in segment_reconciliation(d) :
        tx' = [tx EXCEPT ![w] = [pc |-> "rolling", day |-> d, seen |-> Len(log), prior |-> Close(d - 1) # NoClose,
                                 booked |-> segfact[Home][d], tied |-> table]]
  BY DEF roll_night_audit, Goto
<1> DEFINE k == [pc |-> "rolling", day |-> d, seen |-> Len(log), prior |-> Close(d - 1) # NoClose,
                 booked |-> segfact[Home][d], tied |-> table]
<1>1. tx' = [tx EXCEPT ![w] = k] /\ UNCHANGED tables
  BY <1>0 DEF roll_night_audit, tables, books, promoted, outcome, avars
<1>2. d \in Day /\ Landed(d) /\ ledger_checks(d)
  BY DEF roll_night_audit
<1>3. ASSUME NEW t \in REQUIRED_REPORTS PROVE \E g \in OfDay(t, Home, d) : g \in done
  <2>1. PICK g \in done : Slot(g) = <<Home, d, t>>
    BY <1>2 DEF Landed, NaInv, DoneOK
  <2>2. g \in File /\ Info[g].prop = Home /\ Info[g].day = d /\ Info[g].type = t
    BY <2>1 DEF Slot, NaInv, TablesOK
  <2> QED BY <2>1, <2>2 DEF OfDay
<1>4. Len(log) \in Nat
  BY DEF NaInv, TablesOK
<1>5. PICK e \in Day : e = d
  BY <1>2
<1>6. Audited(e, Len(log), Close(e - 1) # NoClose)
  BY <1>2, <1>3, <1>4, <1>5 DEF Audited, ledger_checks
<1>7. k.pc = "rolling" /\ k.day = e /\ k.seen = Len(log) /\ (k.prior <=> Close(e - 1) # NoClose)
  BY <1>5
<1>8. k.prior \in BOOLEAN
  BY Zenon
<1> HIDE DEF k, d
<1>9. Audited(k.day, k.seen, k.prior)
  BY <1>6, <1>7, <1>8 DEF Audited
<1>10. TxOK(k)
  BY <1>7, <1>9 DEF TxOK, LoadOK, AuditOK, Loads
<1>11. \A v \in Worker : ApartOK(k, tx[v])
  BY <1>7 DEF ApartOK, Loads
<1> QED BY <1>1, <1>10, <1>11, TxMoves

(* A correction begins, of a close that is on file. *)
LEMMA AdjustStep ==
  ASSUME NaInv, NEW w \in Worker, NEW v \in Amount, adjust_prior_close(w, v)
  PROVE  NaInv'
<1> DEFINE d == CurrentDate - 1
           k == [pc |-> "adjusting", day |-> d, old |-> Close(d).ar, new |-> v]
<1>1. tx' = [tx EXCEPT ![w] = k] /\ UNCHANGED tables
  BY DEF adjust_prior_close, Goto, tables, books, promoted, outcome, avars
<1>2. d \in Day
  BY DEF adjust_prior_close, Close
<1>3. k.pc = "adjusting" /\ k.day = d
  OBVIOUS
<1> HIDE DEF k, d
<1>4. TxOK(k) /\ \A u \in Worker : ApartOK(k, tx[u])
  BY <1>2, <1>3 DEF TxOK, LoadOK, AuditOK, ApartOK, Loads
<1> QED BY <1>1, <1>4, TxMoves

-----------------------------------------------------------------------------
(* Transactions that write *)

(* What a transaction that goes on has read is still so. *)
Keeps(t) ==
    t.pc \in Loads =>
        /\ NewRows(t.file)' = NewRows(t.file)
        /\ t.pc = "flushed" =>
             \A r \in Own(t) : Counted(r)' = Counted(r) /\ (stage[r] = 1 => stage'[r] = 1)

(* A transaction ends, the others go on. *)
LEMMA Others ==
  ASSUME NaInv, TablesOK', FilesOK', DoneOK', SealsOK',
         \A v \in Worker : tx'[v] \in {tx[v], Idle},
         \A v \in Worker : tx'[v] = tx[v] => \A t \in {tx[v]} : Keeps(t),
         \A d \in Day : \A seen, prior : Audited(d, seen, prior) => Audited(d, seen, prior)'
  PROVE  NaInv'
<1>1. ASSUME NEW v \in Worker, NEW t, t = tx'[v] PROVE TxOK(t)'
  <2>1. CASE t = Idle
    BY <2>1 DEF TxOK, LoadOK, AuditOK, Loads, Idle
  <2>2. CASE t = tx[v]
    <3>1. TxOK(t) /\ Keeps(t)
      BY <1>1, <2>2 DEF NaInv, TxsOK
    <3>2. LoadOK(t)'
      BY <3>1 DEF TxOK, LoadOK, Keeps
    <3>3. AuditOK(t)'
      BY <3>1 DEF TxOK, AuditOK
    <3> QED BY <3>1, <3>2, <3>3 DEF TxOK
  <2> QED BY <1>1, <2>1, <2>2
<1>2. \A t : ApartOK(Idle, t) /\ ApartOK(t, Idle)
  BY DEF ApartOK, Loads, Idle
<1>3. \A u, v \in Worker : u # v => ApartOK(tx[u], tx[v])'
  BY <1>2 DEF NaInv, TxsOK
<1>4. TxsOK'
  BY <1>1, <1>3 DEF TxsOK
<1> QED BY <1>4 DEF NaInv

(* Closes that are on file stay as they are, and reports that are in too.   *)
LEMMA AuditStays ==
  ASSUME NaInv, UNCHANGED log, done \subseteq done',
         \A d \in Day : ledger[Home][d] # NoClose => ledger'[Home][d] = ledger[Home][d]
  PROVE  \A d \in Day : \A seen, prior : Audited(d, seen, prior) => Audited(d, seen, prior)'
<1> SUFFICES ASSUME NEW d \in Day, NEW seen, NEW prior, Audited(d, seen, prior)
             PROVE  Audited(d, seen, prior)'
  OBVIOUS
<1>1. \A e : Close(e) # NoClose => Close(e)' = Close(e)
  BY DEF Close
<1>2. Close(d)' = Close(d)
  BY <1>1 DEF Audited
<1>3. prior => Close(d - 1)' = Close(d - 1)
  BY <1>1 DEF Audited
<1>4. (Even(d)' <=> Even(d)) /\ (prior => (Ties(d)' <=> Ties(d)))
  BY <1>2, <1>3 DEF Even, Ties
<1> QED BY <1>2, <1>3, <1>4 DEF Audited

(* The rows of a transform are committed: a row of this file that was not   *)
(* there is now there and counted, a row of another file at most counted.   *)
LEMMA RowsCommit ==
  ASSUME NaInv, NEW w \in Worker, Pc(w, "flushed"), BooksCommit(w), UNCHANGED fed,
         done \subseteq done', tx[w].file # "none" => tx[w].file \in done'
  PROVE  /\ stage' \in [Row -> {0, 1}] /\ facts' \in [Row -> {0, 1}] /\ excs' \in [Row -> {0, 1}]
         /\ \A r \in Row : Counted(r)' <= stage'[r]
         /\ FilesOK'
         /\ \A v \in Worker \ {w} : \A t \in {tx[v]} : Keeps(t)
<1>1. PICK t : t = tx[w]
  OBVIOUS
<1>2. TxOK(t) /\ t.pc = "flushed"
  BY <1>1 DEF NaInv, TxsOK, Pc
<1>3. /\ t.file \in File \cup {"none"} /\ t.new = NewRows(t.file)
      /\ Own(t) \subseteq Row /\ t.toFacts \cap t.toExcs = {} /\ t.new \subseteq Own(t)
      /\ \A r \in Own(t) : Counted(r) = 0 /\ (r \in t.new \/ stage[r] = 1)
  BY <1>2 DEF TxOK, LoadOK, Loads
<1>4. \A r \in Row :
        /\ stage'[r] = stage[r] + (IF r \in t.new THEN 1 ELSE 0)
        /\ facts'[r] = facts[r] + (IF r \in t.toFacts THEN 1 ELSE 0)
        /\ excs'[r] = excs[r] + (IF r \in t.toExcs THEN 1 ELSE 0)
  BY <1>1 DEF BooksCommit, Plus
<1>5. DOMAIN stage' = Row /\ DOMAIN facts' = Row /\ DOMAIN excs' = Row
  BY DEF BooksCommit, Plus
<1>6. ASSUME NEW r \in Row
      PROVE  /\ r \in t.new => stage[r] = 0 /\ stage'[r] = 1
             /\ r \notin t.new => stage'[r] = stage[r]
             /\ r \in Own(t) => Counted(r) = 0 /\ Counted(r)' = 1 /\ stage'[r] = 1
             /\ r \notin Own(t) => Counted(r)' = Counted(r)
             /\ stage'[r] \in {0, 1} /\ facts'[r] \in {0, 1} /\ excs'[r] \in {0, 1}
             /\ Counted(r)' <= stage'[r]
  <2>1. /\ stage[r] \in {0, 1} /\ facts[r] \in {0, 1} /\ excs[r] \in {0, 1}
        /\ Counted(r) = facts[r] + excs[r] /\ Counted(r) <= stage[r]
    BY RowCounts DEF NaInv
  <2>2. r \in t.new => stage[r] = 0 /\ r \in Own(t)
    BY <1>3 DEF NewRows
  <2>3. Counted(r)' = facts'[r] + excs'[r]
    BY DEF Counted
  <2>4. CASE r \in Own(t)
    <3>1. (r \in t.toFacts /\ r \notin t.toExcs) \/ (r \notin t.toFacts /\ r \in t.toExcs)
      BY <1>3, <2>4 DEF Own
    <3>2. Counted(r) = 0 /\ (r \in t.new \/ stage[r] = 1)
      BY <1>3, <2>4
    <3> QED BY <1>4, <2>1, <2>2, <2>3, <2>4, <3>1, <3>2
  <2>5. CASE r \notin Own(t)
    <3>1. r \notin t.toFacts /\ r \notin t.toExcs /\ r \notin t.new
      BY <2>2, <2>5 DEF Own
    <3> QED BY <1>4, <2>1, <2>3, <2>5, <3>1
  <2> QED BY <2>4, <2>5
<1>7. FilesOK'
  <2> SUFFICES ASSUME NEW f \in File, f \notin fed, NEW r \in RowsOf(f), stage'[r] > 0
               PROVE  Whole(f)'
    BY DEF FilesOK, RowsOf
  <2>0. RowsOf(f)' = RowsOf(f) /\ \A q \in RowsOf(f) : q \in Row /\ q[1] = f
    BY DEF RowsOf
  <2>1. CASE \E q \in RowsOf(f) : stage[q] > 0
    <3>1. f \in done /\ \A q \in RowsOf(f) : Counted(q) = 1
      BY <2>1 DEF NaInv, FilesOK, Whole
    <3>2. \A q \in RowsOf(f) : Counted(q)' = 1
      BY <1>6, <2>0, <3>1
    <3> QED BY <2>0, <3>1, <3>2 DEF Whole
  <2>2. CASE \A q \in RowsOf(f) : ~(stage[q] > 0)
    <3>1. \A q \in RowsOf(f) : stage[q] = 0
      BY <2>0, <2>2, RowCounts DEF NaInv
    <3>2. r \in t.new
      BY <1>6, <2>0, <3>1
    <3>3. t.file = f
      BY <1>3, <2>0, <3>2 DEF NewRows, RowsOf
    <3>4. f \in done' /\ \A q \in RowsOf(f) : q \in t.new
      BY <1>1, <1>3, <3>1, <3>3, InfoType DEF NewRows
    <3>5. \A q \in RowsOf(f) : Counted(q)' = 1
      BY <1>3, <1>6, <2>0, <3>4
    <3> QED BY <2>0, <3>4, <3>5 DEF Whole
  <2> QED BY <2>1, <2>2
<1>8. ASSUME NEW v \in Worker \ {w}, NEW u, u = tx[v] PROVE Keeps(u)
  <2> SUFFICES ASSUME u.pc \in Loads
               PROVE  /\ NewRows(u.file)' = NewRows(u.file)
                      /\ u.pc = "flushed" =>
                           \A r \in Own(u) : Counted(r)' = Counted(r) /\ (stage[r] = 1 => stage'[r] = 1)
    BY DEF Keeps
  <2>1. ApartOK(t, u) /\ TxOK(u)
    BY <1>1, <1>8 DEF NaInv, TxsOK
  <2>2. u.file = t.file => u.file = "none"
    BY <1>2, <2>1 DEF ApartOK, Loads
  <2>3. ASSUME NEW r \in RowsOf(u.file) PROVE r \in Row /\ stage'[r] = stage[r]
    <3>1. r \in Row /\ r[1] = u.file /\ r[1] \in File
      BY <2>3, RowFacts DEF RowsOf
    <3>2. r \notin t.new
      BY <1>3, <2>2, <3>1, InfoType DEF NewRows, RowsOf
    <3> QED BY <1>6, <3>1, <3>2
  <2>4. NewRows(u.file)' = NewRows(u.file)
    BY <2>3 DEF NewRows, RowsOf
  <2>5. ASSUME u.pc = "flushed", NEW r \in Own(u)
        PROVE  Counted(r)' = Counted(r) /\ (stage[r] = 1 => stage'[r] = 1)
    <3>1. r \in Row /\ r \notin Own(t)
      BY <1>2, <2>1, <2>5 DEF ApartOK, TxOK, LoadOK, Loads
    <3> QED BY <1>6, <3>1
  <2> QED BY <2>4, <2>5
<1>9. stage' \in [Row -> {0, 1}] /\ facts' \in [Row -> {0, 1}] /\ excs' \in [Row -> {0, 1}]
  <2>1. /\ stage' = [r \in Row |-> stage[r] + (IF r \in tx[w].new THEN 1 ELSE 0)]
        /\ facts' = [r \in Row |-> facts[r] + (IF r \in tx[w].toFacts THEN 1 ELSE 0)]
        /\ excs' = [r \in Row |-> excs[r] + (IF r \in tx[w].toExcs THEN 1 ELSE 0)]
    BY DEF BooksCommit, Plus
  <2> QED BY <1>6, <2>1
<1> QED BY <1>6, <1>7, <1>8, <1>9

(* Only the transaction that ends is not as it was. *)
LEMMA Ends ==
  ASSUME NaInv, NEW w \in Worker, Goto(w, Idle), ~Pc(w, "idle")
  PROVE  /\ DOMAIN tx' = Worker
         /\ \A v \in Worker : tx'[v] \in {tx[v], Idle}
         /\ \A v \in Worker : tx'[v] = tx[v] => v # w
BY DEF NaInv, TablesOK, Goto, Pc, Idle

(* An upload commits.  A close of another export is never replaced.         *)
LEMMA CommitStep ==
  ASSUME NaInv, NEW w \in Worker, Commit(w), UNCHANGED avars
  PROVE  NaInv'
<1> DEFINE f == tx[w].file
           p == Info[f].prop
           d == Info[f].day
<1>1. CASE Conflict(w)
  <2>1. Fail(w)
    BY <1>1 DEF Commit
  <2> QED BY <2>1, FailStep
<1>2. CASE ~Conflict(w)
  <2>1. /\ Pc(w, "flushed") /\ f # "none" /\ BooksCommit(w)
        /\ ledger' = promote_ledgers(f) /\ stats' = promote_statistics(f) /\ segs' = stage_segments(f)
        /\ segfact' = IF tx[w].segment # NoTable THEN [segfact EXCEPT ![p][d] = tx[w].segment] ELSE segfact
        /\ coverage' = coverage \cup {Slot(f)} /\ done' = done \cup {f}
        /\ Goto(w, Idle) /\ UNCHANGED fed
    BY <1>2 DEF Commit
  <2>2. f \in File /\ tx[w].segment \in Table
    BY <2>1 DEF NaInv, TxsOK, TxOK, LoadOK, Loads, Pc
  <2>3. p \in Property /\ d \in Day /\ f \in OfDay(Info[f].type, p, d)
    BY <2>2, SlotFacts
  <2>4. /\ stage' \in [Row -> {0, 1}] /\ facts' \in [Row -> {0, 1}] /\ excs' \in [Row -> {0, 1}]
        /\ \A r \in Row : Counted(r)' <= stage'[r]
        /\ FilesOK'
        /\ \A v \in Worker \ {w} : \A t \in {tx[v]} : Keeps(t)
    BY <2>1, <2>2, RowsCommit
  <2>5. /\ DOMAIN ledger' = Property
        /\ \A q \in Property : DOMAIN ledger'[q] = Day
        /\ \A q \in Property, e \in Day : ledger'[q][e] =
             IF Info[f].type = "tb" /\ ledger[p][d].file # f /\ q = p /\ e = d
             THEN [file |-> f, ar |-> Info[f].ar, rest |-> Info[f].rest, hotel |-> Info[f].hotel, act |-> Info[f].act]
             ELSE ledger[q][e]
    <3>1. DOMAIN ledger = Property /\ \A q \in Property : DOMAIN ledger[q] = Day
      BY DEF NaInv, TablesOK
    <3> QED BY <2>1, <2>3, <3>1 DEF promote_ledgers
  <2>6. Info[f].type = "tb" => ledger[p][d].file \in {"none", f}
    BY <1>2 DEF Conflict, LedgerTaken
  <2>7. \A q \in Property, e \in Day :
          ledger[q][e] # NoClose => ledger'[q][e] = ledger[q][e] /\ ledger[q][e].file # "none"
    <3> SUFFICES ASSUME NEW q \in Property, NEW e \in Day, ledger[q][e] # NoClose
                 PROVE  ledger'[q][e] = ledger[q][e] /\ ledger[q][e].file # "none"
      OBVIOUS
    <3>1. ledger[q][e].file \in File
      BY DEF NaInv, TablesOK, CloseOK, OfDay
    <3>2. f # "none" /\ ledger[q][e].file # "none"
      BY <2>1, <3>1, InfoType
    <3>3. ~(Info[f].type = "tb" /\ ledger[p][d].file # f /\ q = p /\ e = d)
      BY <2>6, <3>2
    <3> HIDE DEF f, p, d
    <3> QED BY <2>5, <3>2, <3>3
  <2>8. TablesOK'
    <3>1. \A q \in Property : DOMAIN ledger'[q] = Day /\ \A e \in Day : CloseOK(ledger'[q][e], q, e)
      <4> SUFFICES ASSUME NEW q \in Property, NEW e \in Day PROVE CloseOK(ledger'[q][e], q, e)
        BY <2>5
      <4>1. CloseOK(ledger[q][e], q, e)
        BY DEF NaInv, TablesOK
      <4>2. CASE ledger'[q][e] = ledger[q][e]
        BY <4>1, <4>2
      <4>3. CASE ledger'[q][e] # ledger[q][e]
        <5>1. PICK g : g = f
          OBVIOUS
        <5>2. Info[g].type = "tb" /\ q = p /\ e = d
          BY <2>5, <4>3, <5>1
        <5>3. g \in OfDay("tb", q, e)
          BY <2>3, <5>1, <5>2
        <5>4. ledger'[q][e] = [file |-> g, ar |-> Info[g].ar, rest |-> Info[g].rest, hotel |-> Info[g].hotel, act |-> Info[g].act]
          BY <2>5, <4>3, <5>1
        <5> HIDE DEF f, p, d
        <5> QED BY <5>3, <5>4 DEF CloseOK
      <4> QED BY <4>2, <4>3
    <3>2. stats' \subseteq File
      BY <2>1, <2>2 DEF promote_statistics, NaInv, TablesOK
    <3>3. segs' \in [File -> Table]
      BY <2>1, <2>2, InfoType DEF stage_segments, NaInv, TablesOK
    <3>4. segfact' \in [Property -> [Day -> Table]]
      BY <2>1, <2>2, <2>3 DEF NaInv, TablesOK
    <3>5. done' \subseteq File /\ fed' \subseteq File
      BY <2>1, <2>2 DEF NaInv, TablesOK
    <3>6. /\ date' \in {None} \cup 0..(MaxDay + 1)
          /\ (\E S : log' \in Seq(S)) /\ \A i \in 1..Len(log') : log'[i].day \in Day
          /\ DOMAIN sealed' = Day
      BY DEF avars, NaInv, TablesOK
    <3>7. DOMAIN tx' = Worker
      BY <2>1, Ends DEF Pc
    <3> HIDE DEF f, p, d
    <3> QED BY <2>4, <2>5, <3>1, <3>2, <3>3, <3>4, <3>5, <3>6, <3>7 DEF TablesOK, CloseOK
  <2>9. DoneOK'
    <3>1. ASSUME NEW g \in done', Info[g].type = "tb"
          PROVE  ledger'[Info[g].prop][Info[g].day].file = g
      <4>1. CASE g = f
        <5>1. /\ ledger'[p][d] = IF ledger[p][d].file # f
                                THEN [file |-> f, ar |-> Info[f].ar, rest |-> Info[f].rest, hotel |-> Info[f].hotel, act |-> Info[f].act]
                                ELSE ledger[p][d]
              /\ p = Info[g].prop /\ d = Info[g].day
          BY <2>3, <2>5, <3>1, <4>1
        <5> HIDE DEF f, p, d
        <5> QED BY <4>1, <5>1
      <4>2. CASE g # f
        <5>1. g \in done /\ g \in File
          BY <2>1, <4>2 DEF NaInv, TablesOK
        <5>2. ledger[Info[g].prop][Info[g].day].file = g
          BY <3>1, <5>1 DEF NaInv, DoneOK
        <5>3. Info[g].prop \in Property /\ Info[g].day \in Day
          BY <5>1, SlotFacts
        <5>4. ledger[Info[g].prop][Info[g].day] # NoClose
          BY <5>1, <5>2, InfoType DEF NoClose
        <5> QED BY <2>7, <5>2, <5>3, <5>4
      <4> QED BY <4>1, <4>2
    <3>2. coverage' \subseteq {Slot(g) : g \in done'}
      BY <2>1 DEF NaInv, DoneOK
    <3> QED BY <3>1, <3>2 DEF DoneOK
  <2>10. \A e \in Day : \A seen, prior : Audited(e, seen, prior) => Audited(e, seen, prior)'
    <3>1. UNCHANGED log /\ done \subseteq done'
      BY <2>1 DEF avars
    <3>2. \A e \in Day : ledger[Home][e] # NoClose => ledger'[Home][e] = ledger[Home][e]
      BY <2>7, AuditConstants
    <3> QED BY <3>1, <3>2, AuditStays
  <2>11. SealsOK'
    BY <2>10 DEF NaInv, SealsOK, avars
  <2>12. /\ \A v \in Worker : tx'[v] \in {tx[v], Idle}
         /\ \A v \in Worker : tx'[v] = tx[v] => v # w
    BY <2>1, Ends DEF Pc
  <2> HIDE DEF f, p, d
  <2> QED BY <2>4, <2>8, <2>9, <2>10, <2>11, <2>12, Others
<1> QED BY <1>1, <1>2

(* The command line's transform commits. *)
LEMMA TransformCommitStep ==
  ASSUME NaInv, NEW w \in Worker, TransformCommit(w), UNCHANGED avars
  PROVE  NaInv'
<1>1. /\ Pc(w, "flushed") /\ tx[w].file = "none" /\ BooksCommit(w) /\ Goto(w, Idle)
      /\ UNCHANGED <<ledger, stats, segs, segfact, coverage, done, fed, date, log, sealed>>
  BY DEF TransformCommit, promoted, outcome, avars
<1>2. /\ stage' \in [Row -> {0, 1}] /\ facts' \in [Row -> {0, 1}] /\ excs' \in [Row -> {0, 1}]
      /\ \A r \in Row : Counted(r)' <= stage'[r]
      /\ FilesOK'
      /\ \A v \in Worker \ {w} : \A t \in {tx[v]} : Keeps(t)
  BY <1>1, RowsCommit
<1>3. /\ DOMAIN tx' = Worker
      /\ \A v \in Worker : tx'[v] \in {tx[v], Idle}
      /\ \A v \in Worker : tx'[v] = tx[v] => v # w
  BY <1>1, Ends DEF Pc
<1>4. TablesOK' /\ DoneOK'
  <2>1. DoneOK'
    BY <1>1 DEF NaInv, DoneOK
  <2>2. \A g \in Property : \A d \in Day : CloseOK(ledger[g][d], g, d)'
    BY <1>1 DEF NaInv, TablesOK, CloseOK
  <2> QED BY <1>1, <1>2, <1>3, <2>1, <2>2 DEF NaInv, TablesOK
<1>5. \A e \in Day : \A seen, prior : Audited(e, seen, prior) => Audited(e, seen, prior)'
  BY <1>1, AuditStays
<1>6. SealsOK'
  BY <1>1, <1>5 DEF NaInv, SealsOK
<1> QED BY <1>2, <1>3, <1>4, <1>5, <1>6, Others

(* The command line stages a file that no upload carries. *)
LEMMA IngestStep ==
  ASSUME NaInv, NEW f \in File, ingest_cmd(f), UNCHANGED avars
  PROVE  NaInv'
<1>1. /\ stage' = [r \in Row |-> stage[r] + (IF r \in NewRows(f) THEN 1 ELSE 0)]
      /\ fed' = fed \cup {f}
      /\ UNCHANGED <<facts, excs, ledger, stats, segs, segfact, coverage, done, tx, date, log, sealed>>
  BY DEF ingest_cmd, Plus, promoted, avars
<1>2. ASSUME NEW r \in Row
      PROVE  /\ stage'[r] \in {0, 1} /\ stage[r] <= stage'[r] /\ Counted(r)' = Counted(r)
             /\ stage[r] \in {0, 1} /\ Counted(r) <= stage[r] /\ Counted(r) \in {0, 1}
             /\ r[1] # f => stage'[r] = stage[r]
  <2>1. stage[r] \in {0, 1} /\ Counted(r) <= stage[r] /\ Counted(r) \in {0, 1}
    BY RowCounts DEF NaInv
  <2>2. r \in NewRows(f) => stage[r] = 0 /\ r[1] = f
    BY DEF NewRows, RowsOf
  <2>3. Counted(r)' = Counted(r)
    BY <1>1 DEF Counted
  <2> QED BY <1>1, <2>1, <2>2, <2>3
<1>3. TablesOK'
  <2>1. stage' \in [Row -> {0, 1}]
    BY <1>1, <1>2
  <2>2. \A r \in Row : Counted(r)' <= stage'[r]
    BY <1>2
  <2>3. fed' \subseteq File
    BY <1>1 DEF NaInv, TablesOK
  <2> QED BY <1>1, <2>1, <2>2, <2>3 DEF NaInv, TablesOK, CloseOK
<1>4. FilesOK'
  <2> SUFFICES ASSUME NEW g \in File, g \notin fed', NEW r \in RowsOf(g), stage'[r] > 0
               PROVE  Whole(g)'
    BY DEF FilesOK, RowsOf
  <2>1. g # f /\ g \notin fed /\ \A q \in RowsOf(g) : q \in Row /\ q[1] = g
    BY <1>1 DEF RowsOf
  <2>2. stage[r] > 0
    BY <1>2, <2>1
  <2>3. g \in done /\ \A q \in RowsOf(g) : Counted(q) = 1
    BY <2>1, <2>2 DEF NaInv, FilesOK, Whole
  <2> QED BY <1>1, <1>2, <2>1, <2>3 DEF Whole, RowsOf
<1>5. DoneOK'
  BY <1>1 DEF NaInv, DoneOK
<1>6. \A e \in Day : \A seen, prior : Audited(e, seen, prior) => Audited(e, seen, prior)'
  BY <1>1, AuditStays
<1>7. SealsOK'
  BY <1>1, <1>6 DEF NaInv, SealsOK
<1>8. ASSUME NEW v \in Worker, NEW t, t = tx[v] PROVE Keeps(t)
  <2> SUFFICES ASSUME t.pc \in Loads
               PROVE  /\ NewRows(t.file)' = NewRows(t.file)
                      /\ t.pc = "flushed" =>
                           \A r \in Own(t) : Counted(r)' = Counted(r) /\ (stage[r] = 1 => stage'[r] = 1)
    BY DEF Keeps
  <2>1. t.file # f
    BY <1>8 DEF ingest_cmd, InFlight, Loading, Loads
  <2>2. NewRows(t.file)' = NewRows(t.file)
    BY <1>2, <2>1 DEF NewRows, RowsOf
  <2>3. ASSUME t.pc = "flushed", NEW r \in Own(t)
        PROVE  Counted(r)' = Counted(r) /\ (stage[r] = 1 => stage'[r] = 1)
    <3>1. r \in Row
      BY <1>8, <2>3 DEF NaInv, TxsOK, TxOK, LoadOK, Loads
    <3> QED BY <1>2, <3>1
  <2> QED BY <2>2, <2>3
<1> QED BY <1>1, <1>3, <1>4, <1>5, <1>6, <1>7, <1>8, Others

(* A step that touches neither rows nor files leaves the loads alone. *)
LEMMA LoadsStay ==
  ASSUME UNCHANGED books
  PROVE  \A t : Keeps(t)
BY DEF books, Keeps, NewRows, Counted

(* The roll commits and seals what it saw. *)
LEMMA RollCommitStep ==
  ASSUME NaInv, NEW w \in Worker, RollCommit(w)
  PROVE  NaInv'
<1>1. PICK t : t = tx[w]
  OBVIOUS
<1>2. t.pc = "rolling" /\ t.day \in Day /\ Audited(t.day, t.seen, t.prior)
  BY <1>1 DEF RollCommit, Pc, NaInv, TxsOK, TxOK, AuditOK
<1>3. /\ date' = t.day + 1
      /\ sealed' = [sealed EXCEPT ![t.day] = [seen |-> t.seen, prior |-> t.prior,
                                              booked |-> t.booked, tied |-> t.tied]]
      /\ Goto(w, Idle)
      /\ UNCHANGED <<stage, facts, excs, ledger, stats, segs, segfact, coverage, done, fed, log>>
  BY <1>1 DEF RollCommit, Rolled, books, promoted, outcome
<1>4. /\ DOMAIN tx' = Worker
      /\ \A v \in Worker : tx'[v] \in {tx[v], Idle}
  BY <1>1, <1>2, <1>3, Ends DEF Pc
<1>5. TablesOK'
  <2>1. date' \in {None} \cup 0..(MaxDay + 1)
    BY <1>2, <1>3, InfoType DEF Day
  <2>2. DOMAIN sealed' = Day
    BY <1>3 DEF NaInv, TablesOK
  <2> QED BY <1>3, <1>4, <2>1, <2>2 DEF NaInv, TablesOK, CloseOK, Counted
<1>6. FilesOK' /\ DoneOK'
  BY <1>3 DEF NaInv, FilesOK, Whole, Counted, DoneOK
<1>7. \A e \in Day : \A seen, prior : Audited(e, seen, prior) => Audited(e, seen, prior)'
  BY <1>3, AuditStays
<1>8. SealsOK'
  <2> SUFFICES ASSUME NEW e \in Day, NEW x, x = sealed'[e], x # NoSeal
               PROVE  Audited(e, x.seen, x.prior)'
    BY DEF SealsOK
  <2>1. CASE e = t.day
    <3>1. x.seen = t.seen /\ x.prior = t.prior
      BY <1>3, <2>1 DEF NaInv, TablesOK
    <3>2. Audited(e, x.seen, x.prior)
      BY <1>2, <2>1, <3>1
    <3> QED BY <1>7, <3>2
  <2>2. CASE e # t.day
    <3>1. x = sealed[e]
      BY <1>3, <2>2 DEF NaInv, TablesOK
    <3>2. Audited(e, x.seen, x.prior)
      BY <3>1 DEF NaInv, SealsOK
    <3> QED BY <1>7, <3>2
  <2> QED BY <2>1, <2>2
<1>9. \A u : Keeps(u)
  BY <1>3, LoadsStay DEF books
<1> QED BY <1>4, <1>5, <1>6, <1>7, <1>8, <1>9, Others

(* A correction commits, and the log has it. *)
LEMMA AdjustCommitStep ==
  ASSUME NaInv, NEW w \in Worker, AdjustCommit(w)
  PROVE  NaInv'
<1>1. PICK t : t = tx[w]
  OBVIOUS
<1>2. t.pc = "adjusting" /\ t.day \in Day
  BY <1>1 DEF AdjustCommit, Pc, NaInv, TxsOK, TxOK, AuditOK
<1> DEFINE row == [day |-> t.day, old |-> t.old, new |-> t.new]
<1>3. /\ ledger' = IF t.new = t.old THEN ledger ELSE [ledger EXCEPT ![Home][t.day].ar = t.new]
      /\ log' = Append(log, row)
      /\ date' = IF date = None THEN t.day + 1 ELSE date
      /\ Goto(w, Idle)
      /\ UNCHANGED <<stage, facts, excs, stats, segs, segfact, coverage, done, fed, sealed>>
  BY <1>1 DEF AdjustCommit, books, outcome
<1>4. /\ DOMAIN tx' = Worker
      /\ \A v \in Worker : tx'[v] \in {tx[v], Idle}
  BY <1>1, <1>2, <1>3, Ends DEF Pc
<1>5. /\ \E S : log' \in Seq(S)
      /\ Len(log) \in Nat /\ Len(log') = Len(log) + 1
      /\ \A i \in 1..Len(log) : log'[i] = log[i]
      /\ log'[Len(log) + 1].day = t.day
  <2>1. PICK S : log \in Seq(S)
    BY DEF NaInv, TablesOK
  <2>2. log \in Seq(S \cup {row}) /\ row \in S \cup {row}
    BY <2>1
  <2>3. row.day = t.day
    OBVIOUS
  <2> HIDE DEF row
  <2>4. log' \in Seq(S \cup {row})
    BY <1>3, <2>2
  <2> QED BY <1>3, <2>1, <2>2, <2>3, <2>4
<1>6. DOMAIN ledger = Property /\ \A p \in Property : DOMAIN ledger[p] = Day
  BY DEF NaInv, TablesOK
<1>7. /\ DOMAIN ledger' = Property
      /\ \A p \in Property : DOMAIN ledger'[p] = Day
      /\ \A p \in Property, d \in Day : p # Home \/ d # t.day => ledger'[p][d] = ledger[p][d]
      /\ \/ ledger'[Home][t.day] = ledger[Home][t.day]
         \/ ledger'[Home][t.day] = [ledger[Home][t.day] EXCEPT !.ar = t.new]
  BY <1>2, <1>3, <1>6, AuditConstants
<1>8. ASSUME NEW p \in Property, NEW d \in Day
      PROVE  /\ CloseOK(ledger'[p][d], p, d)
             /\ ledger[p][d] = NoClose => ledger'[p][d] = NoClose
             /\ ledger[p][d] # NoClose =>
                  /\ ledger'[p][d] # NoClose /\ ledger'[p][d].file = ledger[p][d].file
             /\ ledger'[p][d].file = ledger[p][d].file
  <2> DEFINE x == ledger[p][d]
             y == ledger'[p][d]
  <2>1. CloseOK(x, p, d)
    BY DEF NaInv, TablesOK
  <2>2. y = x \/ y = [x EXCEPT !.ar = t.new]
    BY <1>7
  <2>3. DOMAIN NoClose = {"file"} /\ NoClose.file = "none"
    BY DEF NoClose
  <2>4. [NoClose EXCEPT !.ar = t.new] = NoClose
    BY DEF NoClose
  <2>5. x = NoClose => y = NoClose
    BY <2>2, <2>3, <2>4
  <2>6. ASSUME x # NoClose
        PROVE  /\ x.file \in OfDay("tb", p, d) /\ DOMAIN x = {"file", "ar", "rest", "hotel", "act"}
               /\ y.file = x.file /\ DOMAIN y = DOMAIN x
    BY <2>1, <2>2, <2>6 DEF CloseOK
  <2>7. x # NoClose => y # NoClose
    BY <2>3, <2>6, InfoType DEF OfDay
  <2> HIDE DEF x, y
  <2>8. CloseOK(y, p, d)
    BY <2>5, <2>6 DEF CloseOK
  <2>9. y.file = x.file
    BY <2>5, <2>6
  <2> QED BY <2>5, <2>6, <2>7, <2>8, <2>9 DEF x, y
<1> HIDE DEF row
<1>9. TablesOK'
  <2>1. date' \in {None} \cup 0..(MaxDay + 1)
    BY <1>2, <1>3, InfoType DEF Day, NaInv, TablesOK
  <2>2. \A i \in 1..Len(log') : log'[i].day \in Day
    <3> SUFFICES ASSUME NEW i \in 1..Len(log') PROVE log'[i].day \in Day
      OBVIOUS
    <3>1. i \in 1..Len(log) \/ i = Len(log) + 1
      BY <1>5
    <3>2. \A j \in 1..Len(log) : log[j].day \in Day
      BY DEF NaInv, TablesOK
    <3> QED BY <1>2, <1>5, <3>1, <3>2
  <2>3. \A p \in Property : DOMAIN ledger'[p] = Day /\ \A d \in Day : CloseOK(ledger[p][d], p, d)'
    BY <1>7, <1>8 DEF CloseOK
  <2> QED BY <1>3, <1>4, <1>5, <1>7, <2>1, <2>2, <2>3 DEF NaInv, TablesOK, Counted
<1>10. FilesOK'
  BY <1>3 DEF NaInv, FilesOK, Whole, Counted
<1>11. DoneOK'
  <2> SUFFICES ASSUME NEW f \in done, Info[f].type = "tb"
               PROVE  ledger'[Info[f].prop][Info[f].day].file = f
    BY <1>3 DEF NaInv, DoneOK
  <2>1. Info[f].prop \in Property /\ Info[f].day \in Day
    BY SlotFacts DEF NaInv, TablesOK
  <2> QED BY <1>8, <2>1 DEF NaInv, DoneOK
<1>12. ASSUME NEW d \in Day, NEW seen, NEW prior, Audited(d, seen, prior)
       PROVE  Audited(d, seen, prior)'
  <2>1. \A e : Close(e) # NoClose =>
          /\ Close(e)' # NoClose
          /\ e # t.day => Close(e)' = Close(e)
    BY <1>7, <1>8, AuditConstants DEF Close
  <2>2. Close(d) # NoClose /\ seen \in Nat /\ seen <= Len(log)
    BY <1>12 DEF Audited
  <2>3. \A q \in REQUIRED_REPORTS : \E f \in OfDay(q, Home, d) : f \in done'
    BY <1>3, <1>12 DEF Audited
  <2>4. (Close(d) # NoClose)' /\ seen <= Len(log')
    BY <1>5, <2>1, <2>2
  <2>6. Even(d)' \/ \E i \in 1..Len(log') : i > seen /\ log'[i].day = d
    <3>1. CASE t.day = d
      BY <1>5, <2>2, <3>1
    <3>2. CASE t.day # d
      <4>1. Even(d)' <=> Even(d)
        BY <2>1, <2>2, <3>2 DEF Even
      <4>2. \A i \in 1..Len(log) : i \in 1..Len(log') /\ log'[i] = log[i]
        BY <1>5
      <4> QED BY <1>12, <4>1, <4>2 DEF Audited
    <3> QED BY <3>1, <3>2
  <2>5. ASSUME prior
        PROVE  /\ (Close(d - 1) # NoClose)'
               /\ \/ Ties(d)'
                  \/ \E i \in 1..Len(log') : i > seen /\ log'[i].day \in {d - 1, d}
    <3>1. Close(d - 1) # NoClose
      BY <1>12, <2>5 DEF Audited
    <3>2. (Close(d - 1) # NoClose)'
      BY <2>1, <3>1
    <3>3. CASE t.day \in {d - 1, d}
      BY <1>5, <2>2, <3>2, <3>3
    <3>4. CASE t.day \notin {d - 1, d}
      <4>1. Close(d)' = Close(d) /\ Close(d - 1)' = Close(d - 1)
        BY <2>1, <2>2, <3>1, <3>4
      <4>2. Ties(d)' <=> Ties(d)
        BY <4>1 DEF Ties
      <4>3. \A i \in 1..Len(log) : i \in 1..Len(log') /\ log'[i] = log[i]
        BY <1>5
      <4> QED BY <1>12, <2>5, <3>2, <4>2, <4>3 DEF Audited
    <3> QED BY <3>3, <3>4
  <2> QED BY <2>2, <2>3, <2>4, <2>5, <2>6 DEF Audited
<1>13. SealsOK'
  BY <1>3, <1>12 DEF NaInv, SealsOK
<1>14. \A u : Keeps(u)
  BY <1>3, LoadsStay DEF books
<1> QED BY <1>4, <1>9, <1>10, <1>11, <1>12, <1>13, <1>14, Others

(* The date is stored, or staged segments are edited: neither the rows nor  *)
(* a close nor the log changes.                                             *)
LEMMA PageStep ==
  ASSUME NaInv, get_night_audit \/ \E f \in File, v \in [ROOMS : Amount, ROOM_REVENUE : Amount] : save_segment_rows(f, v)
  PROVE  NaInv'
<1>1. UNCHANGED <<stage, facts, excs, ledger, stats, coverage, done, fed, tx, log, sealed>>
  BY DEF get_night_audit, save_segment_rows, ivars, books, outcome
<1>2. date' \in {None} \cup 0..(MaxDay + 1)
  <2>1. CurrentDate \in 0..(MaxDay + 1)
    BY DateType DEF NaInv
  <2>2. date' = CurrentDate
    BY DEF get_night_audit, save_segment_rows
  <2> QED BY <2>1, <2>2
<1>3. segs' \in [File -> Table] /\ segfact' \in [Property -> [Day -> Table]]
  <2>1. CASE get_night_audit
    BY <2>1 DEF get_night_audit, ivars, NaInv, TablesOK
  <2>2. ASSUME NEW f \in File, NEW v \in [ROOMS : Amount, ROOM_REVENUE : Amount], save_segment_rows(f, v)
        PROVE  segs' \in [File -> Table] /\ segfact' \in [Property -> [Day -> Table]]
    BY <2>2, AuditConstants DEF save_segment_rows, NaInv, TablesOK, Table
  <2> QED BY <2>1, <2>2
<1>4. TablesOK'
  BY <1>1, <1>2, <1>3 DEF NaInv, TablesOK, CloseOK, Counted
<1>5. FilesOK' /\ DoneOK'
  BY <1>1 DEF NaInv, FilesOK, Whole, Counted, DoneOK
<1>6. \A e \in Day : \A seen, prior : Audited(e, seen, prior) => Audited(e, seen, prior)'
  BY <1>1, AuditStays
<1>7. SealsOK'
  BY <1>1, <1>6 DEF NaInv, SealsOK
<1>8. \A u : Keeps(u)
  BY <1>1, LoadsStay DEF books
<1> QED BY <1>1, <1>4, <1>5, <1>6, <1>7, <1>8, Others

-----------------------------------------------------------------------------
(* The theorems *)

(* Every step of uploads, transforms, audits and the command line.          *)
LEMMA NaInvStep == ASSUME NaInv, [NaNext]_naVars PROVE NaInv'
<1>1. CASE UNCHANGED naVars
  <2>1. /\ UNCHANGED <<stage, facts, excs, ledger, stats, segs, segfact, coverage, done, fed, tx>>
        /\ UNCHANGED <<date, log, sealed>>
    BY <1>1 DEF naVars, ivars, avars
  <2>2. TablesOK'
    BY <2>1, SMTT(30) DEF NaInv, TablesOK, Counted, CloseOK
  <2>3. FilesOK' /\ DoneOK'
    BY <2>1 DEF NaInv, FilesOK, DoneOK, Counted, Whole
  <2>4. \A d, seen, prior : Audited(d, seen, prior)' = Audited(d, seen, prior)
    BY <2>1 DEF Audited, Close, Even, Ties
  <2>5. \A t : TxOK(t)' = TxOK(t)
    BY <2>1, <2>4 DEF TxOK, LoadOK, AuditOK, Counted, NewRows
  <2>6. TxsOK' /\ SealsOK'
    BY <2>1, <2>4, <2>5 DEF NaInv, TxsOK, SealsOK
  <2> QED BY <2>2, <2>3, <2>6 DEF NaInv
<1>2. CASE IngestNext /\ UNCHANGED avars
  <2>1. ASSUME NEW w \in Worker, NEW f \in File, process_bytes(w, f) PROVE NaInv'
    BY <1>2, <2>1, UploadStep
  <2>2. ASSUME NEW w \in Worker, NEW d \in Day, transform_cmd(w, d) \/ ReadRows(w, d) PROVE NaInv'
    BY <1>2, <2>2, TransformStep, ReadStep
  <2>3. ASSUME NEW w \in Worker, Flush(w) \/ Commit(w) \/ TransformCommit(w) \/ Abort(w) PROVE NaInv'
    BY <1>2, <2>3, FlushStep, CommitStep, TransformCommitStep, FailStep DEF Abort
  <2>4. ASSUME NEW f \in File, ingest_cmd(f) PROVE NaInv'
    BY <1>2, <2>4, IngestStep
  <2> QED BY <1>2, <2>1, <2>2, <2>3, <2>4 DEF IngestNext
<1>3. ASSUME NEW w \in Worker, NEW f \in File, upload_night_audit_report(w, f) PROVE NaInv'
  BY <1>3, UploadStep DEF upload_night_audit_report
<1>4. ASSUME NEW w \in Worker, roll_night_audit(w) PROVE NaInv'
  BY <1>4, RollStep
<1>5. ASSUME NEW w \in Worker, NEW v \in Amount, adjust_prior_close(w, v) PROVE NaInv'
  BY <1>5, AdjustStep
<1>6. ASSUME NEW w \in Worker, RollCommit(w) \/ AdjustCommit(w) PROVE NaInv'
  BY <1>6, RollCommitStep, AdjustCommitStep
<1>7. ASSUME get_night_audit \/ \E f \in File, v \in [ROOMS : Amount, ROOM_REVENUE : Amount] : save_segment_rows(f, v) PROVE NaInv'
  BY <1>7, PageStep
<1> QED BY <1>1, <1>2, <1>3, <1>4, <1>5, <1>6, <1>7 DEF NaNext

(* However often and however concurrently files are uploaded, staged from   *)
(* the command line and transformed, every line of an uploaded file is in   *)
(* the books exactly once or the file is not in at all, and of the exports  *)
(* of a day one is (process_bytes, transform, promote_ledgers).             *)
THEOREM RowsAccounted == NaSpec => []IngestionSafe
<1>1. NaInit => NaInv
  BY NaInitInv
<1>2. NaInv /\ [NaNext]_naVars => NaInv'
  BY NaInvStep
<1>3. NaInv => IngestionSafe
  BY NaInvSafe
<1> QED BY <1>1, <1>2, <1>3, PTL DEF NaSpec

(* A rolled day keeps its reports and its close.  The close adds up unless  *)
(* the log has a correction of that day made after the roll looked, and it  *)
(* ties to the close before unless it has one of either day                 *)
(* (roll_night_audit, adjust_prior_close).                                  *)
THEOREM RollsStayAudited == NaSpec => []RolledIsAudited
<1>1. NaInit => NaInv
  BY NaInitInv
<1>2. NaInv /\ [NaNext]_naVars => NaInv'
  BY NaInvStep
<1>3. NaInv => RolledIsAudited
  BY NaInvRolled
<1> QED BY <1>1, <1>2, <1>3, PTL DEF NaSpec

-----------------------------------------------------------------------------
(* Demand: the invariant *)

(* Each provider lists a booking once. *)
Distinct(s) == \A m, n \in DOMAIN s : s[m] = s[n] => m = n
ListsOK == DOMAIN listed = Crm /\ \A c \in Crm : listed[c] \in Seq(Booking) /\ Distinct(listed[c])

(* Rows that were kept: of each booking one. *)
Booked(kept) == {x[2] : x \in kept}
KeptOK(kept) == kept \subseteq Nat \X Booking /\ \A x, y \in kept : x[2] = y[2] => x = y

(* The bookings of the first pages. *)
FirstPages(c, n) == {listed[c][k] : k \in {m \in DOMAIN listed[c] : m <= n * PageSize}}

(* A pull knows the provider it began with, unless something changed since, *)
(* and has each booking of the pages it read once: all that were there then *)
(* or since, and where nothing changed exactly what is there.               *)
Pull == [pc : {"resolve", "page", "store"}, pulled_at : Nat, name : Crm, feed : Crm \cup {""},
         start : Int, page : Nat \ {0}, kept : SUBSET (Nat \X Booking), asked : Nat,
         ever : SUBSET Booking]
PullOK(p) ==
    /\ p \in Pull /\ p.asked <= edits /\ KeptOK(p.kept)
    /\ p.pc = "resolve" => p.kept = {} /\ p.page = 1
    /\ p.pc # "resolve" => p.feed \in Crm /\ Booked(p.kept) \cup OnBooks(p.feed) \subseteq p.ever
    /\ p.asked = edits =>
          /\ p.name = provider
          /\ p.pc # "resolve" => p.feed = provider
          /\ p.pc = "page" => Booked(p.kept) = FirstPages(p.feed, p.page - 1)
          /\ p.pc = "store" => Booked(p.kept) = OnBooks(p.feed)

(* A batch speaks for bookings that were there, and for all of them as long *)
(* as nothing changes.                                                      *)
BatchOK(b) ==
    /\ b.pulled_at \in Nat /\ b.asked \in Nat /\ b.asked <= edits
    /\ b.provider \in Crm /\ b.feed \in Crm /\ b.ever \subseteq Booking
    /\ \E kept : /\ KeptOK(kept) /\ Booked(kept) \subseteq b.ever
                 /\ b.days = DemandOf(b.feed, kept, b.horizon)
                 /\ b.asked = edits => Booked(kept) = OnBooks(b.feed)
    /\ b.asked = edits => b.provider = provider /\ b.feed = provider

(* No two pulls have one stamp, begun or stored. *)
StampsOK ==
    /\ \A i, j \in DOMAIN batches : batches[i].pulled_at = batches[j].pulled_at => i = j
    /\ \A q, r \in Running : pulls[q].pulled_at = pulls[r].pulled_at => q = r
    /\ \A r \in Running, i \in DOMAIN batches : pulls[r].pulled_at # batches[i].pulled_at

CrmInv ==
    /\ ListsOK /\ edits \in Nat /\ today \in Int /\ provider \in Crm \cup {""}
    /\ DOMAIN pulls = Puller /\ \A r \in Puller : pulls[r] # Idle => PullOK(pulls[r])
    /\ (\E S : batches \in Seq(S)) /\ \A i \in DOMAIN batches : BatchOK(batches[i])
    /\ StampsOK

(* What is on a provider's books are bookings. *)
LEMMA OnBooksBookings ==
  ASSUME ListsOK, NEW c \in Crm
  PROVE  OnBooks(c) \subseteq Booking
<1>1. PICK s : s = listed[c] /\ s \in Seq(Booking)
  BY DEF ListsOK
<1>2. \A n \in DOMAIN s : s[n] \in Booking
  BY <1>1
<1> QED BY <1>1, <1>2 DEF OnBooks, Range

-----------------------------------------------------------------------------
(* Counting what is held *)

(* As many rows are of some bookings as there are bookings. *)
LEMMA HeldCount ==
  ASSUME NEW kept, KeptOK(kept), NEW held
  PROVE  /\ HeldOn(kept, held) = Cardinality(Booked(kept) \cap held)
         /\ IsFiniteSet(Booked(kept) \cap held) /\ HeldOn(kept, held) \in Nat
<1> DEFINE A == {x \in kept : x[2] \in held}
           B == Booked(kept) \cap held
           k == [x \in A |-> x[2]]
<1>1. B \in SUBSET Booking
  BY DEF KeptOK, Booked
<1>2. IsFiniteSet(B) /\ Cardinality(B) \in Nat
  <2> HIDE DEF B
  <2> QED BY <1>1, CrmConstants, FS_Subset, FS_CardinalityType
<1>3. \A x, y \in A : x[2] = y[2] => x = y
  BY DEF KeptOK
<1>4. k \in [A -> B] /\ \A x, y \in A : k[x] = k[y] => x = y
  BY <1>3 DEF Booked
<1>5. \A b \in B : \E x \in A : k[x] = b
  BY DEF Booked
<1> HIDE DEF A, B, k
<1>6. ExistsBijection(A, B)
  BY <1>4, <1>5 DEF ExistsBijection, Bijection, Injection, Surjection, IsInjective
<1>7. k \in Injection(A, B)
  BY <1>4 DEF Injection, IsInjective
<1>8. IsFiniteSet(A)
  BY <1>2, <1>7, FS_Injection
<1>9. Cardinality(B) = Cardinality(A)
  BY <1>6, <1>8, FS_Bijection
<1> QED BY <1>2, <1>9 DEF A, B, HeldOn

(* More bookings hold more, the same ones the same. *)
LEMMA HeldMore ==
  ASSUME NEW K, KeptOK(K), NEW L, KeptOK(L), Booked(K) \subseteq Booked(L), NEW held
  PROVE  /\ HeldOn(K, held) \in Nat /\ HeldOn(L, held) \in Nat /\ HeldOn(K, held) <= HeldOn(L, held)
         /\ Booked(K) = Booked(L) => HeldOn(K, held) = HeldOn(L, held)
<1>1. /\ HeldOn(K, held) = Cardinality(Booked(K) \cap held) /\ HeldOn(K, held) \in Nat
      /\ HeldOn(L, held) = Cardinality(Booked(L) \cap held) /\ HeldOn(L, held) \in Nat
      /\ IsFiniteSet(Booked(L) \cap held)
  BY HeldCount
<1>2. Booked(K) \cap held \in SUBSET (Booked(L) \cap held)
  OBVIOUS
<1>3. Cardinality(Booked(K) \cap held) <= Cardinality(Booked(L) \cap held)
  BY <1>1, <1>2, FS_Subset
<1> QED BY <1>1, <1>3

(* The rows of given bookings. *)
RowsFor(bookings) == {<<0, b>> : b \in bookings}

LEMMA RowsForOK ==
  ASSUME NEW bookings, bookings \subseteq Booking
  PROVE  KeptOK(RowsFor(bookings)) /\ Booked(RowsFor(bookings)) = bookings
<1>1. RowsFor(bookings) \subseteq Nat \X Booking
  BY DEF RowsFor
<1>2. \A x, y \in RowsFor(bookings) : x[2] = y[2] => x = y
  BY DEF RowsFor
<1>3. \A b \in bookings : <<0, b>> \in RowsFor(bookings) /\ <<0, b>>[2] = b
  BY DEF RowsFor
<1>4. \A x \in RowsFor(bookings) : x[2] \in bookings
  BY DEF RowsFor
<1>5. Booked(RowsFor(bookings)) = bookings
  BY <1>3, <1>4 DEF Booked
<1> QED BY <1>1, <1>2, <1>5 DEF KeptOK

(* The nights a provider's day counts bookings for. *)
Nights(feed, d) == IF feed = "delphi" THEN Dated(d) \cup Nightly(d) ELSE Nightly(d)
Speaks(feed, kept, d) ==
    IF feed = "delphi" THEN d \in Occupied \/ HeldOn(kept, Dated(d) \cup Nightly(d)) > 0
    ELSE HeldOn(kept, Dated(d)) + HeldOn(kept, Nightly(d)) > 0
DayOf(feed, kept, d) ==
    IF feed = "delphi"
    THEN [rooms_on_books |-> IF d \in Occupied THEN 1 ELSE Unspoken,
          group_rooms |-> HeldOn(kept, Dated(d) \cup Nightly(d)), event_covers |-> Unspoken]
    ELSE [rooms_on_books |-> Unspoken, group_rooms |-> HeldOn(kept, Nightly(d)),
          event_covers |-> HeldOn(kept, Dated(d))]
Voice(days, d) == IF d \in DOMAIN days THEN <<days[d]>> ELSE Silent

(* What the days of a pull say of one of them. *)
LEMMA DayIs ==
  ASSUME NEW feed, NEW kept, NEW window, NEW d \in window,
         NEW days, days = DemandOf(feed, kept, window)
  PROVE  Voice(days, d) = IF Speaks(feed, kept, d) THEN <<DayOf(feed, kept, d)>> ELSE Silent
<1>1. d \in DOMAIN days <=> Speaks(feed, kept, d)
  BY DEF DemandOf, delphi_days, tripleseat_days, Speaks
<1>2. d \in DOMAIN days => days[d] = DayOf(feed, kept, d)
  BY DEF DemandOf, delphi_days, tripleseat_days, DayOf
<1> QED BY <1>1, <1>2 DEF Voice

(* The rooms a day is told are those its nights hold. *)
LEMMA RoomsTold ==
  ASSUME NEW feed, NEW kept, KeptOK(kept), NEW window, NEW d \in window,
         NEW days, days = DemandOf(feed, kept, window)
  PROVE  GroupOf(Voice(days, d)) = HeldOn(kept, Nights(feed, d))
<1>1. /\ HeldOn(kept, Dated(d) \cup Nightly(d)) \in Nat
      /\ HeldOn(kept, Nightly(d)) \in Nat /\ HeldOn(kept, Dated(d)) \in Nat
  BY HeldCount
<1>2. Voice(days, d) = IF Speaks(feed, kept, d) THEN <<DayOf(feed, kept, d)>> ELSE Silent
  BY DayIs
<1>3. CASE Speaks(feed, kept, d)
  <2>1. GroupOf(<<DayOf(feed, kept, d)>>) = DayOf(feed, kept, d).group_rooms
    BY DEF GroupOf, Silent
  <2> QED BY <1>2, <1>3, <2>1 DEF DayOf, Nights
<1>4. CASE ~Speaks(feed, kept, d)
  <2>1. HeldOn(kept, Nights(feed, d)) = 0
    BY <1>1, <1>4 DEF Speaks, Nights
  <2> QED BY <1>2, <1>4, <2>1 DEF GroupOf
<1> QED BY <1>3, <1>4

(* The same bookings are told the same. *)
LEMMA SameTold ==
  ASSUME NEW feed, NEW K, KeptOK(K), NEW L, KeptOK(L), Booked(K) = Booked(L),
         NEW window, NEW d \in window
  PROVE  Voice(DemandOf(feed, K, window), d) = Voice(DemandOf(feed, L, window), d)
<1>1. \A held : HeldOn(K, held) = HeldOn(L, held)
  BY HeldMore
<1>2. Speaks(feed, K, d) <=> Speaks(feed, L, d)
  BY <1>1 DEF Speaks
<1>3. DayOf(feed, K, d) = DayOf(feed, L, d)
  BY <1>1 DEF DayOf
<1> QED BY <1>2, <1>3, DayIs

-----------------------------------------------------------------------------
(* The newest batch *)

(* Distinct stamps of finitely many batches have one that is newest, and    *)
(* it comes first.                                                          *)
LEMMA FirstIsNewest ==
  ASSUME CrmInv, NEW on, on \subseteq DOMAIN batches, NEW i \in on,
         \A j \in on : batches[j].pulled_at <= batches[i].pulled_at
  PROVE  /\ DOMAIN NewestFirst(on) = 1..Cardinality(on) /\ Cardinality(on) \in Nat \ {0}
         /\ NewestFirst(on)[1] = i
<1> DEFINE newer(x) == {j \in on : batches[j].pulled_at > batches[x].pulled_at}
<1>1. /\ DOMAIN batches = 1..Len(batches) /\ Len(batches) \in Nat
      /\ \A j \in DOMAIN batches : batches[j].pulled_at \in Nat
      /\ \A j, k \in DOMAIN batches : batches[j].pulled_at = batches[k].pulled_at => j = k
  <2>1. PICK S : batches \in Seq(S)
    BY DEF CrmInv
  <2>2. DOMAIN batches = 1..Len(batches) /\ Len(batches) \in Nat
    BY <2>1
  <2>3. \A j \in DOMAIN batches : batches[j].pulled_at \in Nat
    BY DEF CrmInv, BatchOK
  <2>4. \A j, k \in DOMAIN batches : batches[j].pulled_at = batches[k].pulled_at => j = k
    BY DEF CrmInv, StampsOK
  <2> QED BY <2>2, <2>3, <2>4
<1>2. IsFiniteSet(on)
  <2>1. IsFiniteSet(DOMAIN batches)
    BY <1>1, FS_Interval
  <2>2. on \in SUBSET DOMAIN batches
    OBVIOUS
  <2> QED BY <2>1, <2>2, FS_Subset
<1>3. Cardinality(on) \in Nat /\ Cardinality(on) # 0
  BY <1>2, FS_CardinalityType, FS_EmptySet
<1>4. newer(i) = {}
  BY <1>1
<1>5. \A x \in on : Cardinality(newer(x)) = 1 - 1 <=> x = i
  <2> TAKE x \in on
  <2>1. newer(x) \in SUBSET on
    OBVIOUS
  <2>2. IsFiniteSet(newer(x))
    BY <1>2, <2>1, FS_Subset
  <2>3. Cardinality(newer(x)) = 0 <=> newer(x) = {}
    BY <2>2, FS_EmptySet
  <2>4. newer(x) = {} => x = i
    BY <1>1
  <2> QED BY <1>4, <2>3, <2>4
<1>6. i = CHOOSE x \in on : Cardinality(newer(x)) = 1 - 1
  BY <1>5
<1>7. 1 \in 1..Cardinality(on)
  BY <1>3
<1>8. NewestFirst(on) = [n \in 1..Cardinality(on) |-> CHOOSE x \in on : Cardinality(newer(x)) = n - 1]
  BY DEF NewestFirst
<1> HIDE DEF newer
<1> QED BY <1>3, <1>6, <1>7, <1>8

(* The latest demand of a day is what the newest batch that covers it says, *)
(* and so is the figure the pace starts from.                               *)
LEMMA LatestIsNewest ==
  ASSUME CrmInv, NEW d, NEW i \in DOMAIN batches, d \in batches[i].horizon,
         \A j \in DOMAIN batches : d \in batches[j].horizon => batches[j].pulled_at <= batches[i].pulled_at
  PROVE  /\ latest_demand(d) = Said(i, d)
         /\ demand_pace(d) # Silent => demand_pace(d)[1] = Said(i, d)
<1> DEFINE on == {j \in DOMAIN batches : d \in batches[j].horizon}
           bs == _covering_batches(d)
           voices == _voices_by_date(d)
<1>1. DOMAIN bs = 1..Cardinality(on) /\ Cardinality(on) \in Nat \ {0} /\ bs[1] = i
  <2>1. on \subseteq DOMAIN batches /\ i \in on /\ \A j \in on : batches[j].pulled_at <= batches[i].pulled_at
    OBVIOUS
  <2>2. bs = NewestFirst(on)
    BY DEF _covering_batches
  <2> HIDE DEF on, bs
  <2> QED BY <2>1, <2>2, FirstIsNewest
<1>2. 1 \in DOMAIN bs
  BY <1>1
<1>3. voices = IF \A n \in DOMAIN bs : Said(bs[n], d) = Silent THEN <<>> ELSE [n \in DOMAIN bs |-> Said(bs[n], d)]
  BY DEF _voices_by_date
<1>4. /\ latest_demand(d) = IF DOMAIN voices = {} THEN Silent ELSE voices[1]
      /\ demand_pace(d) = IF latest_demand(d) = Silent THEN Silent
                          ELSE <<voices[1], IF Len(voices) > 1 THEN voices[2] ELSE Silent>>
  BY DEF latest_demand, demand_pace
<1> HIDE DEF bs, voices, on
<1>5. CASE \A n \in DOMAIN bs : Said(bs[n], d) = Silent
  <2>1. Said(i, d) = Silent
    BY <1>1, <1>2, <1>5
  <2>2. DOMAIN voices = {}
    BY <1>3, <1>5
  <2> QED BY <1>4, <2>1, <2>2
<1>6. CASE ~\A n \in DOMAIN bs : Said(bs[n], d) = Silent
  <2>1. DOMAIN voices = DOMAIN bs /\ voices[1] = Said(i, d)
    BY <1>1, <1>2, <1>3, <1>6
  <2>2. latest_demand(d) = voices[1]
    BY <1>2, <1>4, <2>1
  <2> QED BY <1>4, <2>1, <2>2
<1> QED BY <1>5, <1>6

-----------------------------------------------------------------------------
(* The property *)

(* A figure somebody speaks of is one the provider can speak of. *)
LEMMA FiguresSpoken ==
  ASSUME NEW feed, NEW kept, NEW d, NEW figure \in DOMAIN DayOf(feed, kept, d),
         DayOf(feed, kept, d)[figure] # Unspoken
  PROVE  figure \in capabilities(feed)
BY DEF DayOf, capabilities, Unspoken

LEMMA CrmInvSafe == ASSUME CrmInv PROVE DemandIsTrue
<1>1. ASSUME NEW i \in DOMAIN batches
      PROVE  BatchOK(batches[i])
  BY DEF CrmInv
<1>2. \A i \in DOMAIN batches : \A d : Said(i, d) = Voice(batches[i].days, d)
  BY DEF Said, Voice
<1>3. \A feed, bookings, window, d :
        Told(feed, bookings, window, d) = Voice(DemandOf(feed, RowsFor(bookings), window), d)
  BY DEF Told, Voice, RowsFor
<1>4. ASSUME NEW i \in DOMAIN batches, NEW d \in batches[i].horizon
      PROVE  GroupOf(Said(i, d)) <= GroupOf(Told(batches[i].feed, batches[i].ever, batches[i].horizon, d))
  <2> DEFINE b == batches[i]
             Y == RowsFor(b.ever)
             h == Nights(b.feed, d)
  <2>1. PICK kept : /\ KeptOK(kept) /\ Booked(kept) \subseteq b.ever
                    /\ b.days = DemandOf(b.feed, kept, b.horizon)
    BY <1>1 DEF BatchOK
  <2>2. KeptOK(Y) /\ Booked(Y) = b.ever
    <3>1. b.ever \subseteq Booking
      BY <1>1 DEF BatchOK
    <3> QED BY <3>1, RowsForOK
  <2>3. GroupOf(Voice(b.days, d)) = HeldOn(kept, h)
    BY <2>1, RoomsTold
  <2>4. GroupOf(Voice(DemandOf(b.feed, Y, b.horizon), d)) = HeldOn(Y, h)
    <3>1. KeptOK(Y)
      BY <2>2
    <3> HIDE DEF Y
    <3> QED BY <3>1, RoomsTold
  <2>5. HeldOn(kept, h) <= HeldOn(Y, h)
    <3> HIDE DEF Y, h, b
    <3> QED BY <2>1, <2>2, HeldMore
  <2> QED BY <1>2, <1>3, <2>3, <2>4, <2>5
<1>5. ASSUME NEW i \in DOMAIN batches, NEW d, Fresh(i, d)
      PROVE  LET told  == Told(provider, OnBooks(provider), batches[i].horizon, d)
                 shown == get_demand({d})
             IN  /\ shown.configured /\ batches[i].provider = provider
                 /\ shown.days = [x \in {y \in {d} : told # Silent} |-> told[1]]
                 /\ \A n \in DOMAIN shown.days : \A figure \in DOMAIN shown.days[n] :
                      shown.days[n][figure] # Unspoken => figure \in shown.capabilities
                 /\ demand_pace(d) # Silent => demand_pace(d)[1] = told
  <2> DEFINE b == batches[i]
             P == provider
             Y == RowsFor(OnBooks(P))
             told  == Told(P, OnBooks(P), b.horizon, d)
             shown == get_demand({d})
  <2>1. /\ d \in b.horizon /\ b.asked = edits
        /\ \A j \in DOMAIN batches : d \in batches[j].horizon => batches[j].pulled_at <= b.pulled_at
    BY <1>5 DEF Fresh
  <2>2. b.provider = P /\ b.feed = P /\ P \in Crm /\ P # ""
    BY <1>1, <2>1 DEF BatchOK, Crm
  <2>3. PICK kept : /\ KeptOK(kept) /\ Booked(kept) = OnBooks(P)
                    /\ b.days = DemandOf(P, kept, b.horizon)
    <3>1. BatchOK(b)
      BY <1>1
    <3>2. PICK kept : /\ KeptOK(kept)
                      /\ b.days = DemandOf(b.feed, kept, b.horizon)
                      /\ b.asked = edits => Booked(kept) = OnBooks(b.feed)
      BY <3>1 DEF BatchOK
    <3> QED BY <2>1, <2>2, <3>2
  <2>4. KeptOK(Y) /\ Booked(Y) = OnBooks(P)
    <3>1. OnBooks(P) \subseteq Booking
      <4>1. P \in Crm /\ ListsOK
        BY <2>2 DEF CrmInv
      <4> QED BY <4>1, OnBooksBookings
    <3> QED BY <3>1, RowsForOK
  <2>5. Said(i, d) = told
    <3>1. Voice(DemandOf(P, kept, b.horizon), d) = Voice(DemandOf(P, Y, b.horizon), d)
      <4>1. KeptOK(kept) /\ KeptOK(Y) /\ Booked(kept) = Booked(Y) /\ d \in b.horizon
        BY <2>1, <2>3, <2>4
      <4> HIDE DEF Y, P, b
      <4> QED BY ONLY <4>1, SameTold
    <3> QED BY <1>2, <1>3, <2>3, <3>1
  <2>6. /\ latest_demand(d) = told
        /\ demand_pace(d) # Silent => demand_pace(d)[1] = told
    BY <2>1, <2>5, LatestIsNewest
  <2>7. /\ shown.configured /\ shown.capabilities = capabilities(P)
        /\ shown.days = [y \in {y \in {d} : latest_demand(y) # Silent} |-> latest_demand(y)[1]]
    BY <2>2 DEF get_demand
  <2>8. shown.days = [x \in {y \in {d} : told # Silent} |-> told[1]]
    <3> HIDE DEF told, shown
    <3> QED BY <2>6, <2>7
  <2>9. ASSUME NEW n \in DOMAIN shown.days, NEW figure \in DOMAIN shown.days[n], shown.days[n][figure] # Unspoken
        PROVE  figure \in shown.capabilities
    <3>1. n = d /\ told # Silent /\ shown.days[n] = told[1]
      <4> HIDE DEF told, shown
      <4> QED BY <2>8, <2>9
    <3>2. told = Voice(DemandOf(P, kept, b.horizon), d)
      BY <1>2, <2>3, <2>5
    <3>3. told = <<DayOf(P, kept, d)>>
      BY <2>1, <3>1, <3>2, DayIs
    <3>4. shown.days[n] = DayOf(P, kept, d)
      <4> HIDE DEF told, shown
      <4> QED BY <3>1, <3>3
    <3> HIDE DEF told, shown, P
    <3> QED BY <2>7, <2>9, <3>4, FiguresSpoken
  <2> QED BY <2>2, <2>6, <2>7, <2>8, <2>9
<1> QED BY <1>4, <1>5 DEF DemandIsTrue

-----------------------------------------------------------------------------
(* Lists under change *)

LEMMA Joined ==
  ASSUME NEW S, NEW x \in Seq(S), NEW y \in Seq(S)
  PROVE  x \o y \in Seq(S) /\ Len(x \o y) = Len(x) + Len(y)
OBVIOUS

(* A booking that is put in between is listed once. *)
LEMMA Inserted ==
  ASSUME NEW s \in Seq(Booking), Distinct(s), NEW b \in Booking, b \notin Range(s),
         NEW i \in 1..Len(s) + 1
  PROVE  InsertAt(s, i, b) \in Seq(Booking) /\ Distinct(InsertAt(s, i, b))
<1> DEFINE t == InsertAt(s, i, b)
<1>1. /\ t \in Seq(Booking) /\ DOMAIN t = 1..Len(s) + 1
      /\ \A k \in 1..Len(s) + 1 : t[k] = IF k < i THEN s[k] ELSE IF k = i THEN b ELSE s[k - 1]
  <2> DEFINE before == SubSeq(s, 1, i - 1)
             after == SubSeq(s, i, Len(s))
  <2>1. /\ before \in Seq(Booking) /\ Len(before) = i - 1
        /\ \A k \in 1..i - 1 : before[k] = s[k]
    OBVIOUS
  <2>2. /\ after \in Seq(Booking) /\ Len(after) = Len(s) - i + 1
        /\ \A k \in 1..Len(s) - i + 1 : after[k] = s[i + k - 1]
    OBVIOUS
  <2>3. t = before \o <<b>> \o after
    BY DEF InsertAt
  <2> HIDE DEF before, after
  <2>4. /\ before \o <<b>> \in Seq(Booking) /\ Len(before \o <<b>>) = i
        /\ \A k \in 1..i : (before \o <<b>>)[k] = IF k < i THEN s[k] ELSE b
    BY <2>1
  <2>5. Len(t) = Len(s) + 1 /\ t \in Seq(Booking)
    <3>1. PICK x : x = before \o <<b>>
      OBVIOUS
    <3>2. t = x \o after /\ x \in Seq(Booking) /\ Len(x) = i
      BY <2>3, <2>4, <3>1
    <3>3. Len(x \o after) = Len(x) + Len(after) /\ x \o after \in Seq(Booking)
      <4>1. after \in Seq(Booking)
        BY <2>2
      <4> QED BY ONLY <3>2, <4>1, Joined
    <3>4. Len(s) \in Nat /\ i \in Int
      OBVIOUS
    <3> HIDE DEF t
    <3> QED BY <2>2, <3>2, <3>3, <3>4
  <2>6. \A k \in 1..i : t[k] = (before \o <<b>>)[k]
    BY <2>2, <2>3, <2>4
  <2>7. \A k \in i + 1..Len(s) + 1 : t[k] = after[k - i]
    BY <2>2, <2>3, <2>4
  <2>8. \A k \in i + 1..Len(s) + 1 : k - i \in 1..Len(s) - i + 1 /\ i + (k - i) - 1 = k - 1
    OBVIOUS
  <2>9. \A k \in i + 1..Len(s) + 1 : t[k] = s[k - 1]
    BY <2>2, <2>7, <2>8
  <2> HIDE DEF t
  <2>10. DOMAIN t = 1..Len(s) + 1
    BY <2>5
  <2>11. ASSUME NEW k \in 1..Len(s) + 1
         PROVE  t[k] = IF k < i THEN s[k] ELSE IF k = i THEN b ELSE s[k - 1]
    <3>1. CASE k \in 1..i
      BY <2>4, <2>6, <3>1
    <3>2. CASE k \notin 1..i
      <4>1. k \in i + 1..Len(s) + 1 /\ ~(k < i) /\ k # i
        BY <3>2
      <4> QED BY <2>9, <4>1
    <3> QED BY <3>1, <3>2
  <2> QED BY <2>5, <2>10, <2>11
<1>2. \A k \in 1..Len(s) : s[k] # b
  BY DEF Range
<1>3. ASSUME NEW m \in DOMAIN t, NEW n \in DOMAIN t, t[m] = t[n]
      PROVE  m = n
  <2> DEFINE j(k) == IF k < i THEN k ELSE k - 1
  <2> HIDE DEF t
  <2>1. m \in 1..Len(s) + 1 /\ n \in 1..Len(s) + 1
    BY <1>1
  <2>2. \A k \in 1..Len(s) + 1 : k # i => j(k) \in 1..Len(s) /\ t[k] = s[j(k)]
    BY <1>1
  <2>3. t[i] = b
    BY <1>1
  <2>4. CASE m = i \/ n = i
    BY <1>2, <1>3, <2>1, <2>2, <2>3, <2>4
  <2>5. CASE m # i /\ n # i
    <3>1. j(m) = j(n)
      BY <1>3, <2>1, <2>2, <2>5 DEF Distinct
    <3> QED BY <2>1, <2>5, <3>1
  <2> QED BY <2>4, <2>5
<1> QED BY <1>1, <1>3 DEF Distinct

(* One that is taken out leaves the others listed once. *)
LEMMA Removed ==
  ASSUME NEW s \in Seq(Booking), Distinct(s), NEW i \in 1..Len(s)
  PROVE  RemoveAt(s, i) \in Seq(Booking) /\ Distinct(RemoveAt(s, i))
<1> DEFINE t == RemoveAt(s, i)
<1>1. /\ t \in Seq(Booking) /\ DOMAIN t = 1..Len(s) - 1
      /\ \A k \in 1..Len(s) - 1 : t[k] = IF k < i THEN s[k] ELSE s[k + 1]
  <2> DEFINE before == SubSeq(s, 1, i - 1)
             after == SubSeq(s, i + 1, Len(s))
  <2>1. /\ before \in Seq(Booking) /\ Len(before) = i - 1
        /\ \A k \in 1..i - 1 : before[k] = s[k]
    OBVIOUS
  <2>2. /\ after \in Seq(Booking) /\ Len(after) = Len(s) - i
        /\ \A k \in 1..Len(s) - i : after[k] = s[i + k]
    OBVIOUS
  <2>3. t = before \o after
    BY DEF RemoveAt
  <2> HIDE DEF before, after
  <2>4. Len(t) = Len(s) - 1 /\ t \in Seq(Booking)
    BY <2>1, <2>2, <2>3
  <2>5. \A k \in 1..i - 1 : t[k] = before[k]
    BY <2>1, <2>2, <2>3
  <2>6. \A k \in i..Len(s) - 1 : t[k] = after[k - i + 1]
    BY <2>1, <2>2, <2>3
  <2>7. \A k \in i..Len(s) - 1 : k - i + 1 \in 1..Len(s) - i /\ i + (k - i + 1) = k + 1
    OBVIOUS
  <2>8. \A k \in i..Len(s) - 1 : t[k] = s[k + 1]
    BY <2>2, <2>6, <2>7
  <2> HIDE DEF t
  <2> QED BY <2>1, <2>4, <2>5, <2>8
<1>2. ASSUME NEW m \in DOMAIN t, NEW n \in DOMAIN t, t[m] = t[n]
      PROVE  m = n
  <2> DEFINE j(k) == IF k < i THEN k ELSE k + 1
  <2> HIDE DEF t
  <2>1. m \in 1..Len(s) - 1 /\ n \in 1..Len(s) - 1
    BY <1>1
  <2>2. \A k \in 1..Len(s) - 1 : j(k) \in 1..Len(s) /\ t[k] = s[j(k)]
    BY <1>1
  <2>3. j(m) = j(n)
    BY <1>2, <2>1, <2>2 DEF Distinct
  <2> QED BY <2>1, <2>3
<1> QED BY <1>1, <1>2 DEF Distinct

(* The bookings a provider starts with. *)
LEMMA ListedOnce == SetToSeq(Booking) \in Seq(Booking) /\ Distinct(SetToSeq(Booking))
<1> DEFINE n == Cardinality(Booking)
           F == [1..n -> Booking]
<1>1. n \in Nat /\ ExistsBijection(1..n, Booking)
  BY CrmConstants, FS_CardinalityType
<1>2. PICK f \in F : IsInjective(f)
  BY <1>1 DEF ExistsBijection, Bijection, Injection, IsInjective
<1>3. SetToSeq(Booking) = CHOOSE h \in F : IsInjective(h)
  BY DEF SetToSeq
<1>4. PICK g \in F : g = SetToSeq(Booking) /\ IsInjective(g)
  BY <1>2, <1>3
<1>5. g \in Seq(Booking) /\ DOMAIN g = 1..n
  BY <1>1, <1>4
<1> QED BY <1>4, <1>5 DEF Distinct, IsInjective

-----------------------------------------------------------------------------
(* The steps: something changed *)

(* What was asked for before it is out of date. *)
LEMMA BatchAges ==
  ASSUME NEW b, BatchOK(b), edits \in Nat, edits' = edits + 1
  PROVE  BatchOK(b)'
<1>1. b.asked \in Nat /\ b.asked <= edits'
  BY DEF BatchOK
<1>2. b.asked # edits'
  BY DEF BatchOK
<1>3. PICK kept : /\ KeptOK(kept) /\ Booked(kept) \subseteq b.ever
                  /\ b.days = DemandOf(b.feed, kept, b.horizon)
  BY DEF BatchOK
<1> QED BY <1>1, <1>2, <1>3 DEF BatchOK

LEMMA ChangesKeep ==
  ASSUME CrmInv, NEW c \in Crm, NEW bs \in Seq(Booking), Distinct(bs), Changes(c, bs)
  PROVE  CrmInv'
<1>1. /\ listed' = [listed EXCEPT ![c] = bs] /\ edits' = edits + 1 /\ edits \in Nat
      /\ pulls' = Witnessed(c, Range(bs)) /\ UNCHANGED <<provider, today, batches>>
  BY DEF Changes, CrmInv
<1>2. ListsOK'
  BY <1>1 DEF CrmInv, ListsOK
<1>3. Range(bs) \subseteq Booking
  BY DEF Range
<1>4. \A x \in Crm : OnBooks(x)' = IF x = c THEN Range(bs) ELSE OnBooks(x)
  BY <1>1 DEF OnBooks, CrmInv, ListsOK
<1>5. \A i \in DOMAIN batches' : BatchOK(batches[i])'
  <2> TAKE i \in DOMAIN batches'
  <2>1. PICK b : b = batches[i] /\ b = batches'[i]
    BY <1>1
  <2>2. BatchOK(b)
    BY <1>1, <2>1 DEF CrmInv
  <2>3. BatchOK(b)'
    BY <1>1, <2>2, BatchAges
  <2> QED BY <2>1, <2>3
<1>6. ASSUME NEW r \in Puller, pulls'[r] # Idle
      PROVE  /\ PullOK(pulls[r])' /\ pulls[r] # Idle
             /\ pulls'[r].pulled_at = pulls[r].pulled_at
  <2>1. PICK p : p = pulls[r]
    OBVIOUS
  <2>2. PICK q : q = pulls'[r]
    OBVIOUS
  <2>3. q = IF p # Idle /\ p.feed = c THEN [p EXCEPT !.ever = @ \cup Range(bs)] ELSE p
    BY <1>1, <2>1, <2>2 DEF Witnessed, Running
  <2>4. p # Idle
    BY <1>6, <2>2, <2>3
  <2>5. PullOK(p)
    BY <2>1, <2>4 DEF CrmInv
  <2>6. p \in Pull
    BY <2>5 DEF PullOK
  <2>7. /\ q \in Pull /\ q.pc = p.pc /\ q.feed = p.feed /\ q.kept = p.kept /\ q.asked = p.asked
        /\ q.page = p.page /\ q.pulled_at = p.pulled_at
        /\ q.ever = IF p.feed = c THEN p.ever \cup Range(bs) ELSE p.ever
    BY <1>3, <2>3, <2>4, <2>6 DEF Pull
  <2>8. q.asked <= edits' /\ q.asked # edits'
    <3>1. p.asked \in Nat /\ p.asked <= edits
      BY <2>5, <2>6 DEF PullOK, Pull
    <3> QED BY <1>1, <2>7, <3>1
  <2>9. q.pc # "resolve" => q.feed \in Crm /\ Booked(q.kept) \cup OnBooks(q.feed)' \subseteq q.ever
    BY <1>4, <2>5, <2>7 DEF PullOK
  <2>10. PullOK(q)'
    BY <2>5, <2>7, <2>8, <2>9 DEF PullOK
  <2> QED BY <2>1, <2>2, <2>4, <2>7, <2>10
<1>7. DOMAIN pulls' = Puller
  BY <1>1 DEF Witnessed
<1>8. StampsOK'
  <2>1. \A r \in Running' : r \in Running /\ pulls'[r].pulled_at = pulls[r].pulled_at
    BY <1>6 DEF Running
  <2>2. StampsOK
    BY DEF CrmInv
  <2>3. batches' = batches
    BY <1>1
  <2>4. \A i, j \in DOMAIN batches' : batches'[i].pulled_at = batches'[j].pulled_at => i = j
    BY ONLY <2>2, <2>3 DEF StampsOK
  <2>5. \A q, r \in Running' : pulls'[q].pulled_at = pulls'[r].pulled_at => q = r
    BY ONLY <2>1, <2>2 DEF StampsOK
  <2>6. \A r \in Running', i \in DOMAIN batches' : pulls'[r].pulled_at # batches'[i].pulled_at
    BY ONLY <2>1, <2>2, <2>3 DEF StampsOK
  <2> QED BY ONLY <2>4, <2>5, <2>6, Zenon DEF StampsOK
<1>9. edits' \in Nat /\ today' \in Int /\ provider' \in Crm \cup {""} /\ \E S : batches' \in Seq(S)
  <2>1. edits' \in Nat
    BY <1>1
  <2>2. today' \in Int /\ provider' \in Crm \cup {""}
    BY <1>1 DEF CrmInv
  <2>3. PICK S : batches \in Seq(S)
    BY DEF CrmInv
  <2>4. batches' = batches
    BY <1>1
  <2> QED BY <2>1, <2>2, <2>3, <2>4
<1>10. \A r \in Puller : pulls'[r] # Idle => PullOK(pulls[r])'
  BY <1>6
<1> QED BY ONLY <1>2, <1>5, <1>7, <1>8, <1>9, <1>10 DEF CrmInv

(* The connection is replaced or cut. *)
LEMMA ConnectionKeeps ==
  ASSUME CrmInv, provider' \in Crm \cup {""}, edits' = edits + 1, UNCHANGED <<today, listed, pulls, batches>>
  PROVE  CrmInv'
<1>1. edits \in Nat /\ edits' = edits + 1 /\ edits' \in Nat /\ today' \in Int
  <2>1. edits \in Nat /\ edits' = edits + 1 /\ today \in Int /\ today' = today
    BY DEF CrmInv
  <2> QED BY ONLY <2>1
<1>2. ListsOK'
  BY DEF CrmInv, ListsOK
<1>3. \A i \in DOMAIN batches' : BatchOK(batches[i])'
  <2> TAKE i \in DOMAIN batches'
  <2>1. PICK b : b = batches[i] /\ b = batches'[i]
    OBVIOUS
  <2>2. BatchOK(b)
    BY <2>1 DEF CrmInv
  <2>3. BatchOK(b)'
    BY <1>1, <2>2, BatchAges
  <2> QED BY <2>1, <2>3
<1>4. \A r \in Puller : pulls'[r] # Idle => PullOK(pulls[r])'
  <2> TAKE r \in Puller
  <2> HAVE pulls'[r] # Idle
  <2>1. PICK p : p = pulls[r] /\ p = pulls'[r]
    OBVIOUS
  <2>2. PullOK(p)
    BY <2>1 DEF CrmInv
  <2>3. p.asked \in Nat /\ p.asked <= edits
    BY <2>2 DEF PullOK, Pull
  <2>4. p.asked <= edits' /\ p.asked # edits'
    BY ONLY <1>1, <2>3
  <2>5. \A c : OnBooks(c)' = OnBooks(c)
    BY DEF OnBooks
  <2>6. PullOK(p)'
    BY <2>2, <2>4, <2>5 DEF PullOK
  <2> QED BY <2>1, <2>6
<1>5. StampsOK'
  BY DEF CrmInv, StampsOK, Running
<1>6. DOMAIN pulls' = Puller /\ \E S : batches' \in Seq(S)
  BY DEF CrmInv
<1> QED BY ONLY <1>1, <1>2, <1>3, <1>4, <1>5, <1>6, provider' \in Crm \cup {""} DEF CrmInv

-----------------------------------------------------------------------------
(* The steps: a pull goes on *)

(* As long as nothing changes what was true of a pull or a batch is. *)
LEMMA NothingChanged ==
  ASSUME UNCHANGED <<provider, listed, edits>>
  PROVE  /\ \A p : PullOK(p)' <=> PullOK(p)
         /\ \A b : BatchOK(b)' <=> BatchOK(b)
         /\ ListsOK' <=> ListsOK
<1>1. \A c : OnBooks(c)' = OnBooks(c)
  BY DEF OnBooks
<1>2. \A c, n : FirstPages(c, n)' = FirstPages(c, n)
  BY DEF FirstPages
<1>3. ListsOK' <=> ListsOK
  BY DEF ListsOK
<1>4. \A p : PullOK(p)' <=> PullOK(p)
  BY <1>1, <1>2 DEF PullOK
<1>5. \A b : BatchOK(b)' <=> BatchOK(b)
  BY <1>1 DEF BatchOK
<1> QED BY <1>3, <1>4, <1>5

(* What a step may make of a pull: it ends, goes on under its stamp or      *)
(* begins with a stamp of its own.                                          *)
Onward(r, q) ==
    \/ q = Idle
    \/ /\ PullOK(q)
       /\ \/ pulls[r] # Idle /\ q.pulled_at = pulls[r].pulled_at
          \/ q.pulled_at \notin Stamps

LEMMA GoesKeeps ==
  ASSUME CrmInv, NEW r \in Puller, NEW q, Onward(r, q), pulls' = Goes(pulls, r, q),
         UNCHANGED <<provider, today, listed, edits, batches>>
  PROVE  CrmInv'
<1>1. pulls' = [pulls EXCEPT ![r] = q] /\ DOMAIN pulls = Puller
  BY DEF Goes, CrmInv
<1>2. DOMAIN pulls' = Puller /\ \A x \in Puller : pulls'[x] = IF x = r THEN q ELSE pulls[x]
  BY <1>1
<1>3. \A x \in Puller : pulls'[x] # Idle => PullOK(pulls[x])'
  <2> TAKE x \in Puller
  <2> HAVE pulls'[x] # Idle
  <2>1. PICK p : p = pulls'[x]
    OBVIOUS
  <2>2. PullOK(p)
    <3>1. CASE x = r
      BY <1>2, <2>1, <3>1 DEF Onward
    <3>2. CASE x # r
      BY <1>2, <2>1, <3>2 DEF CrmInv
    <3> QED BY <3>1, <3>2
  <2>3. PullOK(p)'
    BY <2>2, NothingChanged
  <2> QED BY <2>1, <2>3
<1>4. \A i \in DOMAIN batches' : BatchOK(batches[i])'
  <2> TAKE i \in DOMAIN batches'
  <2>1. PICK b : b = batches[i] /\ b = batches'[i]
    OBVIOUS
  <2>2. BatchOK(b)
    BY <2>1 DEF CrmInv
  <2>3. BatchOK(b)'
    BY <2>2, NothingChanged
  <2> QED BY <2>1, <2>3
<1>5. ListsOK'
  BY NothingChanged DEF CrmInv
<1>6. StampsOK'
  <2>1. \A x \in Running' : x # r => x \in Running /\ pulls'[x] = pulls[x]
    BY <1>2 DEF Running
  <2>2. r \in Running' => \/ r \in Running /\ pulls'[r].pulled_at = pulls[r].pulled_at
                          \/ /\ \A x \in Running : pulls'[r].pulled_at # pulls[x].pulled_at
                             /\ \A i \in DOMAIN batches : pulls'[r].pulled_at # batches[i].pulled_at
    BY <1>2 DEF Running, Onward, Stamps
  <2>3. StampsOK /\ batches' = batches
    BY DEF CrmInv
  <2>4. \A i, j \in DOMAIN batches' : batches'[i].pulled_at = batches'[j].pulled_at => i = j
    BY ONLY <2>3 DEF StampsOK
  <2>5. \A x, y \in Running' : pulls'[x].pulled_at = pulls'[y].pulled_at => x = y
    BY ONLY <2>1, <2>2, <2>3 DEF StampsOK
  <2>6. \A x \in Running', i \in DOMAIN batches' : pulls'[x].pulled_at # batches'[i].pulled_at
    BY ONLY <2>1, <2>2, <2>3 DEF StampsOK
  <2> QED BY ONLY <2>4, <2>5, <2>6, Zenon DEF StampsOK
<1>7. edits' \in Nat /\ today' \in Int /\ provider' \in Crm \cup {""} /\ \E S : batches' \in Seq(S)
  BY DEF CrmInv
<1> QED BY ONLY <1>2, <1>3, <1>4, <1>5, <1>6, <1>7 DEF CrmInv

(* A stamp is later than those before it. *)
LEMMA StampIsNew ==
  ASSUME CrmInv
  PROVE  Now \in Nat /\ Now \notin Stamps
<1> DEFINE S == Stamps \cup {0}
           A == {batches[i].pulled_at : i \in DOMAIN batches}
           B == {pulls[r].pulled_at : r \in Running}
           g == [i \in DOMAIN batches |-> batches[i].pulled_at]
           h == [r \in Running |-> pulls[r].pulled_at]
<1>1. A \subseteq Nat /\ B \subseteq Nat
  <2>1. \A i \in DOMAIN batches : batches[i].pulled_at \in Nat
    BY DEF CrmInv, BatchOK
  <2>2. \A r \in Running : pulls[r].pulled_at \in Nat
    BY DEF CrmInv, Running, PullOK, Pull
  <2> QED BY <2>1, <2>2
<1>2. IsFiniteSet(DOMAIN batches)
  <2>1. PICK T : batches \in Seq(T)
    BY DEF CrmInv
  <2>2. DOMAIN batches = 1..Len(batches) /\ Len(batches) \in Nat
    BY <2>1
  <2> QED BY <2>2, FS_Interval
<1>3. IsFiniteSet(Running)
  <2>1. Running \in SUBSET Puller
    BY DEF Running
  <2> QED BY <2>1, CrmConstants, FS_Subset
<1>4. IsFiniteSet(A) /\ IsFiniteSet(B)
  <2>1. DOMAIN g = DOMAIN batches /\ DOMAIN h = Running
    OBVIOUS
  <2>2. A = {g[i] : i \in DOMAIN g} /\ B = {h[r] : r \in DOMAIN h}
    OBVIOUS
  <2> HIDE DEF g, h, A, B
  <2> QED BY <1>2, <1>3, <2>1, <2>2, ImageFinite
<1>5. S = (A \cup B) \cup {0} /\ \A x \in S : x \in A \/ x \in B \/ x = 0
  BY DEF Stamps
<1> HIDE DEF A, B, S
<1>6. IsFiniteSet(S) /\ S \subseteq Int /\ S # {} /\ 0 \in S
  <2>1. IsFiniteSet(A \cup B) /\ IsFiniteSet({0})
    BY <1>4, FS_Union, FS_Singleton
  <2>2. IsFiniteSet(S)
    BY <1>5, <2>1, FS_Union
  <2>3. \A x \in S : x \in Int
    BY <1>1, <1>5
  <2> QED BY <1>5, <2>2, <2>3
<1>7. Max(S) \in S /\ \A x \in S : x <= Max(S)
  BY <1>6, MaxOf
<1>8. PICK m : m = Max(S)
  OBVIOUS
<1>9. Now = 1 + m
  BY <1>8 DEF Now, S
<1>10. S \subseteq Nat
  BY <1>1, <1>5
<1>11. m \in Nat /\ \A x \in Stamps : x <= m
  <2>1. \A x \in Stamps : x \in S
    BY DEF S
  <2> QED BY <1>7, <1>8, <1>10, <2>1
<1> QED BY <1>9, <1>11

LEMMA BegunKeeps ==
  ASSUME CrmInv, NEW r \in Puller, refresh_demand(r)
  PROVE  CrmInv'
<1> DEFINE q == [pc |-> "resolve", pulled_at |-> Now, name |-> provider, feed |-> "", start |-> today,
                 page |-> 1, kept |-> {}, asked |-> edits, ever |-> {}]
<1>1. Now \in Nat /\ Now \notin Stamps
  BY StampIsNew
<1>2. provider \in Crm /\ edits \in Nat /\ today \in Int
  BY DEF refresh_demand, CrmInv
<1>3. PICK n : n = Now
  OBVIOUS
<1>4. q \in Pull
  BY <1>1, <1>2 DEF Pull
<1>5. KeptOK({}) /\ Booked({}) = {}
  BY DEF KeptOK, Booked
<1>6. PullOK(q)
  <2>1. PICK x : x = q
    OBVIOUS
  <2>2. /\ x \in Pull /\ x.pc = "resolve" /\ x.kept = {} /\ x.page = 1 /\ x.asked = edits
        /\ x.name = provider
    BY <1>4, <2>1
  <2>3. x.asked <= edits
    BY <1>2, <2>2
  <2> HIDE DEF q
  <2>4. PullOK(x)
    BY <1>5, <2>2, <2>3 DEF PullOK
  <2> QED BY <2>1, <2>4
<1>7. Onward(r, q)
  <2>1. q.pulled_at \notin Stamps
    BY <1>1
  <2> QED BY <1>6, <2>1 DEF Onward
<1>8. pulls' = Goes(pulls, r, q) /\ UNCHANGED <<provider, today, listed, edits, batches>>
  BY DEF refresh_demand
<1> QED BY <1>7, <1>8, GoesKeeps

LEMMA ResolvedKeeps ==
  ASSUME CrmInv, NEW r \in Puller, resolve_crm_feed(r)
  PROVE  CrmInv'
<1>1. PICK p : p = pulls[r] /\ p.pc = "resolve" /\ p # Idle
  <2>1. pulls[r].pc = "resolve"
    BY DEF resolve_crm_feed, At
  <2>2. Idle.pc = "idle"
    BY DEF Idle
  <2> QED BY <2>1, <2>2
<1>2. PICK q : q = [p EXCEPT !.pc = "page", !.feed = provider, !.ever = OnBooks(provider)]
  OBVIOUS
<1>3. PullOK(p) /\ p \in Pull /\ p.kept = {} /\ p.page = 1
  BY <1>1 DEF CrmInv, PullOK
<1>4. provider \in Crm /\ OnBooks(provider) \subseteq Booking
  BY OnBooksBookings DEF resolve_crm_feed, CrmInv
<1>5. q \in Pull
  BY <1>2, <1>3, <1>4 DEF Pull
<1>6. /\ q.pc = "page" /\ q.feed = provider /\ q.ever = OnBooks(provider) /\ q.kept = {} /\ q.page = 1
      /\ q.asked = p.asked /\ q.name = p.name /\ q.pulled_at = p.pulled_at
  BY <1>2, <1>3 DEF Pull
<1>7. KeptOK({}) /\ Booked({}) = {}
  BY DEF KeptOK, Booked
<1>8. FirstPages(q.feed, q.page - 1) = {}
  <2>1. PICK s : s = listed[provider] /\ s \in Seq(Booking)
    BY <1>4 DEF CrmInv, ListsOK
  <2>2. \A m \in DOMAIN s : ~(m <= 0)
    BY <2>1
  <2>3. (1 - 1) * PageSize = 0
    BY CrmConstants
  <2> QED BY <1>6, <2>1, <2>2, <2>3 DEF FirstPages
<1>9. PullOK(q)
  BY <1>3, <1>4, <1>5, <1>6, <1>7, <1>8 DEF PullOK
<1>10. Onward(r, q)
  BY <1>1, <1>6, <1>9 DEF Onward
<1>11. pulls' = Goes(pulls, r, q) /\ UNCHANGED <<provider, today, listed, edits, batches>>
  BY <1>1, <1>2 DEF resolve_crm_feed
<1> QED BY <1>10, <1>11, GoesKeeps

(* The last page ends the books. *)
LEMMA LastPage ==
  ASSUME NEW c, listed[c] \in Seq(Booking), NEW page \in Nat, page >= total_pages(c)
  PROVE  FirstPages(c, page) = OnBooks(c)
<1>1. PICK n : n = Len(listed[c]) /\ n \in Nat
  OBVIOUS
<1>2. PICK z : z = PageSize /\ z \in Nat /\ z # 0
  BY CrmConstants
<1>3. PICK m : m = (n + z - 1) \div z
  OBVIOUS
<1>4. m \in Int /\ z * m >= n
  <2>1. PICK x : x = n + z - 1 /\ x \in Nat
    BY <1>1, <1>2
  <2>2. x = z * (x \div z) + (x % z) /\ x % z < z /\ x \div z \in Int
    BY ONLY <1>2, <2>1, Z3T(20)
  <2>3. PICK y : y = x % z /\ y \in Int
    BY ONLY <1>2, <2>1, Z3T(20)
  <2>4. PICK k : k = z * m /\ k \in Int /\ m \in Int
    BY ONLY <1>2, <1>3, <2>1, <2>2, Z3T(20)
  <2>5. x = k + y /\ y < z
    BY ONLY <1>3, <2>1, <2>2, <2>3, <2>4
  <2>6. k >= n
    <3>1. y \in Int /\ k \in Int
      BY <2>3, <2>4
    <3> QED BY ONLY <1>1, <1>2, <2>1, <2>5, <3>1
  <2> QED BY ONLY <2>4, <2>6
<1>5. page >= m
  <2>1. total_pages(c) = Max({1, m})
    BY <1>1, <1>2, <1>3 DEF total_pages
  <2>2. IsFiniteSet({1, m})
    <3>1. IsFiniteSet({1}) /\ IsFiniteSet({m}) /\ {1, m} = {1} \cup {m}
      BY FS_Singleton
    <3> QED BY <3>1, FS_Union
  <2>3. PICK t : t = Max({1, m}) /\ t \in {1, m} /\ m <= t
    <3>1. PICK S : S = {1, m}
      OBVIOUS
    <3>2. S \subseteq Int /\ S # {} /\ IsFiniteSet(S) /\ m \in S
      BY <1>4, <2>2, <3>1
    <3>3. Max(S) \in S /\ \A y \in S : y <= Max(S)
      BY ONLY <3>2, MaxOf
    <3> QED BY <3>1, <3>2, <3>3
  <2>4. page >= t
    BY <2>1, <2>3
  <2>5. t \in Int
    BY <1>4, <2>3
  <2> QED BY ONLY <1>4, <2>3, <2>4, <2>5, page \in Nat
<1>6. page * z >= n
  <2>1. page * z >= z * m
    BY ONLY <1>2, <1>4, <1>5, page \in Nat, Z3T(20)
  <2>2. PICK u : u = page * z /\ u \in Int
    BY ONLY <1>2, page \in Nat
  <2>3. PICK v : v = z * m /\ v \in Int
    BY ONLY <1>2, <1>4
  <2> QED BY ONLY <1>1, <1>4, <2>1, <2>2, <2>3
<1>7. DOMAIN listed[c] = 1..n /\ \A k \in 1..n : k <= page * PageSize
  <2>1. PICK u : u = page * PageSize /\ u >= n /\ u \in Int
    BY <1>2, <1>6
  <2> QED BY <1>1, <2>1
<1> QED BY <1>7 DEF FirstPages, OnBooks, Range

(* A page more. *)
LEMMA NextPage ==
  ASSUME NEW c, listed[c] \in Seq(Booking), NEW page \in Nat \ {0}
  PROVE  FirstPages(c, page) = FirstPages(c, page - 1) \cup Booked(Items(c, page))
<1>1. PICK s : s = listed[c] /\ s \in Seq(Booking)
  OBVIOUS
<1>2. PICK u : u = (page - 1) * PageSize /\ u \in Int
  BY CrmConstants
<1>3. PICK v : v = page * PageSize /\ v \in Int
  BY CrmConstants
<1>4. u <= v
  <2>1. PICK z : z = PageSize /\ z \in Nat
    BY CrmConstants
  <2>2. page * z = (page - 1) * z + z
    BY <2>1, Z3T(20)
  <2> QED BY <1>2, <1>3, <2>1, <2>2
<1>5. /\ FirstPages(c, page) = {s[k] : k \in {m \in DOMAIN s : m <= v}}
      /\ FirstPages(c, page - 1) = {s[k] : k \in {m \in DOMAIN s : m <= u}}
  BY <1>1, <1>2, <1>3 DEF FirstPages
<1>6. Booked(Items(c, page)) = {s[k] : k \in {m \in DOMAIN s : u < m /\ m <= v}}
  <2>1. Items(c, page) = {<<page, s[k]>> : k \in {m \in DOMAIN s : u < m /\ m <= v}}
    BY <1>1, <1>2, <1>3 DEF Items
  <2>2. \A x \in Items(c, page) : \E k \in {m \in DOMAIN s : u < m /\ m <= v} : x[2] = s[k]
    BY <2>1
  <2>3. \A k \in {m \in DOMAIN s : u < m /\ m <= v} : \E x \in Items(c, page) : x[2] = s[k]
    <3>1. ASSUME NEW k \in {m \in DOMAIN s : u < m /\ m <= v}
          PROVE  <<page, s[k]>> \in Items(c, page) /\ <<page, s[k]>>[2] = s[k]
      BY <2>1
    <3> QED BY <3>1
  <2> QED BY <2>2, <2>3 DEF Booked
<1>7. \A m \in DOMAIN s : m <= v <=> (m <= u \/ (u < m /\ m <= v))
  BY <1>1, <1>2, <1>3, <1>4
<1> QED BY <1>5, <1>6, <1>7

(* A page adds the bookings on it that were not kept. *)
LEMMA PageKept ==
  ASSUME NEW kept, KeptOK(kept), NEW c, listed[c] \in Seq(Booking), NEW page, page \in Nat,
         NEW all, all = kept \cup Unseen(kept, Items(c, page))
  PROVE  KeptOK(all) /\ Booked(all) = Booked(kept) \cup Booked(Items(c, page))
<1> DEFINE I == Items(c, page)
           U == Unseen(kept, I)
<1>1. \A x \in I : x \in Nat \X Booking /\ x[1] = page
  <2>1. PICK s : s = listed[c] /\ s \in Seq(Booking)
    OBVIOUS
  <2>2. \A k \in DOMAIN s : s[k] \in Booking
    BY <2>1
  <2> QED BY <2>1, <2>2 DEF Items
<1>2. U \subseteq I /\ \A x \in U : \A y \in kept : y[2] # x[2]
  BY DEF Unseen
<1>3. \A x \in I : x \notin U => \E y \in kept : y[2] = x[2]
  BY DEF Unseen
<1> HIDE DEF I, U
<1>4. kept \cup U \subseteq Nat \X Booking
  BY <1>1, <1>2 DEF KeptOK
<1>5. ASSUME NEW x \in kept \cup U, NEW y \in kept \cup U, x[2] = y[2]
      PROVE  x = y
  <2>1. CASE x \in kept /\ y \in kept
    BY <1>5, <2>1 DEF KeptOK
  <2>2. CASE x \in U /\ y \in U
    <3>1. x \in Nat \X Booking /\ y \in Nat \X Booking /\ x[1] = y[1]
      BY <1>1, <1>2, <2>2
    <3> QED BY <1>5, <3>1
  <2>3. CASE (x \in kept /\ y \in U) \/ (x \in U /\ y \in kept)
    BY <1>2, <1>5, <2>3
  <2> QED BY <2>1, <2>2, <2>3
<1>6. Booked(kept \cup U) = Booked(kept) \cup Booked(I)
  BY <1>2, <1>3 DEF Booked
<1>7. KeptOK(kept \cup U)
  BY <1>4, <1>5 DEF KeptOK
<1> QED BY <1>6, <1>7 DEF I, U

LEMMA FetchedKeeps ==
  ASSUME CrmInv, NEW r \in Puller, fetch_page(r)
  PROVE  CrmInv'
<1>1. PICK p : p = pulls[r] /\ p.pc = "page" /\ p # Idle
  <2>1. pulls[r].pc = "page"
    BY DEF fetch_page, At
  <2>2. Idle.pc = "idle"
    BY DEF Idle
  <2> QED BY <2>1, <2>2
<1>2. PullOK(p) /\ p \in Pull
  BY <1>1 DEF CrmInv, PullOK
<1>3. PICK c : c = p.feed /\ c \in Crm /\ listed[c] \in Seq(Booking)
  BY <1>1, <1>2 DEF PullOK, CrmInv, ListsOK
<1>4. PICK n : n = p.page /\ n \in Nat \ {0}
  BY <1>2 DEF Pull
<1>5. PICK all : all = p.kept \cup Unseen(p.kept, Items(c, n))
  OBVIOUS
<1>6. PICK pc : pc = IF n >= total_pages(c) THEN "store" ELSE "page"
  OBVIOUS
<1>7. PICK q : q = [p EXCEPT !.kept = all, !.page = n + 1, !.pc = pc]
  OBVIOUS
<1>8. pulls' = Goes(pulls, r, q) /\ UNCHANGED <<provider, today, listed, edits, batches>>
  BY <1>1, <1>3, <1>4, <1>5, <1>6, <1>7 DEF fetch_page
<1>9. KeptOK(all) /\ Booked(all) = Booked(p.kept) \cup Booked(Items(c, n))
  <2>1. PICK kept : kept = p.kept /\ KeptOK(kept)
    BY <1>2 DEF PullOK
  <2>2. listed[c] \in Seq(Booking) /\ n \in Nat
    BY <1>3, <1>4
  <2>3. all = kept \cup Unseen(kept, Items(c, n))
    BY ONLY <1>5, <2>1
  <2>4. KeptOK(all) /\ Booked(all) = Booked(kept) \cup Booked(Items(c, n))
    BY ONLY <2>1, <2>2, <2>3, PageKept
  <2> QED BY ONLY <2>1, <2>4
<1>10. q \in Pull
  <2>1. all \subseteq Nat \X Booking
    BY <1>9 DEF KeptOK
  <2>2. pc \in {"resolve", "page", "store"}
    BY <1>6
  <2>3. n + 1 \in Nat \ {0} /\ all \in SUBSET (Nat \X Booking)
    BY <1>4, <2>1
  <2>4. p \in Pull
    BY <1>2
  <2> QED BY ONLY <1>7, <2>2, <2>3, <2>4 DEF Pull
<1>11. /\ q.kept = all /\ q.page = n + 1 /\ q.pc = pc /\ q.feed = c /\ q.ever = p.ever
       /\ q.asked = p.asked /\ q.name = p.name /\ q.pulled_at = p.pulled_at
  BY <1>2, <1>3, <1>7 DEF Pull
<1>12. Booked(Items(c, n)) \subseteq OnBooks(c)
  BY DEF Items, Booked, OnBooks, Range
<1>13. Booked(all) \cup OnBooks(c) \subseteq q.ever
  BY <1>1, <1>2, <1>3, <1>9, <1>11, <1>12 DEF PullOK
<1>14. ASSUME p.asked = edits
       PROVE  /\ p.name = provider /\ c = provider
              /\ Booked(all) = FirstPages(c, n)
  <2>1. Booked(p.kept) = FirstPages(c, n - 1) /\ p.name = provider /\ c = provider
    BY <1>1, <1>2, <1>3, <1>4, <1>14 DEF PullOK
  <2> QED BY <1>3, <1>4, <1>9, <2>1, NextPage
<1>15. q.pc = "store" => FirstPages(c, n) = OnBooks(c)
  <2> HAVE q.pc = "store"
  <2>1. n >= total_pages(c)
    BY <1>6, <1>11
  <2> QED BY <1>3, <1>4, <2>1, LastPage
<1>16. q.page - 1 = n /\ q.pc # "resolve" /\ q.asked <= edits
  BY <1>2, <1>4, <1>6, <1>11 DEF PullOK
<1>17. PullOK(q)
  BY <1>3, <1>9, <1>10, <1>11, <1>13, <1>14, <1>15, <1>16 DEF PullOK
<1>18. Onward(r, q)
  BY <1>1, <1>11, <1>17 DEF Onward
<1> QED BY <1>8, <1>18, GoesKeeps

LEMMA RefusedKeeps ==
  ASSUME CrmInv, NEW r \in Puller, refused(r)
  PROVE  CrmInv'
BY GoesKeeps DEF refused, Onward

LEMMA StoredKeeps ==
  ASSUME CrmInv, NEW r \in Puller, store_pull(r)
  PROVE  CrmInv'
<1>1. PICK p : p = pulls[r] /\ p.pc = "store" /\ p # Idle
  <2>1. pulls[r].pc = "store"
    BY DEF store_pull, At
  <2>2. Idle.pc = "idle"
    BY DEF Idle
  <2> QED BY <2>1, <2>2
<1>2. PullOK(p) /\ p \in Pull
  BY <1>1 DEF CrmInv, PullOK
<1>3. PICK b : b = [pulled_at |-> p.pulled_at, provider |-> p.name, horizon |-> Window(p.start),
                    days |-> DemandOf(p.feed, p.kept, Window(p.start)), feed |-> p.feed,
                    asked |-> p.asked, ever |-> p.ever]
  OBVIOUS
<1>4. /\ batches' = Append(batches, b) /\ pulls' = Goes(pulls, r, Idle)
      /\ UNCHANGED <<provider, today, listed, edits>>
  BY <1>1, <1>3 DEF store_pull
<1>5. /\ b.pulled_at = p.pulled_at /\ b.provider = p.name /\ b.feed = p.feed /\ b.asked = p.asked
      /\ b.ever = p.ever /\ b.days = DemandOf(b.feed, p.kept, b.horizon)
  BY <1>3
<1>6. BatchOK(b)
  <2>1. b.pulled_at \in Nat /\ b.asked \in Nat /\ b.asked <= edits /\ b.provider \in Crm /\ b.ever \subseteq Booking
    BY <1>2, <1>5 DEF PullOK, Pull
  <2>2. b.feed \in Crm /\ KeptOK(p.kept) /\ Booked(p.kept) \subseteq b.ever
    BY <1>1, <1>2, <1>5 DEF PullOK
  <2>3. b.asked = edits => b.provider = provider /\ b.feed = provider /\ Booked(p.kept) = OnBooks(b.feed)
    BY <1>1, <1>2, <1>5 DEF PullOK
  <2> QED BY <1>5, <2>1, <2>2, <2>3 DEF BatchOK
<1>7. PICK S : batches \in Seq(S)
  BY DEF CrmInv
<1>8. /\ batches' \in Seq(S \cup {b}) /\ Len(batches) \in Nat
      /\ DOMAIN batches = 1..Len(batches) /\ DOMAIN batches' = 1..Len(batches) + 1
      /\ \A i \in DOMAIN batches' : batches'[i] = IF i = Len(batches) + 1 THEN b ELSE batches[i]
  <2>1. batches \in Seq(S \cup {b})
    BY <1>7
  <2> QED BY <1>4, <2>1
<1>9. \A i \in DOMAIN batches' : BatchOK(batches[i])'
  <2> TAKE i \in DOMAIN batches'
  <2>1. PICK x : x = batches'[i]
    OBVIOUS
  <2>2. BatchOK(x)
    <3>1. CASE i = Len(batches) + 1
      BY <1>6, <1>8, <2>1, <3>1
    <3>2. CASE i # Len(batches) + 1
      <4>1. i \in DOMAIN batches /\ x = batches[i]
        BY <1>8, <2>1, <3>2
      <4> QED BY <4>1 DEF CrmInv
    <3> QED BY <3>1, <3>2
  <2>3. BatchOK(x)'
    BY <1>4, <2>2, NothingChanged
  <2> QED BY <2>1, <2>3
<1>10. DOMAIN pulls' = Puller /\ \A x \in Puller : pulls'[x] = IF x = r THEN Idle ELSE pulls[x]
  BY <1>4 DEF Goes, CrmInv
<1>11. \A x \in Puller : pulls'[x] # Idle => PullOK(pulls[x])'
  <2> TAKE x \in Puller
  <2> HAVE pulls'[x] # Idle
  <2>1. PICK y : y = pulls'[x]
    OBVIOUS
  <2>2. PullOK(y)
    BY <1>10, <2>1 DEF CrmInv
  <2>3. PullOK(y)'
    BY <1>4, <2>2, NothingChanged
  <2> QED BY <2>1, <2>3
<1>12. ListsOK'
  BY <1>4, NothingChanged DEF CrmInv
<1>13. StampsOK'
  <2>1. \A x \in Running' : x # r /\ x \in Running /\ pulls'[x] = pulls[x]
    BY <1>10 DEF Running
  <2>2. r \in Running /\ b.pulled_at = pulls[r].pulled_at
    BY <1>1, <1>5 DEF Running
  <2>3. StampsOK
    BY DEF CrmInv
  <2>4. \A i \in DOMAIN batches : b.pulled_at # batches[i].pulled_at
    BY ONLY <2>2, <2>3 DEF StampsOK
  <2>5. \A i \in DOMAIN batches' : i = Len(batches) + 1 \/ i \in DOMAIN batches
    BY <1>8
  <2>6. \A i, j \in DOMAIN batches' : batches'[i].pulled_at = batches'[j].pulled_at => i = j
    BY ONLY <1>8, <2>3, <2>4, <2>5 DEF StampsOK
  <2>7. \A x, y \in Running' : pulls'[x].pulled_at = pulls'[y].pulled_at => x = y
    BY ONLY <2>1, <2>3 DEF StampsOK
  <2>8. \A x \in Running', i \in DOMAIN batches' : pulls'[x].pulled_at # batches'[i].pulled_at
    <3>1. \A x \in Running' : pulls'[x].pulled_at # b.pulled_at
      BY ONLY <2>1, <2>2, <2>3 DEF StampsOK
    <3>2. ASSUME NEW x \in Running', NEW i \in DOMAIN batches, i # Len(batches) + 1
          PROVE  pulls'[x].pulled_at # batches[i].pulled_at
      BY ONLY <2>1, <2>3, <3>2 DEF StampsOK
    <3> QED BY ONLY <1>8, <2>5, <3>1, <3>2
  <2> QED BY ONLY <2>6, <2>7, <2>8, Zenon DEF StampsOK
<1>14. edits' \in Nat /\ today' \in Int /\ provider' \in Crm \cup {""}
  BY <1>4 DEF CrmInv
<1>15. \E T : batches' \in Seq(T)
  BY <1>8
<1> QED BY ONLY <1>9, <1>10, <1>11, <1>12, <1>13, <1>14, <1>15 DEF CrmInv

-----------------------------------------------------------------------------
(* Demand is true *)

LEMMA CrmInitInv == ASSUME CrmInit PROVE CrmInv
<1>1. ListsOK
  <2>1. PICK bs \in {<<>>, SetToSeq(Booking)} : listed = [c \in Crm |-> bs]
    BY DEF CrmInit
  <2>2. bs \in Seq(Booking) /\ Distinct(bs)
    <3>1. <<>> \in Seq(Booking) /\ Distinct(<<>>)
      BY DEF Distinct
    <3> QED BY <2>1, <3>1, ListedOnce
  <2> QED BY <2>1, <2>2 DEF ListsOK
<1>2. DOMAIN pulls = Puller /\ \A r \in Puller : pulls[r] = Idle
  BY DEF CrmInit
<1>3. batches \in Seq({}) /\ DOMAIN batches = {}
  <2>1. batches = <<>>
    BY DEF CrmInit
  <2> QED BY ONLY <2>1
<1>4. Running = {}
  BY <1>2 DEF Running
<1>5. StampsOK
  BY <1>3, <1>4 DEF StampsOK
<1>6. edits \in Nat /\ today \in Int /\ provider \in Crm \cup {""}
  <2>1. edits = 0 /\ today = 1
    BY DEF CrmInit
  <2>2. provider \in Crm \cup {""}
    BY DEF CrmInit
  <2>3. edits \in Nat /\ today \in Int
    BY ONLY <2>1
  <2> QED BY <2>2, <2>3
<1>7. (\E S : batches \in Seq(S)) /\ \A i \in DOMAIN batches : BatchOK(batches[i])
  BY <1>3
<1>8. \A r \in Puller : pulls[r] # Idle => PullOK(pulls[r])
  BY <1>2
<1> QED BY ONLY <1>1, <1>2, <1>5, <1>6, <1>7, <1>8 DEF CrmInv

LEMMA CrmInvStep == ASSUME CrmInv, [CrmNext]_crmVars PROVE CrmInv'
<1>1. ASSUME NEW c \in Crm, NEW b \in Booking, book(c, b)
      PROVE  CrmInv'
  <2>1. PICK s : s = listed[c] /\ s \in Seq(Booking) /\ Distinct(s)
    BY DEF CrmInv, ListsOK
  <2>2. PICK i \in 1..Len(s) + 1 : Changes(c, InsertAt(s, i, b))
    BY <1>1, <2>1 DEF book
  <2>3. b \notin Range(s)
    BY <1>1, <2>1 DEF book, OnBooks
  <2>4. InsertAt(s, i, b) \in Seq(Booking) /\ Distinct(InsertAt(s, i, b))
    BY <2>1, <2>2, <2>3, Inserted
  <2> QED BY <2>2, <2>4, ChangesKeep
<1>2. ASSUME NEW c \in Crm, NEW b \in Booking, cancel(c, b)
      PROVE  CrmInv'
  <2>1. PICK s : s = listed[c] /\ s \in Seq(Booking) /\ Distinct(s)
    BY DEF CrmInv, ListsOK
  <2>2. PICK i \in DOMAIN s : Changes(c, RemoveAt(s, i))
    BY <1>2, <2>1 DEF cancel
  <2>3. i \in 1..Len(s)
    BY <2>1
  <2>4. RemoveAt(s, i) \in Seq(Booking) /\ Distinct(RemoveAt(s, i))
    BY <2>1, <2>3, Removed
  <2> QED BY <2>2, <2>4, ChangesKeep
<1>3. ASSUME today' \in Int, UNCHANGED <<provider, listed, edits, pulls, batches>>
      PROVE  CrmInv'
  <2>1. ListsOK'
    BY <1>3, NothingChanged DEF CrmInv
  <2>2. \A i \in DOMAIN batches' : BatchOK(batches[i])'
    <3> TAKE i \in DOMAIN batches'
    <3>1. PICK b : b = batches[i] /\ b = batches'[i]
      BY <1>3
    <3>2. BatchOK(b)
      BY <1>3, <3>1 DEF CrmInv
    <3>3. BatchOK(b)'
      BY <1>3, <3>2, NothingChanged
    <3> QED BY <3>1, <3>3
  <2>3. \A r \in Puller : pulls'[r] # Idle => PullOK(pulls[r])'
    <3> TAKE r \in Puller
    <3> HAVE pulls'[r] # Idle
    <3>1. PICK p : p = pulls[r] /\ p = pulls'[r]
      BY <1>3
    <3>2. PullOK(p)
      BY <3>1 DEF CrmInv
    <3>3. PullOK(p)'
      BY <1>3, <3>2, NothingChanged
    <3> QED BY <3>1, <3>3
  <2>4. StampsOK'
    BY <1>3 DEF CrmInv, StampsOK, Running
  <2>5. /\ DOMAIN pulls' = Puller /\ \E S : batches' \in Seq(S)
        /\ edits' \in Nat /\ provider' \in Crm \cup {""}
    BY <1>3 DEF CrmInv
  <2> QED BY ONLY <1>3, <2>1, <2>2, <2>3, <2>4, <2>5 DEF CrmInv
<1>4. CASE Midnight
  <2>1. today' \in Int
    <3>1. today \in Int /\ today' = today + 1
      BY <1>4 DEF Midnight, CrmInv
    <3> QED BY ONLY <3>1
  <2>2. UNCHANGED <<provider, listed, edits, pulls, batches>>
    BY <1>4 DEF Midnight
  <2> QED BY <1>3, <2>1, <2>2
<1>5. CASE UNCHANGED crmVars
  <2>1. today' \in Int
    BY <1>5 DEF crmVars, CrmInv
  <2> QED BY <1>3, <1>5, <2>1 DEF crmVars
<1>6. ASSUME NEW c \in Crm, connect(c) PROVE CrmInv'
  BY <1>6, ConnectionKeeps DEF connect
<1>7. CASE disconnect_feed
  BY <1>7, ConnectionKeeps DEF disconnect_feed
<1>8. ASSUME NEW r \in Puller, \/ refresh_demand(r) \/ resolve_crm_feed(r) \/ fetch_page(r)
                                \/ refused(r) \/ store_pull(r)
      PROVE  CrmInv'
  BY <1>8, BegunKeeps, ResolvedKeeps, FetchedKeeps, RefusedKeeps, StoredKeeps
<1> QED BY <1>1, <1>2, <1>4, <1>5, <1>6, <1>7, <1>8 DEF CrmNext

(* The demand that the scheduler is shown counts no booking twice and none  *)
(* that was not there, and is what the connected provider would say now     *)
(* whenever nothing changed since the newest pull began (crm_pull.py,       *)
(* crm_feed.py): for any bookings, page size, horizon and refresh requests. *)
THEOREM DemandIsWhatWasThere == CrmSpec => []DemandIsTrue
<1>1. CrmSpec => []CrmInv
  BY CrmInitInv, CrmInvStep, PTL DEF CrmSpec
<1> QED BY <1>1, CrmInvSafe, PTL
=============================================================================
