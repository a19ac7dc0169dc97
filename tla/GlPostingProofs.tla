-------------------------- MODULE GlPostingProofs ---------------------------
(***************************************************************************)
(* The posting engine implements its abstract journal and keeps books that *)
(* net, for any properties, dates, contents, accounts and calendars; and   *)
(* the ledger row names its entry under every interleaving of the SQL      *)
(* statements of any number of posting sessions (GlPostingTx).             *)
(***************************************************************************)
EXTENDS GlPostingTx, FiniteSetTheorems, TLAPS

(* Empty tables are well typed. *)
LEMMA InitType == ASSUME Init PROVE TypeOK
  BY GlConstants DEF Init, TypeOK, Grain, NoRow, Row, RowStatus, Entry, AccountState

Outcomes == {"posted", "noop", "reposted", "reversed", "skipped", "failed"}

Fact == Content \cup {NoFacts}

PostsTo(g, f) ==
    /\ journal'[g] = JournalAfter(g, f)
    /\ ledger'[g] = RowAfter(Outcome(g, f), ledger[g], f, Len(JournalAfter(g, f)))
    /\ UNCHANGED <<closed, calendar, chart>>

Stays(g) == journal'[g] = journal[g] /\ ledger'[g] = ledger[g]

(* Every operation leaves a grain's books alone or takes it through            *)
(* post_and_record under the facts of the next state.                          *)
LEMMA GrainStep ==
  ASSUME TypeOK, [Next]_vars, NEW g \in Grain
  PROVE  Stays(g) \/ PostsTo(g, facts'[g])
<1>1. ASSUME NEW R, NEW f, post_and_record(R, f), UNCHANGED <<closed, calendar, chart>>
      PROVE  Stays(g) \/ PostsTo(g, f[g])
  BY <1>1 DEF post_and_record, Stays, PostsTo
<1>2. ASSUME NEW h \in Grain, NEW c \in Fact, process_section(h, c)
      PROVE  Stays(g) \/ PostsTo(g, facts'[g])
  BY <1>1, <1>2 DEF process_section
<1>3. ASSUME NEW h \in Grain, NEW c \in Content, transform(h, c) PROVE Stays(g)
  BY <1>3 DEF transform, Stays
<1>4. ASSUME NEW D \in SUBSET PayrollGrain, NEW c \in [D -> Fact], demote_timecard(D, c)
      PROVE  Stays(g) \/ PostsTo(g, facts'[g])
  BY <1>1, <1>4 DEF demote_timecard
<1>5. ASSUME NEW D \in SUBSET PayrollGrain, NEW c \in [D -> Fact], NEW W \in SUBSET D,
             promote_timecard(D, W, c)
      PROVE  Stays(g) \/ PostsTo(g, facts'[g])
  BY <1>1, <1>5 DEF promote_timecard
<1>6. ASSUME NEW p \in Property, NEW from \in Date, NEW to \in Date, gl_post(p, from, to)
      PROVE  Stays(g) \/ PostsTo(g, facts'[g])
  <2>1. Stays(g) \/ PostsTo(g, facts[g])
    BY <1>1, <1>6 DEF gl_post
  <2> QED BY <2>1, <1>6 DEF gl_post
<1>7. ASSUME NEW p \in Property, NEW from \in Date, NEW to \in Date, post_range(p, from, to)
      PROVE  Stays(g) \/ PostsTo(g, facts'[g])
  BY <1>6, <1>7 DEF post_range
<1>8. ASSUME \/ \E p \in Property, k \in PeriodKey : close_period(p, k) \/ reopen_period(p, k)
             \/ \E p \in Property, c \in Calendar : set_fiscal_calendar(p, c)
             \/ seed_chart
             \/ \E a \in Account, b \in BOOLEAN : put_account(a, b)
             \/ UNCHANGED vars
      PROVE  Stays(g)
  BY <1>8 DEF close_period, reopen_period, set_fiscal_calendar, seed_chart, put_account,
              vars, Stays
<1> QED
  BY <1>2, <1>3, <1>4, <1>5, <1>6, <1>7, <1>8 DEF Next, TypeOK, Fact

(* The row keeps its entry and hash; its status can only follow _fail. *)
Keeps(g) ==
    /\ journal'[g] = journal[g]
    /\ ledger'[g].entry = ledger[g].entry
    /\ ledger'[g].hash = ledger[g].hash
    /\ ledger'[g].status = "posted" <=> ledger[g].status = "posted"
    /\ ledger'[g] \in Row

Posted(g, f) ==
    /\ f \in Content
    /\ ledger[g].entry = 0
    /\ journal'[g] = Append(journal[g], Original(f))
    /\ ledger'[g] = PostedRow(f, Len(journal[g]) + 1)

Reposted(g, f) ==
    /\ f \in Content
    /\ ledger[g].entry # 0
    /\ ledger[g].hash # f
    /\ journal'[g] = Append(Append(journal[g], Reversal(g, ledger[g])), Original(f))
    /\ ledger'[g] = PostedRow(f, Len(journal[g]) + 2)

Reversed(g, f) ==
    /\ f = NoFacts
    /\ ledger[g].entry # 0
    /\ journal'[g] = Append(journal[g], Reversal(g, ledger[g]))
    /\ ledger'[g] = NoRow

OpenPeriod(g) == ~(Configured(g) /\ PeriodClosed(g))

(* The row is consistent: what OneStandingEntry says of the row alone. *)
RowOK(g) ==
    /\ ledger[g].entry # 0 => ledger[g].entry \in DOMAIN journal[g]
    /\ ledger[g].status = "posted" <=> ledger[g].entry # 0

(* The four things post_and_record can do to a grain: keep it, post it for the *)
(* first time, post a correction over a reversal, or reverse without posting.  *)
LEMMA PostCases ==
  ASSUME TypeOK, NEW g \in Grain, NEW f \in Fact, RowOK(g), PostsTo(g, f)
  PROVE  \/ Keeps(g)
         \/ OpenPeriod(g) /\ (Posted(g, f) \/ Reposted(g, f) \/ Reversed(g, f))
<1> DEFINE o == Outcome(g, f)
<1> DEFINE J == journal[g]
<1> DEFINE row == ledger[g]
<1>0. row \in Row /\ J \in Seq(Entry) /\ Len(J) \in Nat
  BY DEF TypeOK
<1>r. ASSUME row.entry # 0 PROVE Reversal(g, row) \in Entry
  <2>1. row.entry \in Nat
    BY <1>0 DEF Row
  <2>2. J[row.entry] \in Entry
    BY <1>0, <1>r DEF RowOK
  <2>3. J[row.entry].content \in Content
    BY <2>2 DEF Entry
  <2> QED BY <2>1, <2>3 DEF Reversal, Entry
<1>1. o \in Outcomes
  BY DEF Outcome, Decide, Outcomes
<1>2. CASE o = "posted"
  <2>1. f \in Content /\ row.entry = 0 /\ OpenPeriod(g)
    BY <1>2 DEF Outcome, Decide, Fact, OpenPeriod
  <2>2. Appended(g, o, row, f) = <<Original(f)>>
    BY <1>2 DEF Appended
  <2>3. journal'[g] = Append(J, Original(f)) /\ Len(JournalAfter(g, f)) = Len(J) + 1
    <3>1. Original(f) \in Entry
      BY <2>1 DEF Original, Entry
    <3> QED BY <1>0, <2>2, <3>1 DEF PostsTo, JournalAfter
  <2>4. ledger'[g] = PostedRow(f, Len(J) + 1)
    BY <1>2, <2>3 DEF PostsTo, RowAfter
  <2> QED BY <2>1, <2>3, <2>4 DEF Posted
<1>3. CASE o = "reposted"
  <2>1. f \in Content /\ row.entry # 0 /\ row.hash # f /\ OpenPeriod(g)
    BY <1>3 DEF Outcome, Decide, Fact, OpenPeriod
  <2>2. Appended(g, o, row, f) = <<Reversal(g, row), Original(f)>>
    BY <1>3 DEF Appended
  <2>3. /\ journal'[g] = Append(Append(J, Reversal(g, row)), Original(f))
        /\ Len(JournalAfter(g, f)) = Len(J) + 2
    <3>1. Original(f) \in Entry /\ Reversal(g, row) \in Entry
      BY <1>r, <2>1 DEF Original, Entry
    <3> QED BY <1>0, <2>2, <3>1 DEF PostsTo, JournalAfter
  <2>4. ledger'[g] = PostedRow(f, Len(J) + 2)
    BY <1>3, <2>3 DEF PostsTo, RowAfter
  <2> QED BY <2>1, <2>3, <2>4 DEF Reposted
<1>4. CASE o = "reversed"
  <2>1. f = NoFacts /\ row.entry # 0 /\ OpenPeriod(g)
    BY <1>4 DEF Outcome, Decide, OpenPeriod
  <2>2. Appended(g, o, row, f) = <<Reversal(g, row)>>
    BY <1>4 DEF Appended
  <2>3. journal'[g] = Append(J, Reversal(g, row))
    BY <1>0, <1>r, <2>1, <2>2 DEF PostsTo, JournalAfter
  <2>4. ledger'[g] = NoRow
    BY <1>4 DEF PostsTo, RowAfter
  <2> QED BY <2>1, <2>3, <2>4 DEF Reversed
<1>5. CASE o \in {"noop", "skipped", "failed"}
  <2>1. Appended(g, o, row, f) = <<>>
    BY <1>5 DEF Appended
  <2>2. journal'[g] = J
    BY <1>0, <2>1 DEF PostsTo, JournalAfter
  <2>3. ledger'[g] \in {ClearedRow(row), row, FailedRow(row)}
    BY <1>5 DEF PostsTo, RowAfter
  <2>4. ClearedRow(row) \in Row /\ FailedRow(row) \in Row
    BY <1>0 DEF ClearedRow, FailedRow, Row, RowStatus
  <2>5. ledger'[g] \in Row
    BY <1>0, <2>3, <2>4
  <2>6. ledger'[g].entry = row.entry /\ ledger'[g].hash = row.hash
    BY <2>3 DEF ClearedRow, FailedRow
  <2>7. ledger'[g].status = "posted" <=> row.status = "posted"
    BY <2>3 DEF ClearedRow, FailedRow, RowOK
  <2> QED BY <2>2, <2>5, <2>6, <2>7 DEF Keeps
<1> QED BY <1>1, <1>2, <1>3, <1>4, <1>5 DEF Outcomes

-----------------------------------------------------------------------------
(* The inductive invariant, for the journal J and the ledger row of a grain. *)

Undone(J, i) == \E j \in 1..Len(J) : J[j].reversal_of = i

Pairs(J) ==
    /\ \A i \in 1..Len(J) : J[i].reversal_of # 0 =>
          /\ J[i].reversal_of \in 1..(i - 1)
          /\ J[J[i].reversal_of].reversal_of = 0
          /\ J[J[i].reversal_of].content = J[i].content
    /\ \A i, j \in 1..Len(J) :
          J[i].reversal_of # 0 /\ J[i].reversal_of = J[j].reversal_of => i = j

Stands(J, row) ==
    /\ row.entry # 0 =>
          /\ row.entry \in 1..Len(J)
          /\ J[row.entry].reversal_of = 0
          /\ ~Undone(J, row.entry)
          /\ row.hash = J[row.entry].content
    /\ row.entry = 0 => row.hash = NoFacts
    /\ row.status = "posted" <=> row.entry # 0

OthersUndone(J, row) ==
    \A i \in 1..Len(J) : J[i].reversal_of = 0 /\ i # row.entry => Undone(J, i)

GrainInv(J, row) == Pairs(J) /\ Stands(J, row) /\ OthersUndone(J, row)

Inv == TypeOK /\ \A g \in Grain : GrainInv(journal[g], ledger[g])

(* An entry of a journal has a content and the position it reverses. *)
LEMMA EntryFields ==
  ASSUME NEW J \in Seq(Entry), NEW i \in 1..Len(J)
  PROVE  J[i].content \in Content /\ J[i].reversal_of \in Nat
<1>1. J[i] \in Entry
  OBVIOUS
<1> QED BY <1>1 DEF Entry

(* Appending an original that nothing undoes keeps the reversals paired. *)
LEMMA AppendOriginal ==
  ASSUME NEW J \in Seq(Entry), Pairs(J), NEW c \in Content
  PROVE  /\ Append(J, Original(c)) \in Seq(Entry)
         /\ Pairs(Append(J, Original(c)))
         /\ ~Undone(Append(J, Original(c)), Len(J) + 1)
         /\ \A i \in 1..Len(J) : Undone(Append(J, Original(c)), i) <=> Undone(J, i)
<1> DEFINE K == Append(J, Original(c))
<1> DEFINE n == Len(J)
<1>1. n \in Nat /\ Original(c) \in Entry
  BY DEF Original, Entry
<1>2. /\ K \in Seq(Entry) /\ Len(K) = n + 1
      /\ \A i \in 1..n : K[i] = J[i]
      /\ K[n + 1] = Original(c)
  BY <1>1
<1>3. K[n + 1].reversal_of = 0 /\ K[n + 1].content = c
  BY <1>2 DEF Original
<1>4. \A i \in 1..n : J[i].reversal_of \in Nat
  BY EntryFields
<1> HIDE DEF K, n
<1>5. Pairs(K)
  <2>1. ASSUME NEW i \in 1..Len(K), K[i].reversal_of # 0
        PROVE  /\ K[i].reversal_of \in 1..(i - 1)
               /\ K[K[i].reversal_of].reversal_of = 0
               /\ K[K[i].reversal_of].content = K[i].content
    <3>1. i \in 1..n
      BY <2>1, <1>1, <1>2, <1>3
    <3>2. K[i] = J[i] /\ J[i].reversal_of \in 1..(i - 1)
      BY <2>1, <3>1, <1>2 DEF Pairs, n
    <3>3. K[J[i].reversal_of] = J[J[i].reversal_of]
      BY <3>1, <3>2, <1>1, <1>2
    <3> QED BY <2>1, <3>1, <3>2, <3>3 DEF Pairs, n
  <2>2. ASSUME NEW i \in 1..Len(K), NEW j \in 1..Len(K),
               K[i].reversal_of # 0, K[i].reversal_of = K[j].reversal_of
        PROVE  i = j
    <3>1. i \in 1..n /\ j \in 1..n
      BY <2>2, <1>1, <1>2, <1>3
    <3> QED BY <2>2, <3>1, <1>2 DEF Pairs, n
  <2> QED BY <2>1, <2>2 DEF Pairs
<1>6. ~Undone(K, n + 1)
  BY <1>1, <1>2, <1>3, <1>4 DEF Pairs, Undone, n
<1>7. \A i \in 1..n : Undone(K, i) <=> Undone(J, i)
  BY <1>1, <1>2, <1>3, SMTT(30) DEF Undone, n
<1> QED BY <1>2, <1>5, <1>6, <1>7 DEF K, n

(* Appending the reversal of an original that still stands pairs it. *)
LEMMA AppendReversal ==
  ASSUME NEW J \in Seq(Entry), Pairs(J), NEW o \in 1..Len(J),
         J[o].reversal_of = 0, ~Undone(J, o),
         NEW r, r = [content |-> J[o].content, reversal_of |-> o]
  PROVE  /\ Append(J, r) \in Seq(Entry)
         /\ Pairs(Append(J, r))
         /\ Undone(Append(J, r), o)
         /\ ~Undone(Append(J, r), Len(J) + 1)
         /\ \A i \in 1..Len(J) : i # o => (Undone(Append(J, r), i) <=> Undone(J, i))
<1> DEFINE K == Append(J, r)
<1> DEFINE n == Len(J)
<1>1. n \in Nat /\ r \in Entry /\ o \in Nat /\ o # 0
  <2>1. n \in Nat /\ o \in Nat /\ o # 0
    OBVIOUS
  <2>2. J[o].content \in Content
    BY EntryFields
  <2> QED BY <2>1, <2>2 DEF Entry
<1>2. /\ K \in Seq(Entry) /\ Len(K) = n + 1
      /\ \A i \in 1..n : K[i] = J[i]
      /\ K[n + 1] = r
  BY <1>1
<1>3. K[n + 1].reversal_of = o /\ K[n + 1].content = J[o].content
  BY <1>2
<1>4. \A i \in 1..n : J[i].reversal_of \in Nat /\ J[i].reversal_of # o
  BY EntryFields DEF Undone
<1> HIDE DEF K, n
<1>5. Pairs(K)
  <2>1. \A i \in 1..Len(K) : K[i].reversal_of # 0 =>
          /\ K[i].reversal_of \in 1..(i - 1)
          /\ K[K[i].reversal_of].reversal_of = 0
          /\ K[K[i].reversal_of].content = K[i].content
    <3> SUFFICES ASSUME NEW i \in 1..Len(K), K[i].reversal_of # 0
                 PROVE  /\ K[i].reversal_of \in 1..(i - 1)
                        /\ K[K[i].reversal_of].reversal_of = 0
                        /\ K[K[i].reversal_of].content = K[i].content
      OBVIOUS
    <3>1. CASE i \in 1..n
      BY <3>1, <1>1, <1>2 DEF Pairs, n
    <3>2. CASE i = n + 1
      BY <3>2, <1>1, <1>2, <1>3 DEF n
    <3> QED BY <3>1, <3>2, <1>1, <1>2
  <2>2. ASSUME NEW i \in 1..Len(K), NEW j \in 1..Len(K),
               K[i].reversal_of # 0, K[i].reversal_of = K[j].reversal_of
        PROVE  i = j
    <3>1. CASE i \in 1..n /\ j \in 1..n
      BY <2>2, <3>1, <1>2 DEF Pairs, n
    <3>2. CASE i = n + 1
      <4>1. K[j].reversal_of = o
        BY <2>2, <3>2, <1>3
      <4>2. j \notin 1..n
        BY <4>1, <1>2, <1>4
      <4>3. Len(K) = n + 1
        BY <1>2
      <4> QED BY <1>1, <2>2, <3>2, <4>2, <4>3
    <3>3. CASE j = n + 1
      <4>1. K[i].reversal_of = o
        BY <2>2, <3>3, <1>3
      <4>2. i \notin 1..n
        BY <4>1, <1>2, <1>4
      <4>3. Len(K) = n + 1
        BY <1>2
      <4> QED BY <1>1, <2>2, <3>3, <4>2, <4>3
    <3> QED BY <3>1, <3>2, <3>3, <1>1, <1>2
  <2> QED BY <2>1, <2>2 DEF Pairs
<1>6. Undone(K, o)
  BY <1>1, <1>2, <1>3 DEF Undone
<1>7. ~Undone(K, n + 1)
  BY <1>1, <1>2, <1>3, <1>4 DEF Pairs, Undone, n
<1>8. ASSUME NEW i \in 1..n, i # o PROVE Undone(K, i) <=> Undone(J, i)
  <2>1. Undone(J, i) => Undone(K, i)
    BY <1>1, <1>2 DEF Undone, n
  <2>2. ASSUME NEW j \in 1..Len(K), K[j].reversal_of = i PROVE Undone(J, i)
    <3>1. j # n + 1
      BY <2>2, <1>3, <1>8
    <3>2. j \in 1..n
      BY <3>1, <1>1, <1>2
    <3> QED BY <2>2, <3>2, <1>2 DEF Undone, n
  <2> QED BY <2>1, <2>2 DEF Undone
<1> QED BY <1>2, <1>5, <1>6, <1>7, <1>8 DEF K, n

-----------------------------------------------------------------------------
(* What the step of a grain does to the invariant. *)

(* The invariant says what PostCases needs to know of the ledger row. *)
LEMMA RowOKInv ==
  ASSUME Inv, NEW g \in Grain PROVE RowOK(g)
  BY DEF Inv, GrainInv, Stands, RowOK, TypeOK

(* A grain whose journal and named entry do not move keeps its invariant. *)
LEMMA KeepsInv ==
  ASSUME Inv, NEW g \in Grain, Keeps(g) \/ Stays(g)
  PROVE  /\ GrainInv(journal'[g], ledger'[g])
         /\ journal'[g] \in Seq(Entry) /\ ledger'[g] \in Row
  BY DEF Inv, TypeOK, Keeps, Stays, GrainInv, Stands, OthersUndone

(* A first posting keeps the invariant of its grain. *)
LEMMA PostedInv ==
  ASSUME Inv, NEW g \in Grain, NEW f, Posted(g, f)
  PROVE  /\ GrainInv(journal'[g], ledger'[g])
         /\ journal'[g] \in Seq(Entry) /\ ledger'[g] \in Row
<1> DEFINE J == journal[g]
<1> DEFINE K == Append(J, Original(f))
<1> DEFINE n == Len(J)
<1>1. J \in Seq(Entry) /\ n \in Nat /\ GrainInv(J, ledger[g]) /\ f \in Content
  BY DEF Inv, TypeOK, Posted
<1>2. journal'[g] = K /\ ledger'[g] = PostedRow(f, n + 1) /\ ledger[g].entry = 0
  BY DEF Posted
<1>3. /\ K \in Seq(Entry) /\ Pairs(K) /\ ~Undone(K, n + 1)
      /\ \A i \in 1..n : Undone(K, i) <=> Undone(J, i)
  BY <1>1, AppendOriginal DEF GrainInv
<1>4. Len(K) = n + 1 /\ K[n + 1] = Original(f) /\ \A i \in 1..n : K[i] = J[i]
  BY <1>1 DEF Original, Entry
<1>5. PostedRow(f, n + 1) \in Row
  BY <1>1 DEF PostedRow, Row, RowStatus
<1>6. K[n + 1].reversal_of = 0 /\ K[n + 1].content = f
  BY <1>4 DEF Original
<1> HIDE DEF K, n
<1>7. Stands(K, PostedRow(f, n + 1))
  BY <1>1, <1>3, <1>4, <1>6 DEF Stands, PostedRow, n
<1>8. OthersUndone(K, PostedRow(f, n + 1))
  <2> SUFFICES ASSUME NEW i \in 1..Len(K), K[i].reversal_of = 0, i # n + 1
               PROVE  Undone(K, i)
    BY DEF OthersUndone, PostedRow
  <2>1. i \in 1..n
    BY <1>1, <1>4 DEF n
  <2> QED BY <2>1, <1>1, <1>2, <1>3, <1>4 DEF GrainInv, OthersUndone, n
<1> QED BY <1>2, <1>3, <1>5, <1>7, <1>8 DEF GrainInv

(* Reversing the standing entry keeps the reversals paired and none standing. *)
LEMMA ReversedInv ==
  ASSUME Inv, NEW g \in Grain, ledger[g].entry # 0,
         NEW K, K = Append(journal[g], Reversal(g, ledger[g]))
  PROVE  /\ K \in Seq(Entry) /\ Len(K) = Len(journal[g]) + 1 /\ Pairs(K)
         /\ \A i \in 1..Len(K) : K[i].reversal_of = 0 => Undone(K, i)
<1> DEFINE J == journal[g]
<1> DEFINE o == ledger[g].entry
<1> DEFINE n == Len(J)
<1>1. J \in Seq(Entry) /\ n \in Nat /\ Pairs(J)
  BY DEF Inv, TypeOK, GrainInv
<1>2. o \in 1..n /\ J[o].reversal_of = 0 /\ ~Undone(J, o)
  BY DEF Inv, GrainInv, Stands
<1>3. Reversal(g, ledger[g]) = [content |-> J[o].content, reversal_of |-> o]
  BY DEF Reversal
<1>4. /\ K \in Seq(Entry) /\ Pairs(K) /\ Undone(K, o)
      /\ \A i \in 1..n : i # o => (Undone(K, i) <=> Undone(J, i))
  BY <1>1, <1>2, <1>3, AppendReversal
<1>5. /\ Len(K) = n + 1 /\ \A i \in 1..n : K[i] = J[i]
      /\ K[n + 1] = Reversal(g, ledger[g])
  BY <1>1
<1>6. K[n + 1].reversal_of = o /\ o # 0
  BY <1>3, <1>5
<1>7. ASSUME NEW i \in 1..Len(K), K[i].reversal_of = 0 PROVE Undone(K, i)
  <2>1. i \in 1..n
    BY <1>7, <1>1, <1>5, <1>6
  <2>2. CASE i = o
    BY <2>2, <1>4
  <2>3. CASE i # o
    BY <1>7, <2>1, <2>3, <1>4, <1>5 DEF Inv, GrainInv, OthersUndone
  <2> QED BY <2>2, <2>3
<1> QED BY <1>4, <1>5, <1>7

(* A reversal without a correction keeps the invariant of its grain. *)
LEMMA WithdrawnInv ==
  ASSUME Inv, NEW g \in Grain, NEW f, Reversed(g, f)
  PROVE  /\ GrainInv(journal'[g], ledger'[g])
         /\ journal'[g] \in Seq(Entry) /\ ledger'[g] \in Row
<1>1. /\ journal'[g] \in Seq(Entry) /\ Pairs(journal'[g])
      /\ \A i \in 1..Len(journal'[g]) :
            journal'[g][i].reversal_of = 0 => Undone(journal'[g], i)
  BY ReversedInv DEF Reversed
<1>2. ledger'[g] = NoRow
  BY DEF Reversed
<1>3. NoRow \in Row
  BY DEF NoRow, Row, RowStatus
<1>4. NoRow.entry = 0 /\ NoRow.hash = NoFacts /\ NoRow.status # "posted"
  BY DEF NoRow
<1> QED BY <1>1, <1>2, <1>3, <1>4 DEF GrainInv, Stands, OthersUndone

(* A reversal with its correction keeps the invariant of its grain. *)
LEMMA RepostedInv ==
  ASSUME Inv, NEW g \in Grain, NEW f, Reposted(g, f)
  PROVE  /\ GrainInv(journal'[g], ledger'[g])
         /\ journal'[g] \in Seq(Entry) /\ ledger'[g] \in Row
<1> DEFINE L == Append(journal[g], Reversal(g, ledger[g]))
<1> DEFINE K == Append(L, Original(f))
<1> DEFINE n == Len(journal[g]) + 1
<1>1. /\ L \in Seq(Entry) /\ Len(L) = n /\ Pairs(L)
      /\ \A i \in 1..n : L[i].reversal_of = 0 => Undone(L, i)
  BY ReversedInv DEF Reposted
<1>2. n \in Nat /\ f \in Content /\ journal'[g] = K /\ ledger'[g] = PostedRow(f, n + 1)
  BY DEF Reposted, Inv, TypeOK
<1> HIDE DEF L
<1>3. /\ K \in Seq(Entry) /\ Pairs(K) /\ ~Undone(K, n + 1)
      /\ \A i \in 1..n : Undone(K, i) <=> Undone(L, i)
  BY <1>1, <1>2, AppendOriginal
<1>4. Len(K) = n + 1 /\ K[n + 1] = Original(f) /\ \A i \in 1..n : K[i] = L[i]
  BY <1>1, <1>2 DEF Original, Entry
<1>5. PostedRow(f, n + 1) \in Row
  BY <1>2 DEF PostedRow, Row, RowStatus
<1>6. K[n + 1].reversal_of = 0 /\ K[n + 1].content = f
  BY <1>4 DEF Original
<1> HIDE DEF K, n
<1>7. Stands(K, PostedRow(f, n + 1))
  BY <1>2, <1>3, <1>4, <1>6 DEF Stands, PostedRow
<1>8. OthersUndone(K, PostedRow(f, n + 1))
  <2> SUFFICES ASSUME NEW i \in 1..Len(K), K[i].reversal_of = 0, i # n + 1
               PROVE  Undone(K, i)
    BY DEF OthersUndone, PostedRow
  <2>1. i \in 1..n
    BY <1>2, <1>4
  <2> QED BY <2>1, <1>1, <1>3, <1>4
<1> QED BY <1>2, <1>3, <1>5, <1>7, <1>8 DEF GrainInv

-----------------------------------------------------------------------------
(* The tables keep their types; journal and ledger stay functions on Grain. *)
LEMMA ShapeStep ==
  ASSUME TypeOK, [Next]_vars
  PROVE  /\ facts' \in [Grain -> Fact]
         /\ journal' = [g \in Grain |-> journal'[g]]
         /\ ledger' = [g \in Grain |-> ledger'[g]]
         /\ closed' \subseteq Property \X PeriodKey
         /\ calendar' \in [Property -> Calendar \cup {NoCalendar}]
         /\ chart' \in [Account -> AccountState]
<1> DEFINE Shape ==
      /\ facts' \in [Grain -> Fact]
      /\ journal' = [g \in Grain |-> journal'[g]]
      /\ ledger' = [g \in Grain |-> ledger'[g]]
      /\ closed' \subseteq Property \X PeriodKey
      /\ calendar' \in [Property -> Calendar \cup {NoCalendar}]
      /\ chart' \in [Account -> AccountState]
<1>0. facts \in [Grain -> Fact]
  BY DEF TypeOK, Fact
<1>1. ASSUME NEW R, NEW f, post_and_record(R, f), facts' \in [Grain -> Fact],
             UNCHANGED <<closed, calendar, chart>>
      PROVE  Shape
  BY <1>1 DEF post_and_record, TypeOK
<1>2. ASSUME NEW h \in Grain, NEW c \in Fact, process_section(h, c) PROVE Shape
  <2>1. facts' \in [Grain -> Fact]
    BY <1>0, <1>2 DEF process_section
  <2> QED BY <1>1, <1>2, <2>1 DEF process_section
<1>3. ASSUME NEW h \in Grain, NEW c \in Content, transform(h, c) PROVE Shape
  <2>1. facts' \in [Grain -> Fact]
    BY <1>0, <1>3 DEF transform, Fact
  <2> QED BY <1>3, <2>1 DEF transform, TypeOK
<1>4. ASSUME NEW D \in SUBSET PayrollGrain, NEW c \in [D -> Fact], demote_timecard(D, c)
      PROVE  Shape
  <2>1. facts' \in [Grain -> Fact]
    BY <1>0, <1>4 DEF demote_timecard
  <2> QED BY <1>1, <1>4, <2>1 DEF demote_timecard
<1>5. ASSUME NEW D \in SUBSET PayrollGrain, NEW c \in [D -> Fact], NEW W \in SUBSET D,
             promote_timecard(D, W, c)
      PROVE  Shape
  <2>1. facts' \in [Grain -> Fact]
    BY <1>0, <1>5 DEF promote_timecard
  <2> QED BY <1>1, <1>5, <2>1 DEF promote_timecard
<1>6. ASSUME NEW p \in Property, NEW from \in Date, NEW to \in Date, gl_post(p, from, to)
      PROVE  Shape
  <2>1. facts' \in [Grain -> Fact]
    BY <1>0, <1>6 DEF gl_post
  <2> QED BY <1>1, <1>6, <2>1 DEF gl_post
<1>7. ASSUME NEW p \in Property, NEW from \in Date, NEW to \in Date, post_range(p, from, to)
      PROVE  Shape
  BY <1>6, <1>7 DEF post_range
<1>8. ASSUME NEW p \in Property, NEW k \in PeriodKey, close_period(p, k) \/ reopen_period(p, k)
      PROVE  Shape
  BY <1>0, <1>8 DEF close_period, reopen_period, TypeOK
<1>9. ASSUME NEW p \in Property, NEW c \in Calendar, set_fiscal_calendar(p, c) PROVE Shape
  BY <1>0, <1>9 DEF set_fiscal_calendar, TypeOK
<1>10. ASSUME seed_chart PROVE Shape
  BY <1>0, <1>10 DEF seed_chart, TypeOK, AccountState
<1>11. ASSUME NEW a \in Account, NEW b \in BOOLEAN, put_account(a, b) PROVE Shape
  BY <1>0, <1>11 DEF put_account, TypeOK, AccountState
<1>12. ASSUME UNCHANGED vars PROVE Shape
  BY <1>0, <1>12 DEF vars, TypeOK
<1>13. \A g \in Grain : facts[g] \in Fact
  BY <1>0
<1> QED
  BY <1>2, <1>3, <1>4, <1>5, <1>6, <1>7, <1>8, <1>9, <1>10, <1>11, <1>12, <1>13
     DEF Next, Fact

(* Every operation keeps the invariant, grain by grain. *)
LEMMA InvStep ==
  ASSUME Inv, [Next]_vars PROVE Inv'
<1>1. TypeOK
  BY DEF Inv
<1>2. ASSUME NEW g \in Grain
      PROVE  /\ GrainInv(journal'[g], ledger'[g])
             /\ journal'[g] \in Seq(Entry) /\ ledger'[g] \in Row
  <2>1. facts'[g] \in Fact
    BY <1>1, ShapeStep
  <2>2. \/ Stays(g) \/ Keeps(g)
        \/ Posted(g, facts'[g]) \/ Reposted(g, facts'[g]) \/ Reversed(g, facts'[g])
    BY <1>1, <2>1, GrainStep, PostCases, RowOKInv
  <2> QED BY <2>2, KeepsInv, PostedInv, RepostedInv, WithdrawnInv
<1>3. TypeOK'
  <2>1. journal' \in [Grain -> Seq(Entry)] /\ ledger' \in [Grain -> Row]
    BY <1>1, <1>2, ShapeStep
  <2> QED BY <1>1, <2>1, ShapeStep DEF TypeOK, Fact
<1> QED BY <1>2, <1>3 DEF Inv

(* The invariant holds of empty tables. *)
LEMMA InvInit ==
  ASSUME Init PROVE Inv
<1>1. TypeOK
  BY InitType
<1>2. ASSUME NEW g \in Grain PROVE GrainInv(journal[g], ledger[g])
  <2>1. journal[g] = <<>> /\ ledger[g] = NoRow
    BY DEF Init
  <2>2. NoRow.entry = 0 /\ NoRow.hash = NoFacts /\ NoRow.status # "posted"
    BY DEF NoRow
  <2> QED BY <2>1, <2>2 DEF GrainInv, Pairs, Stands, OthersUndone
<1> QED BY <1>1, <1>2 DEF Inv

(* The invariant holds in every reachable state, for every set of grains,    *)
(* contents, accounts and calendars: the rest follows from it.               *)
THEOREM InvAlways == Spec => []Inv
<1>1. Init => Inv
  BY InvInit
<1>2. Inv /\ [Next]_vars => Inv'
  BY InvStep
<1> QED BY <1>1, <1>2, PTL DEF Spec

(* Type correctness of the six tables. *)
THEOREM TypeCorrect == Spec => []TypeOK
<1>1. Inv => TypeOK
  BY DEF Inv
<1> QED BY <1>1, InvAlways, PTL

(* No entry is reversed twice, and a reversal undoes an earlier original of  *)
(* its own grain line for line, however the operations interleave.           *)
THEOREM ReversalsPaired == Spec => []ReversalsPair
<1>1. ASSUME Inv PROVE ReversalsPair
  <2> SUFFICES ASSUME NEW g \in Grain
               PROVE  /\ \A i \in Reversals(g) :
                            /\ journal[g][i].reversal_of \in Originals(g)
                            /\ journal[g][i].reversal_of < i
                            /\ journal[g][journal[g][i].reversal_of].content
                                 = journal[g][i].content
                      /\ \A i, j \in Reversals(g) :
                            journal[g][i].reversal_of = journal[g][j].reversal_of => i = j
    BY DEF ReversalsPair
  <2> DEFINE J == journal[g]
  <2>1. J \in Seq(Entry) /\ Pairs(J)
    BY <1>1 DEF Inv, TypeOK, GrainInv
  <2>2. DOMAIN J = 1..Len(J) /\ Len(J) \in Nat
    BY <2>1
  <2>3. \A i \in Reversals(g) : i \in 1..Len(J) /\ J[i].reversal_of # 0
    BY <2>2 DEF Reversals, Originals
  <2> QED BY <2>1, <2>2, <2>3, SMTT(30) DEF Pairs, Originals
<1> QED BY <1>1, InvAlways, PTL

(* The ledger row names the one standing entry of its grain, or none stands. *)
THEOREM OneEntryStands == Spec => []OneStandingEntry
<1>1. ASSUME Inv, NEW g \in Grain
      PROVE  /\ {i \in Originals(g) : \A j \in Reversals(g) : journal[g][j].reversal_of # i}
                  = IF HasEntry(g) THEN {ledger[g].entry} ELSE {}
             /\ HasEntry(g) <=> ledger[g].status = "posted"
             /\ ledger[g].hash = IF HasEntry(g) THEN journal[g][ledger[g].entry].content
                                               ELSE NoFacts
  <2> DEFINE J == journal[g]
  <2> DEFINE Unreversed == {i \in Originals(g) : \A j \in Reversals(g) : J[j].reversal_of # i}
  <2>1. J \in Seq(Entry) /\ Stands(J, ledger[g]) /\ OthersUndone(J, ledger[g])
    BY <1>1 DEF Inv, TypeOK, GrainInv
  <2>2. DOMAIN J = 1..Len(J) /\ Len(J) \in Nat
    BY <2>1
  <2>3. \A i : i \in Unreversed <=> /\ i \in 1..Len(J)
                                   /\ J[i].reversal_of = 0 /\ ~Undone(J, i)
    BY <2>2 DEF Originals, Reversals, Undone
  <2>4. \A i : i \in Unreversed => HasEntry(g) /\ i = ledger[g].entry
    BY <2>1, <2>2, <2>3 DEF OthersUndone, HasEntry
  <2>5. HasEntry(g) => ledger[g].entry \in Unreversed
    BY <2>1, <2>3 DEF Stands, HasEntry
  <2>6. Unreversed = IF HasEntry(g) THEN {ledger[g].entry} ELSE {}
    BY <2>4, <2>5
  <2> QED BY <2>1, <2>6 DEF Stands, HasEntry
<1>2. Inv => OneStandingEntry
  BY <1>1 DEF OneStandingEntry
<1> QED BY <1>2, InvAlways, PTL

(* Each reversal pairs off with one undone original of the same content, so  *)
(* what is left over of a content is the standing entry or nothing.          *)
LEMMA NetOfContent ==
  ASSUME TypeOK, ReversalsPair, OneStandingEntry, NEW g \in Grain, NEW c
  PROVE  Net(g, c) = IF HasEntry(g) /\ journal[g][ledger[g].entry].content = c THEN 1 ELSE 0
<1> DEFINE J == journal[g]
           e == ledger[g].entry
           Posted_c == {i \in Originals(g) : J[i].content = c}
           Reversed_c == {i \in Reversals(g) : J[i].content = c}
           Standing == {i \in Originals(g) : \A j \in Reversals(g) : J[j].reversal_of # i}
           Undone_c == Posted_c \ Standing
           f == [j \in Reversed_c |-> J[j].reversal_of]
<1>1. IsFiniteSet(DOMAIN J)
  <2>1. J \in Seq(Entry) /\ Len(J) \in Nat /\ DOMAIN J = 1..Len(J)
    BY DEF TypeOK
  <2> QED BY <2>1, FS_Interval
<1>2. IsFiniteSet(Posted_c) /\ IsFiniteSet(Reversed_c) /\ IsFiniteSet(Undone_c)
  <2>1. Posted_c \subseteq DOMAIN J /\ Reversed_c \subseteq DOMAIN J /\ Undone_c \subseteq DOMAIN J
    BY DEF Originals, Reversals
  <2> QED BY <1>1, <2>1, FS_Subset
<1>3. /\ \A j \in Reversals(g) : /\ J[j].reversal_of \in Originals(g)
                                /\ J[J[j].reversal_of].content = J[j].content
      /\ \A i, j \in Reversals(g) : J[i].reversal_of = J[j].reversal_of => i = j
  BY DEF ReversalsPair
<1>4. Standing = IF HasEntry(g) THEN {e} ELSE {}
  BY DEF OneStandingEntry
<1>5. Cardinality(Undone_c) = Cardinality(Reversed_c)
  <2>1. f \in [Reversed_c -> Undone_c]
    BY <1>3
  <2>2. \A i, j \in Reversed_c : f[i] = f[j] => i = j
    BY <1>3
  <2>3. \A u \in Undone_c : \E j \in Reversed_c : f[j] = u
    BY <1>3
  <2>4. f \in Bijection(Reversed_c, Undone_c)
    BY <2>1, <2>2, <2>3 DEF Bijection, Injection, Surjection, IsInjective
  <2> QED BY <1>2, <2>4, FS_Bijection DEF ExistsBijection
<1>6. CASE HasEntry(g) /\ J[e].content = c
  <2>1. Posted_c = Undone_c \cup {e} /\ e \notin Undone_c
    BY <1>4, <1>6
  <2>2. Cardinality(Posted_c) = Cardinality(Undone_c) + 1
    BY <1>2, <2>1, FS_AddElement
  <2> QED BY <1>2, <1>5, <1>6, <2>2, FS_CardinalityType DEF Net
<1>7. CASE ~(HasEntry(g) /\ J[e].content = c)
  <2>1. Posted_c = Undone_c
    BY <1>4, <1>7
  <2>2. Cardinality(Posted_c) = Cardinality(Reversed_c) /\ Cardinality(Reversed_c) \in Nat
    BY <1>2, <1>5, <2>1, FS_CardinalityType
  <2>3. Net(g, c) = 0
    BY <2>2 DEF Net
  <2> QED BY <1>7, <2>3
<1> QED BY <1>6, <1>7

(* The trial balance of a grain counts its current entry once and nothing   *)
(* else, however often the grain was posted, re-posted and reversed.         *)
THEOREM BooksNet == Spec => []BooksNetToCurrent
<1>1. TypeOK /\ ReversalsPair /\ OneStandingEntry => BooksNetToCurrent
  BY NetOfContent DEF BooksNetToCurrent
<1> QED BY <1>1, TypeCorrect, ReversalsPaired, OneEntryStands, PTL

-----------------------------------------------------------------------------
(* Action properties and the refinement of Books. *)

(* A grain that is written to is in an open period and goes through one of the *)
(* three writing cases of post_and_record.                                     *)
LEMMA WritesNews ==
  ASSUME Inv, [Next]_vars, NEW g \in Grain, journal'[g] # journal[g]
  PROVE  /\ OpenPeriod(g) /\ UNCHANGED <<closed, calendar, chart>>
         /\ \/ Posted(g, facts'[g]) \/ Reposted(g, facts'[g]) \/ Reversed(g, facts'[g])
<1>1. TypeOK
  BY DEF Inv
<1>2. facts'[g] \in Fact
  BY <1>1, ShapeStep
<1>3. PostsTo(g, facts'[g])
  BY <1>1, GrainStep DEF Stays
<1> QED BY <1>1, <1>2, <1>3, PostCases, RowOKInv DEF Keeps, PostsTo

(* No operation writes an entry dated inside a period that stays closed. *)
THEOREM ClosedIsFrozen == Spec => ClosedPeriodFrozen
<1> DEFINE A == \A g \in Grain :
         (/\ calendar[g.property] # NoCalendar
          /\ PeriodClosed(g)
          /\ PeriodOf(g) \in closed'
          /\ calendar'[g.property] = calendar[g.property])
            => journal'[g] = journal[g]
<1>1. Inv /\ [Next]_vars => A
  BY WritesNews DEF OpenPeriod, Configured
<1> QED BY <1>1, InvAlways, PTL DEF Spec, ClosedPeriodFrozen

(* Every entry brings the books from something else to what the facts say,  *)
(* so posting again over unchanged facts writes nothing.                     *)
THEOREM PostingIsIdempotent == Spec => PostingConverges
<1> DEFINE A == \A g \in Grain :
         journal'[g] # journal[g] =>
            ledger'[g].hash = facts'[g] /\ ledger[g].hash # facts'[g]
<1>1. ASSUME Inv, [Next]_vars, NEW g \in Grain, journal'[g] # journal[g]
      PROVE  ledger'[g].hash = facts'[g] /\ ledger[g].hash # facts'[g]
  <2> DEFINE f == facts'[g]
  <2>1. Posted(g, f) \/ Reposted(g, f) \/ Reversed(g, f)
    BY <1>1, WritesNews
  <2>2. Stands(journal[g], ledger[g]) /\ journal[g] \in Seq(Entry)
    BY <1>1 DEF Inv, GrainInv, TypeOK
  <2>3. CASE Posted(g, f)
    BY <2>2, <2>3, GlConstants DEF Posted, PostedRow, Stands
  <2>4. CASE Reposted(g, f)
    BY <2>4 DEF Reposted, PostedRow
  <2>5. CASE Reversed(g, f)
    <3>1. f = NoFacts /\ ledger'[g].hash = NoFacts /\ ledger[g].entry # 0
      BY <2>5 DEF Reversed, NoRow
    <3>2. ledger[g].hash \in Content
      BY <2>2, <3>1, EntryFields DEF Stands
    <3> QED BY <3>1, <3>2, GlConstants
  <2> QED BY <2>1, <2>3, <2>4, <2>5
<1>2. Inv /\ [Next]_vars => A
  BY <1>1
<1> QED BY <1>2, InvAlways, PTL DEF Spec, PostingConverges

(* Every operation is a correction of some grains of Books, or leaves them. *)
LEMMA BooksStep ==
  ASSUME Inv, [Next]_vars
  PROVE  B!BooksNext \/ UNCHANGED B!booksVars
<1> DEFINE R == {g \in Grain : journal'[g] # journal[g]}
<1> DEFINE target == [g \in R |-> facts'[g]]
<1> DEFINE standing == [g \in Grain |-> ledger[g].entry]
<1>0. TypeOK
  BY DEF Inv
<1>1. target \in [R -> Content \cup {NoFacts}]
  BY <1>0, ShapeStep DEF Fact
<1>2. ASSUME NEW g \in R
      PROVE  /\ target[g] # B!Current(g)
             /\ journal'[g] = journal[g] \o B!Undo(g) \o B!Write(target[g])
             /\ ledger'[g].entry = IF target[g] = NoFacts THEN 0 ELSE Len(journal'[g])
  <2> DEFINE f == facts'[g]
  <2>1. g \in Grain /\ target[g] = f /\ (Posted(g, f) \/ Reposted(g, f) \/ Reversed(g, f))
    BY <1>2, WritesNews
  <2>2. /\ Stands(journal[g], ledger[g]) /\ journal[g] \in Seq(Entry)
        /\ Len(journal[g]) \in Nat
    BY <2>1 DEF Inv, GrainInv, TypeOK
  <2>3. CASE Posted(g, f)
    <3>1. ledger[g].entry = 0 /\ f \in Content /\ f # NoFacts
      BY <2>3, GlConstants DEF Posted
    <3>2. B!Current(g) = NoFacts /\ B!Undo(g) = <<>> /\ B!Write(f) = <<Original(f)>>
      BY <2>1, <3>1 DEF B!Current, B!Undo, B!Write, Original
    <3>3. Original(f) \in Entry
      BY <3>1 DEF Original, Entry
    <3>4. journal'[g] = Append(journal[g], Original(f))
          /\ ledger'[g].entry = Len(journal[g]) + 1
      BY <2>3 DEF Posted, PostedRow
    <3>5. Len(journal'[g]) = Len(journal[g]) + 1
      BY <2>2, <3>3, <3>4
    <3>6. journal'[g] = journal[g] \o <<>> \o <<Original(f)>>
      BY <2>2, <3>3, <3>4
    <3> QED BY <2>1, <3>1, <3>2, <3>4, <3>5, <3>6
  <2>4. CASE Reposted(g, f)
    <3>1. ledger[g].entry # 0 /\ f \in Content /\ f # NoFacts /\ ledger[g].hash # f
      BY <2>4, GlConstants DEF Reposted
    <3>2. /\ B!Current(g) = ledger[g].hash
          /\ B!Undo(g) = <<Reversal(g, ledger[g])>>
          /\ B!Write(f) = <<Original(f)>>
      BY <2>1, <2>2, <3>1 DEF B!Current, B!Undo, B!Write, Original, Reversal, Stands
    <3>3. Original(f) \in Entry /\ Reversal(g, ledger[g]) \in Entry
      <4>1. ledger[g].entry \in 1..Len(journal[g])
        BY <2>2, <3>1 DEF Stands
      <4>2. ledger[g].entry \in Nat /\ journal[g][ledger[g].entry].content \in Content
        BY <2>2, <4>1, EntryFields
      <4> QED BY <3>1, <4>2 DEF Original, Reversal, Entry
    <3>4. /\ journal'[g] = Append(Append(journal[g], Reversal(g, ledger[g])), Original(f))
          /\ ledger'[g].entry = Len(journal[g]) + 2
      BY <2>4 DEF Reposted, PostedRow
    <3>5. Len(journal'[g]) = Len(journal[g]) + 2
      BY <2>2, <3>3, <3>4
    <3>6. journal'[g] = journal[g] \o <<Reversal(g, ledger[g])>> \o <<Original(f)>>
      BY <2>2, <3>3, <3>4
    <3> QED BY <2>1, <3>1, <3>2, <3>4, <3>5, <3>6
  <2>5. CASE Reversed(g, f)
    <3>1. ledger[g].entry # 0 /\ f = NoFacts
      BY <2>5 DEF Reversed
    <3>2. /\ ledger[g].entry \in Nat /\ journal[g][ledger[g].entry].content \in Content
      <4>1. ledger[g].entry \in 1..Len(journal[g])
        BY <2>2, <3>1 DEF Stands
      <4> QED BY <2>2, <4>1, EntryFields
    <3>3. /\ B!Current(g) \in Content
          /\ B!Undo(g) = <<Reversal(g, ledger[g])>>
          /\ B!Write(f) = <<>>
      BY <2>1, <3>1, <3>2 DEF B!Current, B!Undo, B!Write, Reversal
    <3>4. Reversal(g, ledger[g]) \in Entry
      BY <3>2 DEF Reversal, Entry
    <3>5. journal'[g] = Append(journal[g], Reversal(g, ledger[g])) /\ ledger'[g].entry = 0
      BY <2>5 DEF Reversed, NoRow
    <3>6. journal'[g] = journal[g] \o <<Reversal(g, ledger[g])>> \o <<>>
      BY <2>2, <3>4, <3>5
    <3> QED BY <2>1, <3>1, <3>3, <3>5, <3>6, GlConstants
  <2> QED BY <2>1, <2>3, <2>4, <2>5
<1>3. ASSUME NEW g \in Grain, g \notin R
      PROVE  journal'[g] = journal[g] /\ ledger'[g].entry = ledger[g].entry
  <2>1. journal'[g] = journal[g] /\ facts'[g] \in Fact
    BY <1>0, <1>3, ShapeStep
  <2>2. Stays(g) \/ Keeps(g) \/ Posted(g, facts'[g]) \/ Reposted(g, facts'[g])
        \/ Reversed(g, facts'[g])
    BY <1>0, <2>1, GrainStep, PostCases, RowOKInv
  <2>3. Stays(g) \/ Keeps(g)
    <3>1. journal[g] \in Seq(Entry) /\ Len(journal[g]) \in Nat
      BY <1>0 DEF TypeOK
    <3>2. \A e : Len(Append(journal[g], e)) = Len(journal[g]) + 1
      BY <3>1
    <3>3. ~Posted(g, facts'[g]) /\ ~Reversed(g, facts'[g])
      BY <2>1, <3>1, <3>2 DEF Posted, Reversed
    <3>4. ~Reposted(g, facts'[g])
      <4> SUFFICES ASSUME Reposted(g, facts'[g]) PROVE FALSE
        OBVIOUS
      <4>1. /\ facts'[g] \in Content /\ ledger[g].entry \in 1..Len(journal[g])
            /\ journal'[g] = Append(Append(journal[g], Reversal(g, ledger[g])),
                                    Original(facts'[g]))
        BY DEF Reposted, Inv, GrainInv, Stands
      <4>2. Reversal(g, ledger[g]) \in Entry /\ Original(facts'[g]) \in Entry
        <5>1. ledger[g].entry \in Nat /\ journal[g][ledger[g].entry].content \in Content
          BY <3>1, <4>1, EntryFields
        <5> QED BY <4>1, <5>1 DEF Reversal, Original, Entry
      <4>3. Len(journal'[g]) = Len(journal[g]) + 2
        BY <3>1, <4>1, <4>2
      <4> QED BY <2>1, <3>1, <4>3
    <3> QED BY <2>2, <3>3, <3>4
  <2> QED BY <2>3 DEF Stays, Keeps
<1>4. PICK S, t : S = R /\ t = target
  OBVIOUS
<1>5. B!Correct(S, t)
  <2>1. \A g \in S : t[g] # B!Current(g)
    BY <1>2, <1>4
  <2>2. journal' = [g \in Grain |->
                      IF g \in S THEN journal[g] \o B!Undo(g) \o B!Write(t[g])
                                 ELSE journal[g]]
    BY <1>0, <1>2, <1>3, <1>4, ShapeStep
  <2>3. standing' = [g \in Grain |->
                       IF g \notin S THEN standing[g]
                       ELSE IF t[g] = NoFacts THEN 0 ELSE Len(journal'[g])]
    BY <1>2, <1>3, <1>4
  <2> QED BY <2>1, <2>2, <2>3 DEF B!Correct
<1>6. S \in SUBSET Grain /\ t \in [S -> Content \cup {NoFacts}]
  BY <1>1, <1>4
<1> QED BY <1>5, <1>6 DEF B!BooksNext

(* The engine implements the journal's promise: every operation corrects    *)
(* some grains, each reversal together with its correction, or nothing.      *)
THEOREM ImplementsBooks == Spec => KeepsBooks
<1>1. Init => B!BooksInit
  BY DEF Init, B!BooksInit, NoRow
<1>2. Inv /\ [Next]_vars => [B!BooksNext]_B!booksVars
  BY BooksStep
<1> QED BY <1>1, <1>2, InvAlways, PTL DEF Spec, KeepsBooks, B!BooksSpec

-----------------------------------------------------------------------------
(* Sessions, statement by statement (GlPostingTx) *)

(* A version of a ledger row that was right at some time: the journal J only *)
(* grows, so it names an original of it still.                               *)
GoodRow(J, r) ==
    /\ r \in Row
    /\ r.status = "posted" <=> r.entry # 0
    /\ r.entry # 0 => /\ r.entry \in DOMAIN J
                      /\ J[r.entry].reversal_of = 0
                      /\ J[r.entry].content = r.hash
    /\ r.entry = 0 => r.hash = NoFacts

Tables ==
    /\ facts \in [Grain -> Fact]
    /\ journal \in [Grain -> Seq(Entry)]
    /\ DOMAIN ledger = Grain /\ DOMAIN tx = Worker
    /\ rowId \in [Grain -> Nat] /\ lastId \in [Grain -> Nat]

RowsOK ==
    \A g \in Grain :
        /\ GoodRow(journal[g], ledger[g])
        /\ rowId[g] = 0 <=> ledger[g].status = "absent"
        /\ rowId[g] <= lastId[g]

(* What a session has read.  The row it loaded may be gone or rewritten, but *)
(* an id is never used again, and a row that has an entry keeps one as long  *)
(* as it lives: what it loaded is an earlier version of that same row.       *)
Loaded(t) ==
    /\ t.pc # "idle" => t.grain \in Grain /\ t.own \in {<<>>} \cup {<<c>> : c \in Fact}
    /\ t.pc \in {"plan", "period", "commit"} =>
         /\ GoodRow(journal[t.grain], t.row)
         /\ t.id \in Nat /\ t.id <= lastId[t.grain]
         /\ t.id = 0 <=> t.row.status = "absent"
         /\ t.id # 0 /\ t.id = rowId[t.grain] /\ t.row.entry # 0 => ledger[t.grain].entry # 0
    /\ t.pc \in {"period", "commit"} => t.plan \in Fact
    /\ t.pc = "commit" =>
         \/ t.outcome = "posted" /\ t.row.entry = 0 /\ t.plan # NoFacts
         \/ t.outcome = "reposted" /\ t.row.entry # 0 /\ t.plan # NoFacts /\ t.row.hash # t.plan
         \/ t.outcome \in {"reversed", "noop"} /\ t.row.entry # 0
         \/ t.outcome \in {"failed", "skipped"}

TxInv == Tables /\ RowsOK /\ \A w \in Worker : Loaded(tx[w])

(* What a step may do to a grain's tables. *)
Advances(g) ==
    /\ GoodRow(journal'[g], ledger'[g])
    /\ rowId'[g] = 0 <=> ledger'[g].status = "absent"
    /\ rowId'[g] <= lastId'[g] /\ lastId[g] <= lastId'[g]
    /\ \A r : GoodRow(journal[g], r) => GoodRow(journal'[g], r)
    /\ rowId'[g] # 0 /\ rowId'[g] <= lastId[g] =>
         rowId'[g] = rowId[g] /\ (ledger[g].entry # 0 => ledger'[g].entry # 0)

(* Empty tables and idle sessions. *)
LEMMA TxInitInv == ASSUME TxInit PROVE TxInv
<1> USE GlConstants DEF TxInit, Init
<1>1. Tables
  BY DEF Tables, Fact
<1>2. RowsOK
  BY DEF RowsOK, GoodRow, NoRow, Row, RowStatus
<1>3. \A w \in Worker : Loaded(tx[w])
  BY DEF Loaded, Idle
<1> QED BY <1>1, <1>2, <1>3 DEF TxInv

(* What the sessions have read stays good while the tables advance. *)
LEMMA SessionsKeep ==
  ASSUME TxInv, Tables', \A g \in Grain : Advances(g), NEW w \in Worker, Loaded(tx[w])
  PROVE  /\ tx[w].pc \in {"plan", "period", "commit"} =>
              LET t == tx[w] IN
              /\ GoodRow(journal'[t.grain], t.row)
              /\ t.id \in Nat /\ t.id <= lastId'[t.grain]
              /\ t.id # 0 /\ t.id = rowId'[t.grain] /\ t.row.entry # 0
                   => ledger'[t.grain].entry # 0
<1> SUFFICES ASSUME tx[w].pc \in {"plan", "period", "commit"}
             PROVE  LET t == tx[w] IN
                    /\ GoodRow(journal'[t.grain], t.row)
                    /\ t.id \in Nat /\ t.id <= lastId'[t.grain]
                    /\ t.id # 0 /\ t.id = rowId'[t.grain] /\ t.row.entry # 0
                         => ledger'[t.grain].entry # 0
  OBVIOUS
<1> DEFINE t == tx[w]
           g == t.grain
<1>1. /\ g \in Grain /\ GoodRow(journal[g], t.row) /\ t.id \in Nat /\ t.id <= lastId[g]
      /\ t.id # 0 /\ t.id = rowId[g] /\ t.row.entry # 0 => ledger[g].entry # 0
  BY DEF Loaded
<1>2. /\ GoodRow(journal'[g], t.row) /\ lastId[g] <= lastId'[g]
      /\ lastId'[g] \in Nat /\ lastId[g] \in Nat
      /\ rowId'[g] # 0 /\ rowId'[g] <= lastId[g] =>
           rowId'[g] = rowId[g] /\ (ledger[g].entry # 0 => ledger'[g].entry # 0)
  BY <1>1 DEF Advances, TxInv, Tables
<1> QED BY <1>1, <1>2

(* A step that advances the tables and leaves its own session well informed. *)
LEMMA TablesStep ==
  ASSUME TxInv, Tables', \A g \in Grain : Advances(g), NEW w \in Worker,
         tx' = [tx EXCEPT ![w] = Idle] \/ tx' = tx
  PROVE  TxInv'
<1>2. RowsOK'
  BY DEF RowsOK, Advances
<1>3. ASSUME NEW q \in Worker PROVE Loaded(tx[q])'
  <2>1. CASE tx'[q] = Idle
    BY <2>1 DEF Loaded, Idle
  <2>2. CASE tx'[q] = tx[q]
    <3>1. Loaded(tx[q])
      BY DEF TxInv
    <3> QED BY <2>2, <3>1, SessionsKeep DEF Loaded
  <2>3. tx'[q] = Idle \/ tx'[q] = tx[q]
    BY DEF TxInv, Tables
  <2> QED BY <2>1, <2>2, <2>3
<1> QED BY <1>2, <1>3 DEF TxInv

(* The reads of a posting, and a rollback. *)
LEMMA TxReadStep ==
  ASSUME TxInv, NEW w \in Worker, NEW t, Loaded(t), tx' = [tx EXCEPT ![w] = t],
         UNCHANGED <<vars, rowId, lastId>>
  PROVE  TxInv'
<1> USE DEF vars
<1>1. Tables' /\ RowsOK'
  BY DEF TxInv, Tables, RowsOK
<1>2. \A q \in Worker : tx'[q] = IF q = w THEN t ELSE tx[q]
  BY DEF TxInv, Tables
<1>3. \A q \in Worker : Loaded(tx[q])'
  BY <1>2 DEF TxInv, Loaded
<1> QED BY <1>1, <1>3 DEF TxInv

(* Each read of a posting tells its session the truth of that moment. *)
LEMMA TxReads ==
  ASSUME TxInv, NEW w \in Worker,
         \/ \E g \in Grain : \E own \in {<<>>} \cup {<<c>> : c \in Content \cup {NoFacts}} :
               Begin(w, g, own)
         \/ ReadRow(w) \/ ReadPlan(w) \/ ReadPeriod(w) \/ Rollback(w)
  PROVE  TxInv'
<1>0. Loaded(tx[w]) /\ Tables /\ RowsOK
  BY DEF TxInv
<1>1. ASSUME NEW g \in Grain, NEW own \in {<<>>} \cup {<<c>> : c \in Fact}, Begin(w, g, own)
      PROVE  TxInv'
  <2> DEFINE t == [pc |-> "row", grain |-> g, own |-> own]
  <2>1. Loaded(t)
    BY DEF Loaded
  <2>2. tx' = [tx EXCEPT ![w] = t] /\ UNCHANGED <<vars, rowId, lastId>>
    BY <1>1 DEF Begin
  <2> HIDE DEF t
  <2> QED BY <2>1, <2>2, TxReadStep
<1>2. CASE ReadRow(w)
  <2> DEFINE g == tx[w].grain
             t == [pc |-> "plan", grain |-> g, own |-> tx[w].own, on |-> has_active_chart,
                   row |-> ledger[g], id |-> rowId[g]]
  <2>1. g \in Grain /\ tx[w].own \in {<<>>} \cup {<<c>> : c \in Fact}
    BY <1>0, <1>2 DEF ReadRow, Loaded
  <2>2. t.pc = "plan" /\ t.grain = g /\ t.own = tx[w].own /\ t.row = ledger[g] /\ t.id = rowId[g]
    OBVIOUS
  <2>3. tx' = [tx EXCEPT ![w] = t] /\ UNCHANGED <<vars, rowId, lastId>>
    BY <1>2 DEF ReadRow
  <2>4. rowId[g] \in Nat
    BY <1>0, <2>1 DEF Tables
  <2> HIDE DEF t
  <2>5. Loaded(t)
    BY <1>0, <2>1, <2>2, <2>4 DEF Loaded, RowsOK
  <2> QED BY <2>3, <2>5, TxReadStep
<1>3. CASE ReadPlan(w)
  <2> DEFINE u == tx[w]
             g == u.grain
             f == IF u.own # <<>> THEN u.own[1] ELSE facts[g]
             t == [pc |-> "period", grain |-> g, own |-> u.own, on |-> u.on,
                   row |-> u.row, id |-> u.id, configured |-> Configured(g), plan |-> f,
                   seen |-> facts[g], builds |-> f # NoFacts /\ Buildable(f)]
  <2>1. u.pc = "plan" /\ g \in Grain /\ u.own \in {<<>>} \cup {<<c>> : c \in Fact}
    BY <1>0, <1>3 DEF ReadPlan, Loaded
  <2>2. f \in Fact
    BY <1>0, <2>1 DEF Tables
  <2>3. /\ t.pc = "period" /\ t.grain = g /\ t.own = u.own /\ t.row = u.row /\ t.id = u.id
        /\ t.plan = f
    OBVIOUS
  <2>4. tx' = [tx EXCEPT ![w] = t] /\ UNCHANGED <<vars, rowId, lastId>>
    BY <1>3 DEF ReadPlan
  <2> HIDE DEF t, f
  <2>5. Loaded(t)
    BY <1>0, <2>1, <2>2, <2>3 DEF Loaded
  <2> QED BY <2>4, <2>5, TxReadStep
<1>4. CASE ReadPeriod(w)
  <2> DEFINE u == tx[w]
             shut == Configured(u.grain) /\ PeriodClosed(u.grain)
             o == Decide(u.on, u.row, u.configured, u.plan, u.builds, shut)
             t == [pc |-> "commit", grain |-> u.grain, own |-> u.own, row |-> u.row,
                   id |-> u.id, plan |-> u.plan, seen |-> u.seen, outcome |-> o]
  <2>1. u.pc = "period" /\ u.plan \in Fact
    BY <1>0, <1>4 DEF ReadPeriod, Loaded
  <2>2. \/ o = "posted" /\ u.row.entry = 0 /\ u.plan # NoFacts
        \/ o = "reposted" /\ u.row.entry # 0 /\ u.plan # NoFacts /\ u.row.hash # u.plan
        \/ o \in {"reversed", "noop"} /\ u.row.entry # 0
        \/ o \in {"failed", "skipped"}
    BY DEF Decide
  <2>3. /\ t.pc = "commit" /\ t.grain = u.grain /\ t.own = u.own /\ t.row = u.row /\ t.id = u.id
        /\ t.plan = u.plan /\ t.outcome = o
    OBVIOUS
  <2>4. tx' = [tx EXCEPT ![w] = t] /\ UNCHANGED <<vars, rowId, lastId>>
    BY <1>4 DEF ReadPeriod
  <2> HIDE DEF t, o
  <2>5. Loaded(t)
    BY <1>0, <2>1, <2>2, <2>3 DEF Loaded
  <2> QED BY <2>4, <2>5, TxReadStep
<1>5. CASE Rollback(w)
  <2>1. Loaded(Idle)
    BY DEF Loaded, Idle
  <2> QED BY <1>5, <2>1, TxReadStep DEF Rollback
<1> QED BY <1>1, <1>2, <1>3, <1>4, <1>5 DEF Fact

(* A row that was right stays right when the journal grows. *)
LEMMA GoodRowGrows ==
  ASSUME NEW J \in Seq(Entry), NEW A \in Seq(Entry), NEW r, GoodRow(J, r)
  PROVE  GoodRow(J \o A, r)
<1>1. \A i \in DOMAIN J : i \in DOMAIN (J \o A) /\ (J \o A)[i] = J[i]
  OBVIOUS
<1> QED BY <1>1 DEF GoodRow

(* The last element of a sequence that something was appended to. *)
LEMMA LastOfConcat ==
  ASSUME NEW S, NEW L \in Seq(S), NEW A \in Seq(S), Len(A) > 0
  PROVE  /\ L \o A \in Seq(S) /\ Len(L \o A) \in Nat
         /\ Len(L \o A) > Len(L) /\ (L \o A)[Len(L \o A)] = A[Len(A)]
<1>1. Len(L) \in Nat /\ Len(A) \in Nat /\ Len(L \o A) = Len(L) + Len(A)
  OBVIOUS
<1>2. \A i \in 1..Len(A) : (L \o A)[Len(L) + i] = A[i]
  OBVIOUS
<1> QED BY <1>1, <1>2

(* What a commit appends, and where the entry of the new row is. *)
LEMMA AppendedEntries ==
  ASSUME TxInv, NEW t, Loaded(t), t.pc = "commit"
  PROVE  LET g == t.grain
             A == Appended(g, t.outcome, t.row, t.plan)
             J == journal[g] \o A
         IN  /\ g \in Grain /\ A \in Seq(Entry) /\ J \in Seq(Entry)
             /\ Len(J) \in Nat
             /\ t.outcome \in {"posted", "reposted"} =>
                  Len(J) > Len(journal[g]) /\ J[Len(J)] = Original(t.plan)
<1> DEFINE g == t.grain
           A == Appended(g, t.outcome, t.row, t.plan)
           J == journal[g] \o A
<1>1. g \in Grain /\ journal[g] \in Seq(Entry) /\ GoodRow(journal[g], t.row) /\ t.plan \in Fact
  BY DEF TxInv, Tables, Loaded
<1>2. t.plan # NoFacts => Original(t.plan) \in Entry
  BY <1>1 DEF Original, Entry, Fact
<1>3. t.row.entry # 0 => Reversal(g, t.row) \in Entry
  <2>1. ASSUME t.row.entry # 0 PROVE journal[g][t.row.entry] \in Entry /\ t.row.entry \in Nat
    BY <1>1, <2>1 DEF GoodRow, Row
  <2> QED BY <2>1 DEF Reversal, Entry
<1>4. A \in Seq(Entry)
  BY <1>2, <1>3 DEF Loaded, Appended
<1>5. ASSUME t.outcome \in {"posted", "reposted"}
      PROVE  Len(J) > Len(journal[g]) /\ J[Len(J)] = Original(t.plan)
  <2>1. Len(A) > 0 /\ A[Len(A)] = Original(t.plan)
    <3>1. CASE t.outcome = "posted"
      BY <3>1 DEF Appended
    <3>2. CASE t.outcome = "reposted"
      BY <3>2 DEF Appended
    <3> QED BY <1>5, <3>1, <3>2
  <2> HIDE DEF A
  <2> QED BY <1>1, <1>4, <2>1, LastOfConcat
<1>6. J \in Seq(Entry) /\ Len(J) \in Nat
  <2> HIDE DEF A
  <2> QED BY <1>1, <1>4
<1> QED BY <1>1, <1>4, <1>5, <1>6

(* The entry a commit writes is a good target for the row, and no row that *)
(* was loaded names it.                                                      *)
LEMMA NewEntry ==
  ASSUME NEW L \in Seq(Entry), NEW J \in Seq(Entry), Len(J) > Len(L),
         NEW f \in Content, J[Len(J)] = Original(f), NEW r, GoodRow(L, r)
  PROVE  /\ Len(J) \in Nat /\ Len(J) # 0 /\ Len(J) # r.entry
         /\ GoodRow(J, PostedRow(f, Len(J)))
<1> DEFINE n == Len(J)
<1>1. n \in Nat /\ Len(L) \in Nat /\ DOMAIN L = 1..Len(L) /\ DOMAIN J = 1..n
  OBVIOUS
<1>2. n # 0 /\ n \in DOMAIN J
  BY <1>1
<1>3. n # r.entry
  BY <1>1, <1>2 DEF GoodRow
<1>4. J[n].reversal_of = 0 /\ J[n].content = f
  BY DEF Original
<1> HIDE DEF n
<1>5. PostedRow(f, n) \in Row
  BY <1>1 DEF PostedRow, Row, RowStatus
<1>6. GoodRow(J, PostedRow(f, n))
  BY <1>2, <1>4, <1>5 DEF GoodRow, PostedRow
<1> QED BY <1>1, <1>2, <1>3, <1>6 DEF n

(* The row a commit leaves when no constraint refuses it: a new row, a row   *)
(* updated column by column over what has become of it, or none.             *)
LEMMA CommitRow ==
  ASSUME NEW t, NEW J, NEW cur, NEW n,
         GoodRow(J, t.row), GoodRow(J, cur),
         t.id = 0 <=> t.row.status = "absent",
         \/ /\ \/ t.outcome = "posted" /\ t.row.entry = 0
               \/ t.outcome = "reposted" /\ t.row.entry # 0 /\ t.row.hash # t.plan
            /\ t.plan \in Content /\ n \in Nat /\ n # 0 /\ n # t.row.entry
            /\ GoodRow(J, PostedRow(t.plan, n))
         \/ t.outcome \in {"reversed", "noop"} /\ t.row.entry # 0
         \/ t.outcome \in {"failed", "skipped"}
  PROVE  LET new == RowAfter(t.outcome, t.row, t.plan, n)
             m == Merge(cur, t.row, new)
         IN  /\ Inserts(t) => GoodRow(J, new) /\ new.status # "absent"
             /\ Updates(t) /\ cur.status # "absent" /\ (t.row.entry # 0 => cur.entry # 0) =>
                  /\ GoodRow(J, m) /\ m.status # "absent"
                  /\ cur.entry # 0 => m.entry # 0
             /\ Deletes(t) => t.id # 0
<1> DEFINE new == RowAfter(t.outcome, t.row, t.plan, n)
           m == Merge(cur, t.row, new)
<1>1. ASSUME NEW r, r \in Row
      PROVE  /\ r.entry \in Nat /\ r.hash \in Fact /\ r.status \in RowStatus
             /\ r.refused \in BOOLEAN
  BY <1>1 DEF Row, Fact
<1>2. ASSUME NEW st, NEW e, NEW h, NEW b
      PROVE  LET x == [status |-> st, entry |-> e, hash |-> h, refused |-> b]
                 mx == Merge(cur, t.row, x)
             IN  /\ mx.status = IF st # t.row.status THEN st ELSE cur.status
                 /\ mx.entry = IF e # t.row.entry THEN e ELSE cur.entry
                 /\ mx.hash = IF h # t.row.hash THEN h ELSE cur.hash
                 /\ mx.refused = IF b # t.row.refused THEN b ELSE cur.refused
                 /\ mx = [status |-> mx.status, entry |-> mx.entry, hash |-> mx.hash,
                          refused |-> mx.refused]
  BY DEF Merge
<1>3. CASE t.outcome \in {"posted", "reposted"}
  <2>1. new = PostedRow(t.plan, n) /\ new.status = "posted" /\ GoodRow(J, new)
    BY <1>3 DEF RowAfter, PostedRow
  <2>2. ASSUME Updates(t), cur.status # "absent", t.row.entry # 0 => cur.entry # 0
        PROVE  GoodRow(J, m) /\ m.status = "posted" /\ m.entry # 0
    <3>1. PICK b \in BOOLEAN : m = Merge(cur, t.row, [status |-> "posted", entry |-> n,
                                                     hash |-> t.plan, refused |-> b])
      BY <2>1 DEF PostedRow
    <3> HIDE DEF m
    <3>2. /\ m.status = IF "posted" # t.row.status THEN "posted" ELSE cur.status
          /\ m.entry = IF n # t.row.entry THEN n ELSE cur.entry
          /\ m.hash = IF t.plan # t.row.hash THEN t.plan ELSE cur.hash
          /\ m.refused = IF b # t.row.refused THEN b ELSE cur.refused
          /\ m = [status |-> m.status, entry |-> m.entry, hash |-> m.hash, refused |-> m.refused]
      BY <1>2, <3>1
    <3>3. m.entry = n /\ m.hash = t.plan
      BY <1>3, <3>2, GlConstants DEF GoodRow
    <3>4. m.status = "posted"
      BY <1>3, <2>2, <3>2 DEF GoodRow, Updates
    <3>6. m.refused \in BOOLEAN
      BY <1>1, <3>2 DEF GoodRow
    <3>7. m \in Row
      BY <1>3, <3>2, <3>3, <3>4, <3>6 DEF Row, RowStatus
    <3>5. n \in DOMAIN J /\ J[n].reversal_of = 0 /\ J[n].content = t.plan
      BY <1>3, <2>1 DEF GoodRow, PostedRow
    <3> QED BY <1>3, <3>3, <3>4, <3>5, <3>7 DEF GoodRow
  <2>3. ~Deletes(t)
    BY <1>3 DEF Deletes
  <2> QED BY <2>1, <2>2, <2>3
<1>4. CASE t.outcome \in {"failed", "noop"}
  <2>1. ASSUME Inserts(t) PROVE GoodRow(J, new) /\ new.status # "absent"
    <3>1. t.outcome = "failed" /\ t.row.entry = 0 /\ t.row.hash = NoFacts
      BY <1>4, <2>1 DEF Inserts, GoodRow
    <3>2. new = [status |-> "failed", entry |-> 0, hash |-> NoFacts, refused |-> TRUE]
      BY <3>1 DEF RowAfter, FailedRow
    <3> QED BY <3>2 DEF GoodRow, Row, RowStatus
  <2>2. ASSUME Updates(t), cur.status # "absent", t.row.entry # 0 => cur.entry # 0
        PROVE  GoodRow(J, m) /\ m.status # "absent" /\ m.entry = cur.entry
    <3>1. t.row.entry = 0 => t.row.status = "failed"
      BY <1>1, <2>2 DEF GoodRow, Updates, RowStatus
    <3>2. PICK b \in BOOLEAN : new = [status |-> t.row.status, entry |-> t.row.entry,
                                     hash |-> t.row.hash, refused |-> b]
      BY <1>4, <3>1 DEF RowAfter, FailedRow, ClearedRow
    <3>3. m = Merge(cur, t.row, [status |-> t.row.status, entry |-> t.row.entry,
                                 hash |-> t.row.hash, refused |-> b])
      BY <3>2
    <3> HIDE DEF m
    <3>4. /\ m.status = cur.status /\ m.entry = cur.entry /\ m.hash = cur.hash
          /\ m.refused = IF b # t.row.refused THEN b ELSE cur.refused
          /\ m = [status |-> m.status, entry |-> m.entry, hash |-> m.hash, refused |-> m.refused]
      BY <1>2, <3>3
    <3>5. m.refused \in BOOLEAN
      BY <1>1, <3>4 DEF GoodRow
    <3>6. m \in Row
      BY <1>1, <3>4, <3>5 DEF GoodRow, Row, Fact
    <3> QED BY <2>2, <3>4, <3>6 DEF GoodRow, Updates
  <2>3. ~Deletes(t)
    BY <1>4 DEF Deletes
  <2> QED BY <2>1, <2>2, <2>3
<1>5. CASE t.outcome = "skipped"
  BY <1>5 DEF Inserts, Updates, Deletes, WritesRow, RowAfter
<1>6. CASE t.outcome = "reversed"
  BY <1>6 DEF Inserts, Updates, Deletes, GoodRow
<1> QED BY <1>3, <1>4, <1>5, <1>6

(* Tables that a step leaves alone advance trivially. *)
LEMMA Unmoved ==
  ASSUME TxInv, NEW g \in Grain, journal'[g] = journal[g], ledger'[g] = ledger[g],
         rowId'[g] = rowId[g], lastId'[g] = lastId[g]
  PROVE  Advances(g)
<1>1. lastId[g] \in Nat /\ GoodRow(journal[g], ledger[g]) /\ rowId[g] <= lastId[g]
      /\ (rowId[g] = 0 <=> ledger[g].status = "absent")
  BY DEF TxInv, Tables, RowsOK
<1> QED BY <1>1 DEF Advances

(* The commit of a posting. *)
LEMMA CommitStep ==
  ASSUME TxInv, NEW w \in Worker, Commit(w)
  PROVE  TxInv'
<1> DEFINE t == tx[w]
           g == t.grain
           A == Appended(g, t.outcome, t.row, t.plan)
           J == journal[g] \o A
           n == Len(J)
           new == RowAfter(t.outcome, t.row, t.plan, n)
           m == Merge(ledger[g], t.row, new)
<1>1. Loaded(t) /\ t.pc = "commit" /\ Tables
  BY DEF TxInv, Commit
<1>2. /\ ~Conflicts(t)
      /\ journal' = [journal EXCEPT ![g] = J]
      /\ \E c \in FactsAfter(t) : facts' = [facts EXCEPT ![g] = c]
      /\ lastId' = [lastId EXCEPT ![g] = IF Inserts(t) THEN lastId[g] + 1 ELSE lastId[g]]
      /\ rowId' = [rowId EXCEPT ![g] =
                     IF Inserts(t) THEN lastId[g] + 1
                     ELSE IF Deletes(t) /\ rowId[g] = t.id THEN 0 ELSE rowId[g]]
      /\ ledger' = [ledger EXCEPT ![g] =
                      IF Inserts(t) THEN new
                      ELSE IF Updates(t) THEN m
                      ELSE IF Deletes(t) /\ rowId[g] = t.id THEN NoRow ELSE ledger[g]]
      /\ tx' = [tx EXCEPT ![w] = Idle]
  BY <1>1 DEF Commit, Tables, Loaded
<1>3. /\ g \in Grain /\ A \in Seq(Entry) /\ J \in Seq(Entry) /\ n \in Nat
      /\ t.outcome \in {"posted", "reposted"} =>
            n > Len(journal[g]) /\ J[n] = Original(t.plan)
  BY <1>1, AppendedEntries
<1>4. /\ journal[g] \in Seq(Entry) /\ lastId[g] \in Nat /\ rowId[g] \in Nat
      /\ facts[g] \in Fact /\ t.plan \in Fact
  BY <1>1, <1>3 DEF Tables, Loaded
<1>5. /\ GoodRow(journal[g], t.row) /\ GoodRow(journal[g], ledger[g])
      /\ t.id = 0 <=> t.row.status = "absent"
      /\ rowId[g] = 0 <=> ledger[g].status = "absent"
      /\ rowId[g] <= lastId[g] /\ t.id \in Nat
      /\ t.id # 0 /\ t.id = rowId[g] /\ t.row.entry # 0 => ledger[g].entry # 0
  BY <1>1, <1>3 DEF TxInv, RowsOK, Loaded
<1>6. \A r : GoodRow(journal[g], r) => GoodRow(J, r)
  BY <1>3, <1>4, GoodRowGrows
<1>7. /\ Inserts(t) => GoodRow(J, new) /\ new.status # "absent"
      /\ Updates(t) /\ rowId[g] = t.id => /\ GoodRow(J, m) /\ m.status # "absent"
                                          /\ ledger[g].entry # 0 => m.entry # 0
      /\ Deletes(t) => t.id # 0
  <2>1. t.outcome \in {"posted", "reposted"} =>
          t.plan \in Content /\ n # 0 /\ n # t.row.entry /\ GoodRow(J, PostedRow(t.plan, n))
    BY <1>1, <1>3, <1>4, <1>5, NewEntry, ZenonT(40) DEF Loaded, Fact
  <2>2. \/ /\ \/ t.outcome = "posted" /\ t.row.entry = 0
              \/ t.outcome = "reposted" /\ t.row.entry # 0 /\ t.row.hash # t.plan
           /\ t.plan \in Content /\ n \in Nat /\ n # 0 /\ n # t.row.entry
           /\ GoodRow(J, PostedRow(t.plan, n))
        \/ t.outcome \in {"reversed", "noop"} /\ t.row.entry # 0
        \/ t.outcome \in {"failed", "skipped"}
    BY <1>1, <1>3, <2>1 DEF Loaded
  <2>3. GoodRow(J, t.row) /\ GoodRow(J, ledger[g])
    BY <1>5, <1>6
  <2> HIDE DEF J, n, t
  <2>4. /\ Inserts(t) => GoodRow(J, new) /\ new.status # "absent"
        /\ (/\ Updates(t) /\ ledger[g].status # "absent"
            /\ t.row.entry # 0 => ledger[g].entry # 0) =>
              /\ GoodRow(J, m) /\ m.status # "absent"
              /\ ledger[g].entry # 0 => m.entry # 0
        /\ Deletes(t) => t.id # 0
    BY <1>5, <2>2, <2>3, CommitRow
  <2> HIDE DEF new, m
  <2> QED BY <1>5, <2>4 DEF Updates
<1> HIDE DEF J, n, new, m
<1>8. Tables'
  <2>1. facts' \in [Grain -> Fact]
    BY <1>2, <1>3, <1>4, <1>1 DEF Tables, FactsAfter, Fact
  <2>2. journal' \in [Grain -> Seq(Entry)]
    BY <1>1, <1>2, <1>3 DEF Tables
  <2>3. rowId' \in [Grain -> Nat] /\ lastId' \in [Grain -> Nat]
    <3> DEFINE i == IF Inserts(t) THEN lastId[g] + 1
                    ELSE IF Deletes(t) /\ rowId[g] = t.id THEN 0 ELSE rowId[g]
               j == IF Inserts(t) THEN lastId[g] + 1 ELSE lastId[g]
    <3>1. i \in Nat /\ j \in Nat
      BY <1>4
    <3>2. rowId' = [rowId EXCEPT ![g] = i] /\ lastId' = [lastId EXCEPT ![g] = j]
      BY <1>2
    <3> HIDE DEF i, j
    <3> QED BY <1>1, <3>1, <3>2 DEF Tables
  <2> QED BY <1>1, <1>2, <2>1, <2>2, <2>3 DEF Tables
<1>9. Advances(g)
  <2>0. journal'[g] = J
    BY <1>1, <1>2, <1>3 DEF Tables
  <2>1. CASE Inserts(t)
    <3>1. rowId'[g] = lastId[g] + 1 /\ lastId'[g] = lastId[g] + 1 /\ ledger'[g] = new
      BY <1>1, <1>2, <1>3, <2>1 DEF Tables
    <3> QED BY <1>4, <1>6, <1>7, <2>0, <2>1, <3>1 DEF Advances
  <2>2. CASE ~Inserts(t) /\ Updates(t)
    <3>1. rowId[g] = t.id /\ ~Deletes(t)
      BY <1>2, <2>2 DEF Conflicts, Updates
    <3>2. rowId'[g] = rowId[g] /\ lastId'[g] = lastId[g] /\ ledger'[g] = m
      BY <1>1, <1>2, <1>3, <2>2, <3>1 DEF Tables
    <3>3. rowId[g] # 0
      BY <2>2, <3>1 DEF Updates
    <3>4. GoodRow(J, m) /\ m.status # "absent" /\ (ledger[g].entry # 0 => m.entry # 0)
      BY <1>7, <2>2, <3>1
    <3> QED BY <1>4, <1>5, <1>6, <2>0, <3>2, <3>3, <3>4 DEF Advances
  <2>3. CASE ~Inserts(t) /\ ~Updates(t) /\ Deletes(t) /\ rowId[g] = t.id
    <3>1. rowId'[g] = 0 /\ lastId'[g] = lastId[g] /\ ledger'[g] = NoRow
      BY <1>1, <1>2, <1>3, <2>3 DEF Tables
    <3>2. GoodRow(J, NoRow) /\ NoRow.status = "absent"
      BY GlConstants DEF GoodRow, NoRow, Row, RowStatus
    <3> QED BY <1>4, <1>6, <2>0, <3>1, <3>2 DEF Advances
  <2>4. CASE ~Inserts(t) /\ ~Updates(t) /\ ~(Deletes(t) /\ rowId[g] = t.id)
    <3>1. rowId'[g] = rowId[g] /\ lastId'[g] = lastId[g] /\ ledger'[g] = ledger[g]
      BY <1>1, <1>2, <1>3, <2>4 DEF Tables
    <3> QED BY <1>4, <1>5, <1>6, <2>0, <3>1 DEF Advances
  <2> QED BY <2>1, <2>2, <2>3, <2>4
<1>10. ASSUME NEW h \in Grain, h # g PROVE Advances(h)
  <2>1. journal'[h] = journal[h] /\ ledger'[h] = ledger[h] /\ rowId'[h] = rowId[h]
        /\ lastId'[h] = lastId[h]
    BY <1>1, <1>2, <1>10 DEF Tables
  <2> QED BY <2>1, Unmoved
<1> QED BY <1>2, <1>8, <1>9, <1>10, TablesStep

(* What other requests do beside the postings. *)
LEMMA ElsewhereStep ==
  ASSUME TxInv, Elsewhere \/ UNCHANGED txVars
  PROVE  TxInv'
<1>1. UNCHANGED <<ledger, journal, rowId, lastId, tx>>
  BY DEF Elsewhere, transform, close_period, reopen_period, set_fiscal_calendar, seed_chart, txVars
<1>2. facts' \in [Grain -> Fact]
  <2>1. facts \in [Grain -> Fact]
    BY DEF TxInv, Tables
  <2>2. facts' = facts \/ \E g \in Grain, c \in Content : facts' = [facts EXCEPT ![g] = c]
    BY DEF Elsewhere, transform, close_period, reopen_period, set_fiscal_calendar, seed_chart, txVars
  <2> QED BY <2>1, <2>2 DEF Fact
<1>3. Tables' /\ RowsOK'
  BY <1>1, <1>2 DEF TxInv, Tables, RowsOK
<1>4. \A w \in Worker : Loaded(tx[w])'
  BY <1>1 DEF TxInv, Loaded
<1> QED BY <1>3, <1>4 DEF TxInv

(* Every step keeps the invariant. *)
LEMMA TxStep == TxInv /\ [TxNext]_txVars => TxInv'
BY TxReads, CommitStep, ElsewhereStep DEF TxNext

(* The two constraints of gl_posting_ledger survive every interleaving of   *)
(* any number of posting sessions: a row is posted exactly when it names an  *)
(* entry, and that entry is an original of the grain with the row's hash.    *)
THEOREM RowsNameTheirEntries == TxSpec => []RowNamesItsEntry
<1>1. TxInv => RowNamesItsEntry
  BY DEF TxInv, RowsOK, GoodRow, RowNamesItsEntry, HasEntry, Originals
<1> QED BY <1>1, TxInitInv, TxStep, PTL DEF TxSpec
=============================================================================
