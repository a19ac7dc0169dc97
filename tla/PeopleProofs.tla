---------------------------- MODULE PeopleProofs ----------------------------
(***************************************************************************)
(* An employee is placed and paid without a gap or a doubt from hiring to  *)
(* separation, is never booked twice at a time, and is paid where the      *)
(* chain on file says; and the targets of a week count days.  For any      *)
(* number of requests, departments, wages, weeks, shifts, accounts,        *)
(* filings and days.                                                       *)
(***************************************************************************)
EXTENDS Workforce, Scheduling, Targets, Deposits, FunctionTheorems, SumTheorems

-----------------------------------------------------------------------------
(* Employees *)

Until == Day \cup {MaxDay + 1, Open}
PlacementRow == [id : Nat, property : {"here"}, dept : Dept, from : Day, to : Until,
                 active : BOOLEAN, primary : {TRUE}]
RateRow == [id : Nat, amount : Wage, from : Day, to : Until]
EmployeeRow == [status : {"absent", "active", "leave", "terminated"}, ended : Day \cup {Open},
                subject : {"null", "account"}]

(* One of two intervals ends before the other begins. *)
Apart(x, y) == x.to <= y.from \/ y.to <= x.from

(* Placements are numbered, and one of them at most is active without end. *)
RowsOK ==
    /\ placement \subseteq PlacementRow
    /\ \A a, b \in placement : a.id = b.id => a = b
    /\ \E n \in Nat : {a.id : a \in placement} = 1..n
    /\ \A a, b \in placement : a.active /\ a.to = Open /\ b.active /\ b.to = Open => a = b

(* The rates of a placement never overlap, and the last one has no end. *)
RatesOK ==
    /\ wage \subseteq RateRow
    /\ \A r \in wage : r.from < r.to
    /\ \A r, s \in wage : r.id = s.id => r = s \/ Apart(r, s)
    /\ \A r \in wage : \E s \in wage : s.id = r.id /\ s.to = Open
    /\ \A r \in wage : \E a \in placement : a.id = r.id

(* Until a separation, placements are active, apart, and cover what comes. *)
PlacesOK ==
    /\ ~Hired => ~Ended /\ placement = {} /\ wage = {}
    /\ ~Ended =>
         /\ \A a \in placement : a.active /\ a.from < a.to
         /\ \A a, b \in placement : a = b \/ Apart(a, b)
         /\ Hired => \E a \in placement : a.to = Open
         /\ Hired => \A d \in Day : d >= today => \E a \in placement : covers(a, d)

(* The template and its photo come and go together. *)
FaceOK ==
    /\ employee \in EmployeeRow /\ today \in Day /\ cuts \in Nat
    /\ crossed \in BOOLEAN /\ face_template \in BOOLEAN /\ photo \in BOOLEAN
    /\ ~crossed /\ Ended => employee.status = "terminated"
    /\ ~crossed /\ cuts = 0 /\ (\A c \in Clerk : desk[c].pc \notin {"enrolled", "terminate"})
         => (photo <=> face_template)
    /\ ~crossed /\ cuts = 0 /\ Ended => ~photo /\ ~face_template

(* A request between its steps: what it read, and what of it still holds    *)
(* while no other request runs beside it.                                   *)
DeskOK(t) ==
    /\ t.pc \in {"idle", "onboard", "raise", "patch", "move", "disable", "close", "terminate",
                 "enroll", "enrolled"}
    /\ t.pc = "idle" <=> t = Idle
    /\ t.pc = "onboard" =>
         /\ ~Hired /\ t.subject \in {"null", "account"}
         /\ t.subject = "null" /\ cuts = 0 => account # "enabled"
    /\ t.pc \notin {"idle", "onboard"} => Hired
    /\ t.pc = "raise" =>
         /\ t.amount \in Wage /\ t.effective \in Day
         /\ \E a \in placement : a.id = t.id
         /\ \A o \in t.open : o.id = t.id /\ o.from < t.effective
         /\ \A o, q \in t.open : o = q
         /\ ~crossed => t.open = OpenRate(t.id)
    /\ t.pc = "patch" => t.status \in {"active", "leave"} /\ (~crossed => ~Ended)
    /\ t.pc = "move" =>
         /\ t.dept \in Dept /\ t.effective \in Day /\ t.carried \subseteq Wage
         /\ \E a \in placement : a.id = t.id /\ a.from < t.effective
         /\ \A x, y \in t.carried : x = y
         /\ ~crossed => t.carried = {r.amount : r \in OpenRate(t.id)}
    /\ t.pc \in {"disable", "close", "terminate"} => t.on \in Day /\ t.on = today
    /\ t.pc \in {"disable", "close"} => DOMAIN t = {"pc", "on"}
    /\ t.pc \in {"close", "terminate"} => (Linked => account = "disabled")
    /\ t.pc = "terminate" =>
         /\ t.face \in BOOLEAN
         /\ ~crossed => t.rows \subseteq placement
         /\ ~crossed /\ cuts = 0 => ~photo /\ (t.face <=> face_template)
    /\ t.pc \in {"enroll", "enrolled"} => (~crossed => ~Ended)
    /\ t.pc = "enrolled" => (~crossed => photo)

DesksOK ==
    /\ DOMAIN desk = Clerk
    /\ \A c \in Clerk : \A t \in {desk[c]} : DeskOK(t)
    /\ \A c, x \in Clerk : desk[c] # Idle /\ desk[x] # Idle /\ c # x => crossed /\ Hired

(* Before anybody is hired an open account is one some request left behind. *)
AccountOK ==
    /\ SeparatedCannotSignIn
    /\ ~Hired /\ cuts = 0 /\ (\A c \in Clerk : desk[c] = Idle) => account # "enabled"

WfInv == RowsOK /\ RatesOK /\ PlacesOK /\ FaceOK /\ DesksOK /\ AccountOK

(* It holds before anybody is hired. *)
LEMMA WfInitInv == ASSUME WfInit PROVE WfInv
<1> USE DaysAssumption DEF WfInit
<1>1. ~Hired /\ ~Ended
  BY DEF Hired, Ended
<1>2. {a.id : a \in placement} = 1..0
  OBVIOUS
<1>3. RowsOK
  BY <1>2 DEF RowsOK
<1>4. RatesOK
  BY DEF RatesOK
<1>5. PlacesOK
  BY <1>1 DEF PlacesOK
<1>6. employee \in EmployeeRow /\ today \in Day
  BY DEF EmployeeRow, Day
<1>7. FaceOK
  BY <1>1, <1>6 DEF FaceOK
<1>8. DesksOK
  BY <1>1 DEF DesksOK, DeskOK, Idle
<1>9. AccountOK
  BY <1>1 DEF AccountOK, SeparatedCannotSignIn
<1> QED BY <1>3, <1>4, <1>5, <1>7, <1>8, <1>9 DEF WfInv

(* A set none of whose elements differ has at most one. *)
LEMMA AtMostOne ==
  ASSUME NEW S, \A x, y \in S : x = y
  PROVE  IsFiniteSet(S) /\ Cardinality(S) <= 1 /\ Cardinality(S) \in Nat
<1>1. CASE S = {}
  BY <1>1, FS_EmptySet
<1>2. CASE S # {}
  <2>1. PICK x : S = {x}
    BY <1>2
  <2>2. IsFiniteSet({x}) /\ Cardinality({x}) = 1
    BY FS_Singleton, Zenon
  <2> QED BY <2>1, <2>2
<1> QED BY <1>1, <1>2

(* There are as many placements as numbers were given. *)
LEMMA Numbered ==
  ASSUME RowsOK
  PROVE  /\ NextId \in Nat \ {0} /\ {a.id : a \in placement} = 1..(NextId - 1)
         /\ IsFiniteSet(placement)
<1>1. PICK n \in Nat : {a.id : a \in placement} = 1..n
  BY DEF RowsOK
<1> DEFINE f == [a \in placement |-> a.id]
           g == [i \in 1..n |-> CHOOSE a \in placement : a.id = i]
<1>2. f \in Bijection(placement, 1..n)
  <2>1. f \in [placement -> 1..n]
    BY <1>1
  <2>2. \A a, b \in placement : f[a] = f[b] => a = b
    BY DEF RowsOK
  <2>3. \A i \in 1..n : \E a \in placement : f[a] = i
    BY <1>1
  <2> QED BY <2>1, <2>2, <2>3 DEF Bijection, Injection, Surjection, IsInjective
<1>3. ExistsBijection(1..n, placement)
  BY <1>2, Fun_ExistsBijSymmetric DEF ExistsBijection
<1>4. IsFiniteSet(1..n) /\ Cardinality(1..n) = n
  BY FS_Interval
<1>5. IsFiniteSet(placement) /\ Cardinality(placement) = n
  BY <1>3, <1>4, FS_Bijection
<1> QED BY <1>1, <1>5 DEF NextId

(* Two rows in force on one day are not apart. *)
LEMMA NotApart ==
  ASSUME NEW x, NEW y, NEW d \in Nat, covers(x, d), covers(y, d),
         x.from \in Nat, x.to \in Nat, y.from \in Nat, y.to \in Nat
  PROVE  ~Apart(x, y)
BY DEF covers, Apart

(* Days are numbers, and so is whatever ends a row. *)
LEMMA DayNumbers == Day \subseteq Nat /\ Until \subseteq Nat /\ \A d \in Day : d < Open /\ d + 1 \in Until
BY DaysAssumption DEF Day, Until, Open

(* The invariant has the four properties in it. *)
LEMMA WfInvSafe == ASSUME WfInv PROVE WorkforceSafe
<1>0. RowsOK /\ RatesOK /\ PlacesOK /\ FaceOK /\ SeparatedCannotSignIn
  BY DEF WfInv, AccountOK
<1>1. WfTypeOK
  <2>1. employee.status \in {"absent", "active", "leave", "terminated"}
    BY <1>0 DEF FaceOK, EmployeeRow
  <2>2. \A a \in placement : a.dept \in Dept /\ a.from \in Day /\ a.to \in Day \cup {MaxDay + 1, Open}
    BY <1>0 DEF RowsOK, PlacementRow, Until
  <2>3. ASSUME NEW r \in wage PROVE r.id < NextId /\ r.amount \in Wage
    <3>1. r.id \in 1..(NextId - 1) /\ NextId \in Nat
      BY <1>0, Numbered DEF RatesOK
    <3>2. r.amount \in Wage
      BY <1>0 DEF RatesOK, RateRow
    <3> QED BY <3>1, <3>2
  <2>4. Cardinality({a \in placement : a.active /\ a.to = Open}) <= 1
    <3> DEFINE S == {a \in placement : a.active /\ a.to = Open}
    <3>1. \A x, y \in S : x = y
      BY <1>0 DEF RowsOK
    <3> HIDE DEF S
    <3>2. Cardinality(S) <= 1
      BY <3>1, AtMostOne
    <3> QED BY <3>2 DEF S
  <2> QED BY <2>1, <2>2, <2>3, <2>4 DEF WfTypeOK
<1>2. EveryDayHasOnePrice
  <2> SUFFICES ASSUME ~Ended, NEW d \in Day
               PROVE  /\ ~Raises(primary_assignment_on(placement, d)) /\ ~Raises(Price(d))
                      /\ Hired /\ d >= today => list_employees(d).employed /\ ~Raises(list_employees(d).shown)
    BY DEF EveryDayHasOnePrice
  <2>1. d \in Nat /\ \A a \in placement : a.from \in Nat /\ a.to \in Nat
    BY <1>0, DayNumbers DEF RowsOK, PlacementRow
  <2>2. \A r \in wage : r.from \in Nat /\ r.to \in Nat
    BY <1>0, DayNumbers DEF RatesOK, RateRow
  <2>3. \A a, b \in placement : covers(a, d) /\ covers(b, d) => a = b
    BY <1>0, <2>1, NotApart DEF PlacesOK
  <2>4. \A r, s \in wage : covers(r, d) /\ covers(s, d) /\ r.id = s.id => r = s
    BY <1>0, <2>1, <2>2, NotApart DEF RatesOK
  <2>5. \A S : (\A x, y \in S : x = y) => ~Raises(S)
    <3> SUFFICES ASSUME NEW S, \A x, y \in S : x = y PROVE ~Raises(S)
      OBVIOUS
    <3>1. Cardinality(S) <= 1 /\ Cardinality(S) \in Nat
      BY AtMostOne
    <3> QED BY <3>1 DEF Raises
  <2>6. ~Raises(primary_assignment_on(placement, d))
    <3>1. \A x, y \in primary_assignment_on(placement, d) : x = y
      BY <2>3 DEF primary_assignment_on, assignments_on, in_effect_on
    <3> QED BY <2>5, <3>1
  <2>7. ~Raises(Price(d))
    <3>1. \A r \in Price(d) : \E a \in placement : covers(a, d) /\ r \in wage /\ r.id = a.id /\ covers(r, d)
      BY DEF Price, _stored_rate, assignment_at, assignments_on, in_effect_on
    <3>2. \A x, y \in Price(d) : x = y
      BY <2>3, <2>4, <3>1
    <3> QED BY <2>5, <3>2
  <2>8. ASSUME Hired, d >= today PROVE list_employees(d).employed /\ ~Raises(list_employees(d).shown)
    <3>0. \A a \in placement : a.primary /\ a.active
      <4>1. \A a \in placement : a.primary \in {TRUE}
        BY <1>0 DEF RowsOK, PlacementRow
      <4> QED BY <1>0, <4>1, Zenon DEF PlacesOK
    <3>1. PICK a \in placement : covers(a, d) /\ a.active /\ a.primary
      BY <1>0, <2>8, <3>0 DEF PlacesOK
    <3>2. a \in assignments_on(placement, d) /\ a \in primary_assignment_on(placement, d)
      BY <3>1 DEF primary_assignment_on, assignments_on, in_effect_on
    <3> QED BY <2>6, <3>2 DEF list_employees
  <2> QED BY <2>6, <2>7, <2>8
<1>3. SeparationDeletesFace
  BY <1>0 DEF FaceOK, SeparationDeletesFace
<1> QED BY <1>0, <1>1, <1>2, <1>3 DEF WorkforceSafe

-----------------------------------------------------------------------------
(* Frames *)

(* Nobody is unhired and no placement forgotten, no account opened again.   *)
Keeps ==
    /\ Hired => Hired'
    /\ today' = today
    /\ Hired /\ (Linked => account = "disabled") => (Linked' => account' = "disabled")
    /\ \A a \in placement : \E b \in placement' : b.id = a.id /\ b.from = a.from

(* A request that stands still beside another is as good as it was. *)
LEMMA DeskKept ==
  ASSUME NEW t, DeskOK(t), t # Idle => crossed' /\ Hired /\ Keeps
  PROVE  DeskOK(t)'
<1>1. CASE t = Idle
  BY <1>1 DEF DeskOK, Idle
<1>2. CASE t # Idle
  <2>1. t.pc \notin {"idle", "onboard"} /\ Hired'
    BY <1>2 DEF DeskOK, Keeps
  <2>2. t.pc = "raise" => \E a \in placement' : a.id = t.id
    BY <1>2 DEF DeskOK, Keeps
  <2>3. t.pc = "move" => \E a \in placement' : a.id = t.id /\ a.from < t.effective
    BY <1>2 DEF DeskOK, Keeps
  <2>4. t.pc \in {"disable", "close", "terminate"} => t.on = today'
    BY <1>2 DEF DeskOK, Keeps
  <2>5. t.pc \in {"close", "terminate"} => (Linked' => account' = "disabled")
    BY <1>2 DEF DeskOK, Keeps
  <2> QED BY <1>2, <2>1, <2>2, <2>3, <2>4, <2>5 DEF DeskOK
<1> QED BY <1>1, <1>2

(* One request goes on. *)
LEMMA DesksStep ==
  ASSUME WfInv, NEW c \in Clerk, NEW k, desk' = Goes(desk, c, k), DeskOK(k)',
         \A x \in Clerk \ {c} : desk[x] # Idle => crossed' /\ Hired /\ Keeps
  PROVE  DesksOK'
<1>1. DOMAIN desk' = Clerk /\ desk'[c] = k /\ \A x \in Clerk \ {c} : desk'[x] = desk[x]
  BY DEF WfInv, DesksOK, Goes
<1>2. ASSUME NEW x \in Clerk, NEW t, t = desk'[x] PROVE DeskOK(t)'
  <2>1. CASE x = c
    BY <1>1, <1>2, <2>1
  <2>2. CASE x # c
    <3>1. DeskOK(t)
      BY <1>1, <1>2, <2>2 DEF WfInv, DesksOK
    <3> QED BY <1>1, <1>2, <2>2, <3>1, DeskKept
  <2> QED BY <2>1, <2>2
<1>3. \A x, y \in Clerk : desk'[x] # Idle /\ desk'[y] # Idle /\ x # y => crossed' /\ Hired'
  BY <1>1 DEF Keeps
<1> QED BY <1>1, <1>2, <1>3 DEF DesksOK

(* A request that reads and goes on to k. *)
LEMMA BeginStep ==
  ASSUME WfInv, Hired, NEW c \in Clerk, NEW k, Begin(c, k), DeskOK(k),
         UNCHANGED <<today, employee, placement, wage, account, faceVars, cuts>>
  PROVE  WfInv'
<1>1. /\ desk[c] = Idle /\ desk' = Goes(desk, c, k)
      /\ crossed' = (crossed \/ \E x \in Clerk : desk[x] # Idle)
      /\ UNCHANGED <<today, employee, placement, wage, account, face_template, photo, cuts>>
  BY DEF Begin, faceVars
<1>2. crossed' \in BOOLEAN /\ (crossed => crossed')
  BY <1>1, Zenon
<1>3. \A x \in Clerk : desk[x] # Idle => crossed'
  BY <1>1
<1>4. (Hired' <=> Hired) /\ (Ended' <=> Ended) /\ (Linked' <=> Linked)
  BY <1>1 DEF Hired, Ended, Linked
<1>5. Keeps
  BY <1>1, <1>4 DEF Keeps
<1>6. DeskOK(k)'
  BY <1>1, <1>2, <1>4 DEF DeskOK, OpenRate
<1>7. DesksOK'
  BY <1>1, <1>3, <1>5, <1>6, DesksStep
<1>8. RowsOK' /\ RatesOK' /\ AccountOK'
  BY <1>1, <1>4 DEF WfInv, RowsOK, RatesOK, AccountOK, SeparatedCannotSignIn
<1>9. PlacesOK'
  BY <1>1, <1>4 DEF WfInv, PlacesOK
<1>10. FaceOK'
  <2>1. ~crossed' => ~crossed /\ \A x \in Clerk : desk[x].pc \notin {"enrolled", "terminate"}
    BY <1>2, <1>3 DEF Idle
  <2>2. FaceOK
    BY DEF WfInv
  <2> QED BY <1>1, <1>2, <1>4, <2>1, <2>2 DEF FaceOK
<1> QED BY <1>7, <1>8, <1>9, <1>10 DEF WfInv

(* The placement a request is about is one of the rows. *)
LEMMA CurrentRow ==
  ASSUME RowsOK, Placeable
  PROVE  Current \in placement
<1> DEFINE S == primary_assignment_on(placement, today)
<1>1. S \subseteq placement
  BY DEF primary_assignment_on, assignments_on
<1>2. S # {}
  <2>1. Cardinality(S) = 1 /\ Cardinality({}) = 0
    BY FS_EmptySet DEF Placeable
  <2> QED BY <2>1
<1> HIDE DEF S
<1>3. (CHOOSE x \in S : TRUE) \in S
  BY <1>2
<1> QED BY <1>1, <1>3 DEF Current, The, S

(* One rate of a placement has no end. *)
LEMMA OneOpenRate ==
  ASSUME RatesOK, NEW id
  PROVE  /\ \A r, s \in OpenRate(id) : r = s
         /\ OpenRate(id) \subseteq wage /\ \A r \in OpenRate(id) : r.id = id /\ r.to = Open
         /\ (\E r \in wage : r.id = id) => OpenRate(id) # {}
<1>1. \A r \in wage : r.from \in Day
  BY DEF RatesOK, RateRow
<1>2. \A r, s \in OpenRate(id) : r \in wage /\ s \in wage /\ r.id = s.id /\ r.to = Open /\ s.to = Open
  BY DEF OpenRate
<1>3. \A r, s \in OpenRate(id) : ~Apart(r, s)
  <2> SUFFICES ASSUME NEW r \in OpenRate(id), NEW s \in OpenRate(id) PROVE ~Apart(r, s)
    OBVIOUS
  <2>1. r.from \in Nat /\ s.from \in Nat /\ r.from < Open /\ s.from < Open /\ r.to = Open /\ s.to = Open
    BY <1>1, <1>2, DayNumbers
  <2> QED BY <2>1 DEF Apart, Open
<1> QED BY <1>2, <1>3 DEF RatesOK, OpenRate

-----------------------------------------------------------------------------
(* Requests that read *)

(* A raise reads the placement and its open rate. *)
LEMMA RaiseBegins ==
  ASSUME WfInv, NEW c \in Clerk, NEW amount \in Wage, NEW d \in Day, set_pay_rate(c, amount, d)
  PROVE  WfInv'
<1> DEFINE k == [pc |-> "raise", id |-> Current.id, open |-> OpenRate(Current.id), amount |-> amount,
                 effective |-> d]
<1>1. Hired /\ Placeable /\ Begin(c, k) /\ \A r \in OpenRate(Current.id) : r.from < d
  BY DEF set_pay_rate
<1>2. Current \in placement
  BY <1>1, CurrentRow DEF WfInv
<1>3. PICK row : row = Current
  OBVIOUS
<1>4. /\ k.pc = "raise" /\ k.id = row.id /\ k.open = OpenRate(row.id) /\ k.amount = amount
      /\ k.effective = d /\ k # Idle
  BY <1>3 DEF Idle
<1>5. \A r \in OpenRate(row.id) : r.from < d
  BY <1>1, <1>3
<1> HIDE DEF k
<1>6. /\ \A r, s \in OpenRate(row.id) : r = s
      /\ \A r \in OpenRate(row.id) : r.id = row.id
  BY OneOpenRate DEF WfInv
<1>7. DeskOK(k)
  BY <1>1, <1>2, <1>3, <1>4, <1>5, <1>6 DEF DeskOK
<1> QED BY <1>1, <1>7, BeginStep DEF set_pay_rate

(* A change of status reads it. *)
LEMMA PatchBegins ==
  ASSUME WfInv, NEW c \in Clerk, NEW status \in {"active", "leave"}, patch_employee(c, status)
  PROVE  WfInv'
<1> DEFINE k == [pc |-> "patch", status |-> status]
<1>1. Hired /\ employee.status # "terminated" /\ Begin(c, k)
  BY DEF patch_employee
<1>2. ~crossed => ~Ended
  BY <1>1 DEF WfInv, FaceOK
<1>3. DeskOK(k)
  BY <1>1, <1>2 DEF DeskOK, Idle
<1> HIDE DEF k
<1> QED BY <1>1, <1>3, BeginStep DEF patch_employee

(* A move reads the placement and the rate it carries. *)
LEMMA MoveBegins ==
  ASSUME WfInv, NEW c \in Clerk, NEW dept \in Dept, NEW d \in Day, _move_department(c, dept, d)
  PROVE  WfInv'
<1> DEFINE k == [pc |-> "move", id |-> Current.id, dept |-> dept, effective |-> d,
                 carried |-> {r.amount : r \in OpenRate(Current.id)}]
<1>1. Hired /\ Placeable /\ Begin(c, k) /\ Current.from < d
  BY DEF _move_department
<1>2. Current \in placement
  BY <1>1, CurrentRow DEF WfInv
<1>3. PICK row : row = Current
  OBVIOUS
<1>4. /\ k.pc = "move" /\ k.id = row.id /\ k.carried = {r.amount : r \in OpenRate(row.id)} /\ k.dept = dept
      /\ k.effective = d /\ k # Idle
  BY <1>3 DEF Idle
<1> HIDE DEF k
<1>5. \A r, s \in OpenRate(row.id) : r = s /\ r \in wage
  BY OneOpenRate DEF WfInv
<1>6. k.carried \subseteq Wage /\ \A x, y \in k.carried : x = y
  BY <1>4, <1>5 DEF WfInv, RatesOK, RateRow
<1>7. DeskOK(k)
  BY <1>1, <1>2, <1>3, <1>4, <1>6 DEF DeskOK
<1> QED BY <1>1, <1>7, BeginStep DEF _move_department

(* A separation is dated today. *)
LEMMA TerminateBegins ==
  ASSUME WfInv, NEW c \in Clerk, terminate(c)
  PROVE  WfInv'
<1>1. PICK d \in Day : d = today
  BY DEF WfInv, FaceOK
<1> DEFINE k == [pc |-> "disable", on |-> d]
<1>2. Hired /\ Begin(c, k)
  BY <1>1 DEF terminate
<1>3. DeskOK(k)
  BY <1>1, <1>2 DEF DeskOK, Idle
<1> HIDE DEF k
<1> QED BY <1>2, <1>3, BeginStep DEF terminate

(* Nobody separated is enrolled, unless the separation overtakes. *)
LEMMA EnrollBegins ==
  ASSUME WfInv, NEW c \in Clerk, enroll_face_template(c)
  PROVE  WfInv'
<1> DEFINE k == [pc |-> "enroll"]
<1>1. Hired /\ employee.status # "terminated" /\ Begin(c, k)
  BY DEF enroll_face_template
<1>2. ~crossed => ~Ended
  BY <1>1 DEF WfInv, FaceOK
<1>3. DeskOK(k)
  BY <1>1, <1>2 DEF DeskOK, Idle
<1> HIDE DEF k
<1> QED BY <1>1, <1>3, BeginStep DEF enroll_face_template

(* Hiring begins while nothing else runs. *)
LEMMA OnboardBegins ==
  ASSUME WfInv, NEW c \in Clerk, NEW operator \in BOOLEAN, onboard(c, operator)
  PROVE  WfInv'
<1> DEFINE k == [pc |-> "onboard", subject |-> IF operator THEN "account" ELSE "null"]
<1>1. /\ ~Hired /\ (\A x \in Clerk : desk[x] = Idle) /\ Begin(c, k)
      /\ UNCHANGED <<today, employee, placement, wage, face_template, photo, cuts>>
      /\ account' = IF operator THEN "enabled" ELSE account
  BY DEF onboard, faceVars
<1>2. desk' = Goes(desk, c, k) /\ crossed' = (crossed \/ \E x \in Clerk : desk[x] # Idle)
  BY <1>1 DEF Begin
<1>3. crossed \in BOOLEAN
  BY DEF WfInv, FaceOK
<1>4. crossed' = crossed
  BY <1>1, <1>2, <1>3
<1>5. (Hired' <=> Hired) /\ (Ended' <=> Ended) /\ ~Ended
  BY <1>1 DEF Hired, Ended, WfInv, PlacesOK
<1>6. DeskOK(k)'
  <2>1. ~operator /\ cuts = 0 => account # "enabled"
    BY <1>1 DEF WfInv, AccountOK
  <2>2. k.pc = "onboard" /\ k # Idle /\ k.subject = IF operator THEN "account" ELSE "null"
    BY DEF Idle
  <2> HIDE DEF k
  <2> QED BY <1>1, <1>5, <2>1, <2>2 DEF DeskOK
<1>11. k # Idle
  BY DEF Idle
<1> HIDE DEF k
<1>12. desk'[c] # Idle
  BY <1>2, <1>11 DEF WfInv, DesksOK, Goes
<1>7. DesksOK'
  BY <1>1, <1>2, <1>6, DesksStep
<1>8. RowsOK' /\ RatesOK' /\ AccountOK'
  BY <1>1, <1>5, <1>12 DEF WfInv, RowsOK, RatesOK, AccountOK, SeparatedCannotSignIn
<1>9. PlacesOK'
  BY <1>1, <1>5 DEF WfInv, PlacesOK
<1>10. FaceOK'
  <2>1. \A x \in Clerk : desk[x].pc \notin {"enrolled", "terminate"}
    BY <1>1 DEF Idle
  <2> QED BY <1>1, <1>4, <1>5, <2>1 DEF WfInv, FaceOK
<1> QED BY <1>7, <1>8, <1>9, <1>10 DEF WfInv

-----------------------------------------------------------------------------
(* Requests that write *)

(* Whoever runs beside a request has crossed it. *)
LEMMA Beside ==
  ASSUME WfInv, NEW c \in Clerk, desk[c] # Idle
  PROVE  /\ \A x \in Clerk \ {c} : desk[x] # Idle => crossed /\ Hired
         /\ DOMAIN desk = Clerk /\ \A t \in {desk[c]} : DeskOK(t)
BY DEF WfInv, DesksOK

(* A request that leaves face and account alone goes on to k. *)
LEMMA PlainStep ==
  ASSUME WfInv, NEW c \in Clerk, desk[c] # Idle, desk[c].pc \notin {"enrolled", "terminate"},
         NEW k, desk' = Goes(desk, c, k), DeskOK(k)',
         Keeps, RowsOK', RatesOK', PlacesOK', AccountOK',
         employee' \in EmployeeRow, ~crossed /\ Ended' => employee'.status = "terminated" /\ Ended,
         UNCHANGED <<crossed, cuts, face_template, photo>>
  PROVE  WfInv'
<1>1. \A x \in Clerk \ {c} : desk[x] # Idle => crossed' /\ Hired /\ Keeps
  BY Beside
<1>2. DesksOK'
  BY <1>1, DesksStep
<1>3. FaceOK'
  <2>1. ~crossed => \A x \in Clerk : desk[x].pc \notin {"enrolled", "terminate"}
    BY <1>1 DEF Idle
  <2> QED BY <2>1 DEF WfInv, FaceOK, Keeps
<1> QED BY <1>2, <1>3 DEF WfInv

(* The first row of an employee. *)
LEMMA OnboardCommits ==
  ASSUME WfInv, NEW c \in Clerk, NEW dept \in Dept, onboard_employee(c, dept)
  PROVE  WfInv'
<1>1. PICK a : a = Placed(1, dept, today, Open, TRUE)
  OBVIOUS
<1>0. PICK subject : subject = desk[c].subject
  OBVIOUS
<1>2. /\ desk[c].pc = "onboard" /\ employee' = [status |-> "active", ended |-> Open, subject |-> subject]
      /\ placement' = {a} /\ desk' = Goes(desk, c, Idle)
      /\ UNCHANGED <<crossed, today, wage, account, face_template, photo, cuts>>
  BY <1>0, <1>1 DEF onboard_employee, End, At, faceVars
<1>3. /\ subject \in {"null", "account"} /\ (subject = "null" /\ cuts = 0 => account # "enabled")
      /\ cuts \in Nat /\ ~Hired /\ ~Ended /\ placement = {} /\ wage = {} /\ today \in Day
      /\ desk[c] # Idle /\ desk[c].pc \notin {"enrolled", "terminate"}
  BY <1>0, <1>2 DEF WfInv, DesksOK, DeskOK, PlacesOK, FaceOK, Idle
<1>4. Hired' /\ ~Ended' /\ employee' \in EmployeeRow /\ (Linked' <=> subject # "null")
  BY <1>2, <1>3 DEF Hired, Ended, Linked, EmployeeRow
<1>5. /\ a \in PlacementRow /\ a.id = 1 /\ a.from = today /\ a.to = Open /\ a.active
  BY <1>1, <1>3 DEF Placed, PlacementRow, Until
<1>6. RowsOK'
  <2>1. {b.id : b \in placement'} = 1..1
    BY <1>2, <1>5
  <2> QED BY <1>2, <1>5, <2>1 DEF RowsOK
<1>7. RatesOK'
  BY <1>2, <1>3 DEF RatesOK
<1>8. PlacesOK'
  <2>1. \A d \in Day : d >= today => covers(a, d)
    BY <1>5, DayNumbers DEF covers
  <2>2. a.from < a.to
    BY <1>3, <1>5, DayNumbers
  <2> QED BY <1>2, <1>4, <1>5, <2>1, <2>2 DEF PlacesOK
<1>9. DeskOK(Idle)' /\ AccountOK' /\ Keeps
  BY <1>2, <1>3, <1>4 DEF DeskOK, Idle, AccountOK, SeparatedCannotSignIn, Keeps
<1> QED BY <1>2, <1>3, <1>4, <1>6, <1>7, <1>8, <1>9, PlainStep

(* The status is written back. *)
LEMMA PatchCommits ==
  ASSUME WfInv, NEW c \in Clerk, PatchCommit(c)
  PROVE  WfInv'
<1>1. PICK t : t = desk[c]
  OBVIOUS
<1>2. /\ t.pc = "patch" /\ employee' = [employee EXCEPT !.status = t.status] /\ desk' = Goes(desk, c, Idle)
      /\ UNCHANGED <<crossed, today, placement, wage, account, face_template, photo, cuts>>
  BY <1>1 DEF PatchCommit, End, At, faceVars
<1>3. t # Idle /\ DeskOK(t)
  BY <1>1, <1>2 DEF WfInv, DesksOK, Idle
<1>4. t.status \in {"active", "leave"} /\ (~crossed => ~Ended) /\ Hired
  BY <1>2, <1>3 DEF DeskOK
<1>5. employee \in EmployeeRow
  BY DEF WfInv, FaceOK
<1>6. employee' \in EmployeeRow /\ Hired' /\ (Ended' <=> Ended) /\ (Linked' <=> Linked)
  BY <1>2, <1>4, <1>5 DEF EmployeeRow, Hired, Ended, Linked
<1>7. RowsOK' /\ RatesOK' /\ AccountOK' /\ Keeps
  BY <1>2, <1>4, <1>6 DEF WfInv, RowsOK, RatesOK, AccountOK, SeparatedCannotSignIn, Keeps
<1>8. PlacesOK'
  BY <1>2, <1>4, <1>6 DEF WfInv, PlacesOK
<1>9. DeskOK(Idle)'
  BY DEF DeskOK, Idle
<1> QED BY <1>1, <1>2, <1>3, <1>4, <1>6, <1>7, <1>8, <1>9, PlainStep

(* The account goes first. *)
LEMMA DisableStep ==
  ASSUME WfInv, NEW c \in Clerk, disable_user(c)
  PROVE  WfInv'
<1>1. PICK t : t = desk[c]
  OBVIOUS
<1> DEFINE k == [t EXCEPT !.pc = "close"]
<1>2. /\ t.pc = "disable" /\ account' = IF Linked THEN "disabled" ELSE account
      /\ desk' = Goes(desk, c, k)
      /\ UNCHANGED <<crossed, today, employee, placement, wage, face_template, photo, cuts>>
  BY <1>1 DEF disable_user, At, faceVars
<1>3. t # Idle /\ DeskOK(t)
  BY <1>1, <1>2 DEF WfInv, DesksOK, Idle
<1>4. DOMAIN t = {"pc", "on"} /\ t.on \in Day /\ t.on = today /\ Hired
  BY <1>2, <1>3 DEF DeskOK
<1>5. DOMAIN k = {"pc", "on"} /\ k.pc = "close" /\ k.on = t.on
  BY <1>4
<1>6. k # Idle
  BY <1>5 DEF Idle
<1> HIDE DEF k
<1>7. (Hired' <=> Hired) /\ (Ended' <=> Ended) /\ (Linked' <=> Linked) /\ (Linked => account' = "disabled")
  BY <1>2 DEF Hired, Ended, Linked
<1>8. DeskOK(k)'
  BY <1>2, <1>4, <1>5, <1>6, <1>7 DEF DeskOK
<1>9. RowsOK' /\ RatesOK' /\ AccountOK' /\ Keeps
  BY <1>2, <1>4, <1>7 DEF WfInv, RowsOK, RatesOK, AccountOK, SeparatedCannotSignIn, Keeps
<1>10. PlacesOK'
  BY <1>2, <1>7 DEF WfInv, PlacesOK
<1>11. employee' \in EmployeeRow /\ (~crossed /\ Ended' => employee'.status = "terminated" /\ Ended)
  BY <1>2, <1>7 DEF WfInv, FaceOK
<1> QED BY <1>1, <1>2, <1>3, <1>8, <1>9, <1>10, <1>11, PlainStep

(* Steps that concern the face alone. *)
LEMMA RowsSame ==
  ASSUME WfInv, UNCHANGED <<today, employee, placement, wage, account>>,
         cuts' > 0 \/ (cuts' = cuts /\ (Hired \/ desk' = desk))
  PROVE  /\ RowsOK' /\ RatesOK' /\ PlacesOK' /\ AccountOK' /\ Keeps
         /\ (Hired' <=> Hired) /\ (Ended' <=> Ended) /\ (Linked' <=> Linked)
<1>0. cuts \in Nat
  BY DEF WfInv, FaceOK
<1>1. (Hired' <=> Hired) /\ (Ended' <=> Ended) /\ (Linked' <=> Linked)
  BY DEF Hired, Ended, Linked
<1>2. RowsOK' /\ RatesOK' /\ AccountOK' /\ Keeps
  BY <1>1 DEF WfInv, RowsOK, RatesOK, AccountOK, SeparatedCannotSignIn, Keeps
<1>3. PlacesOK'
  BY <1>1 DEF WfInv, PlacesOK
<1> QED BY <1>1, <1>2, <1>3

(* The rows are read and the photo of a template goes. *)
LEMMA ReadsStep ==
  ASSUME WfInv, NEW c \in Clerk, TerminateReads(c)
  PROVE  WfInv'
<1>1. PICK t : t = desk[c]
  OBVIOUS
<1>2. PICK b \in BOOLEAN : b = face_template
  BY DEF WfInv, FaceOK
<1>0. PICK k : k = [pc |-> "terminate", on |-> t.on, face |-> b, rows |-> {a \in placement : a.active}]
  OBVIOUS
<1>3. /\ t.pc = "close" /\ photo' = (photo /\ ~face_template) /\ desk' = Goes(desk, c, k)
      /\ UNCHANGED <<today, employee, placement, wage, account, face_template, crossed, cuts>>
  BY <1>0, <1>1, <1>2 DEF TerminateReads, At
<1>4. t # Idle /\ DeskOK(t) /\ desk[c] # Idle
  BY <1>1, <1>3 DEF WfInv, DesksOK, Idle
<1>5. t.on \in Day /\ t.on = today /\ Hired /\ (Linked => account = "disabled")
  BY <1>3, <1>4 DEF DeskOK
<1>6. /\ k.pc = "terminate" /\ k.on = t.on /\ k.face = b /\ k.rows \subseteq placement /\ k # Idle
  BY <1>0 DEF Idle
<1>7. /\ RowsOK' /\ RatesOK' /\ PlacesOK' /\ AccountOK' /\ Keeps
      /\ (Hired' <=> Hired) /\ (Ended' <=> Ended) /\ (Linked' <=> Linked)
  BY <1>3, <1>5, RowsSame
<1>8. \A x \in Clerk \ {c} : desk[x] # Idle => crossed /\ Hired
  BY <1>4, Beside
<1>9. ~crossed => \A x \in Clerk : desk[x].pc \notin {"enrolled", "terminate"}
  BY <1>1, <1>3, <1>8 DEF Idle
<1>10. photo' \in BOOLEAN /\ (~crossed /\ cuts = 0 => ~photo')
  <2>1. ~crossed /\ cuts = 0 => (photo <=> face_template)
    BY <1>9 DEF WfInv, FaceOK
  <2>2. photo \in BOOLEAN /\ face_template \in BOOLEAN
    BY DEF WfInv, FaceOK
  <2> QED BY <1>3, <2>1, <2>2
<1>11. DeskOK(k)'
  <2>1. k.face \in BOOLEAN /\ (k.face <=> face_template')
    BY <1>2, <1>3, <1>6
  <2> QED BY <1>3, <1>5, <1>6, <1>7, <1>10, <2>1 DEF DeskOK
<1>12. DesksOK'
  BY <1>3, <1>7, <1>8, <1>11, DesksStep
<1>13. desk'[c].pc = "terminate"
  BY <1>3, <1>6 DEF WfInv, DesksOK, Goes
<1>14. FaceOK'
  BY <1>3, <1>7, <1>10, <1>13 DEF WfInv, FaceOK
<1> QED BY <1>7, <1>12, <1>14 DEF WfInv

(* The photo is stored. *)
LEMMA PhotoStep ==
  ASSUME WfInv, NEW c \in Clerk, write_face_template(c)
  PROVE  WfInv'
<1>1. PICK t : t = desk[c]
  OBVIOUS
<1> DEFINE k == [pc |-> "enrolled"]
<1>2. /\ t.pc = "enroll" /\ photo' = TRUE /\ desk' = Goes(desk, c, k)
      /\ UNCHANGED <<today, employee, placement, wage, account, face_template, crossed, cuts>>
  BY <1>1 DEF write_face_template, At
<1>3. t # Idle /\ DeskOK(t) /\ desk[c] # Idle
  BY <1>1, <1>2 DEF WfInv, DesksOK, Idle
<1>4. Hired /\ (~crossed => ~Ended)
  BY <1>2, <1>3 DEF DeskOK
<1>5. /\ RowsOK' /\ RatesOK' /\ PlacesOK' /\ AccountOK' /\ Keeps
      /\ (Hired' <=> Hired) /\ (Ended' <=> Ended) /\ (Linked' <=> Linked)
  BY <1>2, <1>4, RowsSame
<1>6. DeskOK(k)'
  BY <1>2, <1>4, <1>5 DEF DeskOK, Idle
<1> HIDE DEF k
<1>7. DesksOK'
  BY <1>2, <1>3, <1>5, <1>6, Beside, DesksStep
<1>8. desk'[c].pc = "enrolled"
  BY <1>2 DEF WfInv, DesksOK, Goes, k
<1>9. FaceOK'
  BY <1>2, <1>4, <1>5, <1>8 DEF WfInv, FaceOK
<1> QED BY <1>5, <1>7, <1>9 DEF WfInv

(* The template commits, beside its photo. *)
LEMMA EnrollCommits ==
  ASSUME WfInv, NEW c \in Clerk, EnrollCommit(c)
  PROVE  WfInv'
<1>1. PICK t : t = desk[c]
  OBVIOUS
<1>2. /\ t.pc = "enrolled" /\ face_template' = TRUE /\ desk' = Goes(desk, c, Idle)
      /\ UNCHANGED <<today, employee, placement, wage, account, photo, crossed, cuts>>
  BY <1>1 DEF EnrollCommit, End, At
<1>3. t # Idle /\ DeskOK(t) /\ desk[c] # Idle
  BY <1>1, <1>2 DEF WfInv, DesksOK, Idle
<1>4. Hired /\ (~crossed => ~Ended /\ photo)
  BY <1>2, <1>3 DEF DeskOK
<1>5. /\ RowsOK' /\ RatesOK' /\ PlacesOK' /\ AccountOK' /\ Keeps
      /\ (Hired' <=> Hired) /\ (Ended' <=> Ended) /\ (Linked' <=> Linked)
  BY <1>2, <1>4, RowsSame
<1>6. DeskOK(Idle)'
  BY DEF DeskOK, Idle
<1>7. DesksOK'
  BY <1>2, <1>3, <1>5, <1>6, Beside, DesksStep
<1>8. FaceOK'
  BY <1>2, <1>4, <1>5 DEF WfInv, FaceOK
<1> QED BY <1>5, <1>7, <1>8 DEF WfInv

(* A request dies. *)
LEMMA CutStep ==
  ASSUME WfInv, NEW c \in Clerk, CutOff(c)
  PROVE  WfInv'
<1>1. /\ desk[c] # Idle /\ cuts' = cuts + 1 /\ desk' = Goes(desk, c, Idle)
      /\ UNCHANGED <<today, employee, placement, wage, account, face_template, photo, crossed>>
  BY DEF CutOff, End, faceVars
<1>5. cuts' \in Nat /\ cuts' > 0
  BY <1>1 DEF WfInv, FaceOK
<1>2. /\ RowsOK' /\ RatesOK' /\ PlacesOK' /\ AccountOK' /\ Keeps
      /\ (Hired' <=> Hired) /\ (Ended' <=> Ended) /\ (Linked' <=> Linked)
  BY <1>1, <1>5, RowsSame
<1>3. DeskOK(Idle)'
  BY DEF DeskOK, Idle
<1>4. DesksOK'
  BY <1>1, <1>2, <1>3, Beside, DesksStep
<1>6. FaceOK'
  BY <1>1, <1>2, <1>5 DEF WfInv, FaceOK
<1> QED BY <1>2, <1>4, <1>6 DEF WfInv

(* Steps taken while no request runs. *)
LEMMA NobodyRuns ==
  ASSUME WfInv, \A x \in Clerk : desk[x] = Idle, UNCHANGED desk
  PROVE  DesksOK' /\ \A x \in Clerk : desk[x].pc \notin {"enrolled", "terminate"}
<1>1. DeskOK(Idle)'
  BY DEF DeskOK, Idle
<1> QED BY <1>1 DEF WfInv, DesksOK, Idle

(* A template is deleted, its photo with it. *)
LEMMA DeleteStep == ASSUME WfInv, delete_face_template PROVE WfInv'
<1>1. /\ (\A x \in Clerk : desk[x] = Idle) /\ face_template' = FALSE /\ photo' = FALSE
      /\ UNCHANGED <<today, employee, placement, wage, account, crossed, desk, cuts>>
  BY DEF delete_face_template
<1>2. /\ RowsOK' /\ RatesOK' /\ PlacesOK' /\ AccountOK' /\ Keeps
      /\ (Hired' <=> Hired) /\ (Ended' <=> Ended) /\ (Linked' <=> Linked)
  BY <1>1, RowsSame
<1>3. DesksOK'
  BY <1>1, NobodyRuns
<1>4. FaceOK'
  BY <1>1, <1>2 DEF WfInv, FaceOK
<1> QED BY <1>2, <1>3, <1>4 DEF WfInv

(* A day passes. *)
LEMMA MidnightStep == ASSUME WfInv, Midnight PROVE WfInv'
<1>1. /\ today < MaxDay /\ (\A x \in Clerk : desk[x] = Idle) /\ today' = today + 1
      /\ UNCHANGED <<employee, placement, wage, account, face_template, photo, desk, crossed, cuts>>
  BY DEF Midnight, faceVars
<1>2. today \in Day /\ today' \in Day /\ today \in Nat
  BY <1>1, DaysAssumption DEF WfInv, FaceOK, Day
<1>3. (Hired' <=> Hired) /\ (Ended' <=> Ended) /\ (Linked' <=> Linked)
  BY <1>1 DEF Hired, Ended, Linked
<1>4. RowsOK' /\ RatesOK' /\ AccountOK'
  BY <1>1, <1>3 DEF WfInv, RowsOK, RatesOK, AccountOK, SeparatedCannotSignIn
<1>5. \A d \in Day : d >= today' => d >= today
  BY <1>1, <1>2, DayNumbers
<1>6. PlacesOK'
  BY <1>1, <1>3, <1>5 DEF WfInv, PlacesOK
<1>7. DesksOK' /\ \A x \in Clerk : desk[x].pc \notin {"enrolled", "terminate"}
  BY <1>1, NobodyRuns
<1>8. FaceOK'
  BY <1>1, <1>2, <1>3, <1>7 DEF WfInv, FaceOK
<1> QED BY <1>4, <1>6, <1>7, <1>8 DEF WfInv

(* Rows that keep their numbers and their first days. *)
LEMMA RowsMapped ==
  ASSUME RowsOK, NEW m, \A a \in placement : m[a].id = a.id
  PROVE  /\ \A x, y \in {m[a] : a \in placement} : x.id = y.id => x = y
         /\ {x.id : x \in {m[a] : a \in placement}} = {a.id : a \in placement}
<1> DEFINE M == {m[a] : a \in placement}
<1>1. \A x \in M : \E a \in placement : x = m[a] /\ x.id = a.id
  OBVIOUS
<1>2. \A a \in placement : m[a] \in M /\ m[a].id = a.id
  OBVIOUS
<1> HIDE DEF M
<1>3. \A x, y \in M : x.id = y.id => x = y
  BY <1>1 DEF RowsOK
<1>4. {x.id : x \in M} = {a.id : a \in placement}
  BY <1>1, <1>2
<1> QED BY <1>3, <1>4 DEF M

(* The rows that were read end, and with them the employment. *)
LEMMA TerminateCommits ==
  ASSUME WfInv, NEW c \in Clerk, terminate_employee(c)
  PROVE  WfInv'
<1>1. PICK t : t = desk[c]
  OBVIOUS
<1>2. PICK m : m = [a \in placement |-> EndedRow(a, t)]
  OBVIOUS
<1>3. /\ t.pc = "terminate" /\ placement' = {m[a] : a \in placement}
      /\ employee' = [employee EXCEPT !.status = "terminated", !.ended = t.on]
      /\ face_template' = (face_template /\ ~t.face) /\ desk' = Goes(desk, c, Idle)
      /\ UNCHANGED <<today, wage, account, photo, crossed, cuts>>
  <2>1. placement' = {EndedRow(a, t) : a \in placement}
    BY <1>1 DEF terminate_employee
  <2>2. placement' = {m[a] : a \in placement}
    BY <1>2, <2>1
  <2> QED BY <1>1, <2>2 DEF terminate_employee, End, At
<1>4. t # Idle /\ DeskOK(t) /\ desk[c] # Idle
  BY <1>1, <1>3 DEF WfInv, DesksOK, Idle
<1>5. /\ t.on \in Day /\ Hired /\ (Linked => account = "disabled") /\ t.face \in BOOLEAN
      /\ ~crossed /\ cuts = 0 => ~photo /\ (t.face <=> face_template)
  BY <1>3, <1>4 DEF DeskOK
<1>6. /\ Hired' /\ Ended' /\ (Linked' <=> Linked)
      /\ employee' \in EmployeeRow /\ employee'.status = "terminated"
  <2>1. employee \in EmployeeRow
    BY DEF WfInv, FaceOK
  <2>2. /\ employee' \in EmployeeRow /\ employee'.status = "terminated" /\ employee'.ended = t.on
        /\ employee'.subject = employee.subject
    BY <1>3, <1>5, <2>1 DEF EmployeeRow
  <2> QED BY <1>5, <2>2, DayNumbers DEF Hired, Ended, Linked, Open
<1>7. RowsOK /\ RatesOK /\ placement \subseteq PlacementRow
  BY DEF WfInv, RowsOK
<1>8. ASSUME NEW a \in placement
      PROVE  \E last \in Until : EndedRow(a, t) \in {[a EXCEPT !.active = FALSE, !.to = last], a}
  <2>1. \A r : LastDay(r, t.on) = r.to \/ LastDay(r, t.on) = t.on + 1
    BY DEF LastDay
  <2>2. a.to \in Until /\ t.on + 1 \in Until
    BY <1>5, <1>7, DayNumbers DEF PlacementRow
  <2>3. PICK r : r = CHOOSE x \in t.rows : x.id = a.id
    OBVIOUS
  <2>4. PICK last : last = IF LastDay(r, t.on) = r.to THEN a.to ELSE LastDay(r, t.on)
    OBVIOUS
  <2>5. last \in Until
    BY <2>1, <2>2, <2>4
  <2>6. EndedRow(a, t) = IF \E x \in t.rows : x.id = a.id THEN [a EXCEPT !.active = FALSE, !.to = last] ELSE a
    BY <2>3, <2>4 DEF EndedRow
  <2> QED BY <2>5, <2>6
<1>9. \A a \in placement : m[a] \in PlacementRow /\ m[a].id = a.id /\ m[a].from = a.from
                           /\ (m[a].active => m[a] = a)
  <2> SUFFICES ASSUME NEW a \in placement
               PROVE  m[a] \in PlacementRow /\ m[a].id = a.id /\ m[a].from = a.from /\ (m[a].active => m[a] = a)
    OBVIOUS
  <2>1. PICK last \in Until : m[a] \in {[a EXCEPT !.active = FALSE, !.to = last], a}
    BY <1>2, <1>8
  <2>2. a \in PlacementRow
    BY <1>7
  <2>3. CASE m[a] = a
    BY <2>2, <2>3
  <2>4. CASE m[a] = [a EXCEPT !.active = FALSE, !.to = last]
    <3>1. m[a].id = a.id /\ m[a].from = a.from /\ ~m[a].active
      BY <2>2, <2>4 DEF PlacementRow
    <3>2. m[a] \in PlacementRow
      BY <2>1, <2>2, <2>4 DEF PlacementRow
    <3> QED BY <3>1, <3>2
  <2> QED BY <2>1, <2>3, <2>4
<1>10. RowsOK'
  <2>1. PICK n \in Nat : {a.id : a \in placement} = 1..n
    BY <1>7 DEF RowsOK
  <2>2. (\A x, y \in placement' : x.id = y.id => x = y) /\ {x.id : x \in placement'} = 1..n
    BY <1>3, <1>7, <1>9, <2>1, RowsMapped
  <2>3. placement' \subseteq PlacementRow
    BY <1>3, <1>9
  <2>4. \A x \in placement' : x.active => x \in placement
    BY <1>3, <1>9
  <2> QED BY <1>7, <2>2, <2>3, <2>4 DEF RowsOK
<1>11. RatesOK'
  <2>1. \A a \in placement : \E b \in placement' : b.id = a.id
    BY <1>3, <1>9
  <2> QED BY <1>3, <1>7, <2>1 DEF RatesOK
<1>12. PlacesOK' /\ AccountOK'
  BY <1>3, <1>5, <1>6 DEF WfInv, PlacesOK, AccountOK, SeparatedCannotSignIn
<1>13. Keeps
  BY <1>3, <1>6, <1>9 DEF Keeps
<1>14. DeskOK(Idle)'
  BY DEF DeskOK, Idle
<1>15. DesksOK'
  BY <1>3, <1>4, <1>13, <1>14, Beside, DesksStep
<1>16. face_template' \in BOOLEAN /\ (~crossed /\ cuts = 0 => ~face_template' /\ ~photo)
  <2>1. face_template \in BOOLEAN
    BY DEF WfInv, FaceOK
  <2> QED BY <1>3, <1>5, <2>1
<1>17. FaceOK'
  BY <1>3, <1>6, <1>16 DEF WfInv, FaceOK
<1> QED BY <1>10, <1>11, <1>12, <1>15, <1>17 DEF WfInv

(* The raise t turns every rate r into m[r], and adds n. *)
Raised(t, m, n) ==
    /\ n = Rated(t.id, t.amount, t.effective, Open)
    /\ \A r \in wage : m[r] = ClosedRate(r, t)
    /\ \A r \in wage : ~(m[r].id = t.id /\ (m[r].to = Open \/ m[r].from = t.effective))
    /\ wage' = {m[r] : r \in wage} \cup {n}

(* What a committed raise leaves of the rates of its placement. *)
LEMMA RaiseRates ==
  ASSUME WfInv, NEW t, DeskOK(t), t.pc = "raise", NEW m, NEW n, Raised(t, m, n)
  PROVE  /\ n \in RateRow /\ n.id = t.id /\ n.from = t.effective /\ n.to = Open
         /\ \A r \in wage : /\ m[r] \in RateRow /\ m[r].id = r.id /\ m[r].from = r.from /\ m[r].from < m[r].to
                            /\ r.id # t.id => m[r] = r
                            /\ r.id = t.id => m[r].to <= t.effective /\ m[r].to <= r.to
         /\ \A r \in wage : m[r] = r \/ (r.to = Open /\ m[r].to = t.effective)
<1>0. /\ n = Rated(t.id, t.amount, t.effective, Open)
      /\ \A r \in wage : m[r] = IF \E o \in t.open : o.id = r.id /\ o.from = r.from
                               THEN [r EXCEPT !.to = t.effective] ELSE r
      /\ \A r \in wage : ~(m[r].id = t.id /\ (m[r].to = Open \/ m[r].from = t.effective))
  BY DEF Raised, ClosedRate
<1>1. /\ t.amount \in Wage /\ t.effective \in Day /\ (\E a \in placement : a.id = t.id)
      /\ (\A o \in t.open : o.id = t.id /\ o.from < t.effective) /\ \A o, q \in t.open : o = q
  BY DEF DeskOK
<1>2. RatesOK /\ wage \subseteq RateRow /\ placement \subseteq PlacementRow
  BY DEF WfInv, RatesOK, RowsOK
<1>3. n \in RateRow /\ n.id = t.id /\ n.from = t.effective /\ n.to = Open
  BY <1>0, <1>1, <1>2 DEF Rated, RateRow, PlacementRow, Until
<1> DEFINE same(r) == \E o \in t.open : o.id = r.id /\ o.from = r.from
<1>4. \A r \in wage : same(r) => r.id = t.id /\ r.from < t.effective
  BY <1>1
<1>5. \A r \in wage : /\ same(r) => m[r] = [r EXCEPT !.to = t.effective]
                      /\ ~same(r) => m[r] = r
  BY <1>0
<1>6. \A r \in wage : r \in RateRow /\ r.from \in Nat /\ r.to \in Nat /\ r.from < r.to /\ r.from < Open
  BY <1>2, DayNumbers DEF RatesOK, RateRow
<1>7. t.effective \in Nat /\ t.effective < Open /\ t.effective \in Until
  BY <1>1, DayNumbers DEF Until
<1>8. ASSUME NEW s \in wage, s.id = t.id, s.to = Open
      PROVE  same(s) /\ m[s] = [s EXCEPT !.to = t.effective]
  BY <1>0, <1>5, <1>8
<1>9. ASSUME NEW r \in wage, r.id = t.id
      PROVE  \/ r.to = Open
             \/ ~same(r) /\ r.to < t.effective
  <2>1. PICK s \in wage : s.id = r.id /\ s.to = Open
    BY <1>2 DEF RatesOK
  <2>2. same(s) /\ s.from < t.effective
    BY <1>4, <1>8, <1>9, <2>1
  <2>3. CASE r = s
    BY <2>1, <2>3
  <2>4. CASE r # s
    <3>1. r.to <= s.from
      <4>1. Apart(r, s)
        BY <1>2, <2>1, <2>4 DEF RatesOK
      <4> QED BY <1>6, <2>1, <4>1 DEF Apart, Open
    <3>2. r.from # s.from
      BY <1>6, <3>1
    <3>3. ~same(r)
      BY <1>1, <2>2, <3>2
    <3> QED BY <1>6, <1>7, <2>2, <3>1, <3>3
  <2> QED BY <2>3, <2>4
<1> HIDE DEF same
<1>10. ASSUME NEW r \in wage
       PROVE  /\ m[r] \in RateRow /\ m[r].id = r.id /\ m[r].from = r.from /\ m[r].from < m[r].to
              /\ r.id # t.id => m[r] = r
              /\ r.id = t.id => m[r].to <= t.effective /\ m[r].to <= r.to
              /\ m[r] = r \/ (r.to = Open /\ m[r].to = t.effective)
  <2>1. CASE same(r)
    <3>1. r.id = t.id /\ r.from < t.effective /\ m[r] = [r EXCEPT !.to = t.effective] /\ r.to = Open
      BY <1>4, <1>5, <1>9, <2>1
    <3>2. m[r] \in RateRow /\ m[r].id = r.id /\ m[r].from = r.from /\ m[r].to = t.effective
      BY <1>6, <1>7, <3>1 DEF RateRow
    <3> QED BY <1>6, <1>7, <3>1, <3>2
  <2>2. CASE ~same(r)
    <3>1. m[r] = r
      BY <1>5, <2>2
    <3>2. r.id = t.id => r.to < t.effective
      BY <1>8, <1>9, <2>2
    <3> QED BY <1>6, <1>7, <3>1, <3>2
  <2> QED BY <2>1, <2>2
<1> QED BY <1>3, <1>10

(* What a raise commits, in terms of the rates it found. *)
LEMMA RaiseWrites ==
  ASSUME WfInv, NEW c \in Clerk, RaiseCommit(c), NEW t, t = desk[c]
  PROVE  /\ t.pc = "raise" /\ desk' = Goes(desk, c, Idle)
         /\ UNCHANGED <<today, employee, placement, account, face_template, photo, crossed, cuts>>
         /\ \/ wage' = wage
            \/ \E m, n : Raised(t, m, n)
<1>1. PICK m : m = [r \in wage |-> ClosedRate(r, t)]
  OBVIOUS
<1>2. PICK n : n = Rated(t.id, t.amount, t.effective, Open)
  OBVIOUS
<1> DEFINE M == {m[r] : r \in wage}
<1>5. wage' = IF \E r \in M : r.id = t.id /\ (r.to = Open \/ r.from = t.effective) THEN wage ELSE M \cup {n}
  <2>1. M = {ClosedRate(r, t) : r \in wage}
    BY <1>1
  <2> HIDE DEF M
  <2> QED BY <1>2, <2>1 DEF RaiseCommit
<1>3. t.pc = "raise" /\ desk' = Goes(desk, c, Idle)
      /\ UNCHANGED <<today, employee, placement, account, face_template, photo, crossed, cuts>>
  BY DEF RaiseCommit, At, End, faceVars
<1>4. ASSUME wage' # wage PROVE Raised(t, m, n)
  BY <1>1, <1>2, <1>4, <1>5 DEF Raised
<1> QED BY <1>3, <1>4

(* A raise closes the open rate of the placement it read and opens another. *)
LEMMA RaiseCommits ==
  ASSUME WfInv, NEW c \in Clerk, RaiseCommit(c)
  PROVE  WfInv'
<1>1. PICK t : t = desk[c]
  OBVIOUS
<1>2. /\ t.pc = "raise" /\ desk' = Goes(desk, c, Idle)
      /\ UNCHANGED <<today, employee, placement, account, face_template, photo, crossed, cuts>>
  BY <1>1, RaiseWrites
<1>3. t # Idle /\ DeskOK(t) /\ desk[c] # Idle
  BY <1>1, <1>2 DEF WfInv, DesksOK, Idle
<1>4. (Hired' <=> Hired) /\ (Ended' <=> Ended) /\ (Linked' <=> Linked) /\ Hired
  BY <1>2, <1>3 DEF Hired, Ended, Linked, DeskOK
<1>5. RatesOK'
  <2>1. CASE wage' = wage
    BY <1>2, <2>1 DEF WfInv, RatesOK
  <2>2. CASE wage' # wage
    <3>0. PICK m, n : Raised(t, m, n)
      BY <1>1, <2>2, RaiseWrites
    <3>1. wage' = {m[r] : r \in wage} \cup {n}
      BY <3>0 DEF Raised
    <3>2. /\ n \in RateRow /\ n.id = t.id /\ n.from = t.effective /\ n.to = Open
          /\ \A r \in wage : /\ m[r] \in RateRow /\ m[r].id = r.id /\ m[r].from = r.from /\ m[r].from < m[r].to
                             /\ r.id # t.id => m[r] = r
                             /\ r.id = t.id => m[r].to <= t.effective /\ m[r].to <= r.to
      BY <1>2, <1>3, <3>0, RaiseRates
    <3>3. RatesOK /\ t.effective \in Day
      BY <1>2, <1>3 DEF WfInv, DeskOK
    <3>4. \A x \in wage' : x \in RateRow /\ x.from < x.to
      BY <3>1, <3>2, <3>3, DayNumbers
    <3>5. ASSUME NEW r \in wage, NEW q \in wage, r.id = q.id PROVE m[r] = m[q] \/ Apart(m[r], m[q])
      <4>1. CASE r = q
        BY <4>1
      <4>2. CASE r # q
        <5>1. Apart(r, q)
          BY <3>3, <3>5, <4>2 DEF RatesOK
        <5>2. CASE r.id # t.id
          BY <3>2, <3>5, <5>1, <5>2
        <5>3. CASE r.id = t.id
          <6>1. /\ m[r].to <= r.to /\ m[q].to <= q.to /\ m[r].from = r.from /\ m[q].from = q.from
                /\ m[r].to \in Nat /\ m[q].to \in Nat /\ r.to \in Nat /\ q.to \in Nat
                /\ r.from \in Nat /\ q.from \in Nat
            BY <3>2, <3>3, <3>5, <5>3, DayNumbers DEF RatesOK, RateRow
          <6> QED BY <5>1, <6>1 DEF Apart
        <5> QED BY <5>2, <5>3
      <4> QED BY <4>1, <4>2
    <3>6. \A r \in wage : r.id = t.id => Apart(m[r], n)
      BY <3>2 DEF Apart
    <3>7. \A x, y \in wage' : x.id = y.id => x = y \/ Apart(x, y)
      <4> SUFFICES ASSUME NEW x \in wage', NEW y \in wage', x.id = y.id PROVE x = y \/ Apart(x, y)
        OBVIOUS
      <4>1. x = n \/ \E r \in wage : x = m[r] /\ r.id = x.id
        BY <3>1, <3>2
      <4>2. y = n \/ \E r \in wage : y = m[r] /\ r.id = y.id
        BY <3>1, <3>2
      <4>3. \A r \in wage : r.id = t.id => Apart(n, m[r])
        BY <3>6 DEF Apart
      <4> QED BY <3>2, <3>5, <3>6, <4>1, <4>2, <4>3
    <3>8. \A x \in wage' : \E y \in wage' : y.id = x.id /\ y.to = Open
      <4> SUFFICES ASSUME NEW x \in wage' PROVE \E y \in wage' : y.id = x.id /\ y.to = Open
        OBVIOUS
      <4>1. CASE x.id = t.id
        BY <3>1, <3>2, <4>1
      <4>2. CASE x.id # t.id
        <5>1. x \in wage
          BY <3>1, <3>2, <4>2
        <5>2. PICK y \in wage : y.id = x.id /\ y.to = Open
          BY <3>3, <5>1 DEF RatesOK
        <5>3. y \in wage'
          BY <3>1, <3>2, <4>2, <5>2
        <5> QED BY <5>2, <5>3
      <4> QED BY <4>1, <4>2
    <3>9. \A x \in wage' : \E a \in placement' : a.id = x.id
      <4>1. \E a \in placement : a.id = t.id
        BY <1>2, <1>3 DEF DeskOK
      <4> QED BY <1>2, <3>1, <3>2, <3>3, <4>1 DEF RatesOK
    <3> QED BY <3>4, <3>7, <3>8, <3>9 DEF RatesOK
  <2> QED BY <2>1, <2>2
<1>6. RowsOK' /\ AccountOK' /\ Keeps
  BY <1>2, <1>4 DEF WfInv, RowsOK, AccountOK, SeparatedCannotSignIn, Keeps
<1>7. PlacesOK'
  BY <1>2, <1>4 DEF WfInv, PlacesOK
<1>8. DeskOK(Idle)'
  BY DEF DeskOK, Idle
<1>9. employee' \in EmployeeRow /\ (~crossed /\ Ended' => employee'.status = "terminated" /\ Ended)
  BY <1>2, <1>4 DEF WfInv, FaceOK
<1> QED BY <1>1, <1>2, <1>3, <1>5, <1>6, <1>7, <1>8, <1>9, PlainStep

(* The move t turns every placement a into m[a], and adds n, numbered i. *)
Moved(t, m, n, i) ==
    /\ i = NextId /\ n = Placed(i, t.dept, t.effective, Open, TRUE)
    /\ \A a \in placement : m[a] = IF a.id = t.id THEN [a EXCEPT !.to = t.effective] ELSE a
    /\ \A a \in placement : ~((m[a].active /\ m[a].to = Open) \/ m[a].from = t.effective)
    /\ placement' = {m[a] : a \in placement} \cup {n}
    /\ wage' = wage \cup {Rated(i, x, t.effective, Open) : x \in t.carried}

(* What a move commits, in terms of the placements it found. *)
LEMMA MoveWrites ==
  ASSUME WfInv, NEW c \in Clerk, MoveCommit(c), NEW t, t = desk[c]
  PROVE  /\ t.pc = "move" /\ desk' = Goes(desk, c, Idle)
         /\ UNCHANGED <<today, employee, account, face_template, photo, crossed, cuts>>
         /\ \/ UNCHANGED <<placement, wage>>
            \/ \E m, n, i : Moved(t, m, n, i)
<1>1. PICK m : m = [a \in placement |-> IF a.id = t.id THEN [a EXCEPT !.to = t.effective] ELSE a]
  OBVIOUS
<1>2. ClosedAt(t.id, t.effective) = {m[a] : a \in placement}
  BY <1>1 DEF ClosedAt
<1>3. /\ t.pc = "move" /\ desk' = Goes(desk, c, Idle)
      /\ UNCHANGED <<today, employee, account, face_template, photo, crossed, cuts>>
  BY DEF MoveCommit, At, End, faceVars
<1>4. CASE Refused(ClosedAt(t.id, t.effective), t.effective)
  BY <1>3, <1>4 DEF MoveCommit
<1>5. CASE ~Refused(ClosedAt(t.id, t.effective), t.effective)
  <2>1. PICK i : i = NextId
    OBVIOUS
  <2>2. PICK n : n = Placed(i, t.dept, t.effective, Open, TRUE)
    OBVIOUS
  <2>3. placement' = {m[a] : a \in placement} \cup {n}
    BY <1>2, <1>5, <2>1, <2>2 DEF MoveCommit
  <2>4. wage' = wage \cup {Rated(i, x, t.effective, Open) : x \in t.carried}
    <3>1. wage' = wage \cup Carried(t.carried, t.effective)
      BY <1>5 DEF MoveCommit
    <3> QED BY <2>1, <3>1 DEF Carried
  <2>5. \A a \in placement : ~((m[a].active /\ m[a].to = Open) \/ m[a].from = t.effective)
    BY <1>2, <1>5 DEF Refused
  <2>6. Moved(t, m, n, i)
    BY <1>1, <2>1, <2>2, <2>3, <2>4, <2>5 DEF Moved
  <2> QED BY <1>3, <2>6
<1> QED BY <1>4, <1>5

(* A committed move: the row that was read ends where the new one begins. *)
LEMMA MoveRows ==
  ASSUME WfInv, NEW t, DeskOK(t), t.pc = "move", NEW m, NEW n, NEW i, Moved(t, m, n, i)
  PROVE  /\ i \in Nat \ {0} /\ {a.id : a \in placement} = 1..(i - 1)
         /\ n \in PlacementRow /\ n.id = i /\ n.from = t.effective /\ n.to = Open /\ n.active
         /\ t.effective \in Day
         /\ \A a \in placement : /\ m[a] \in PlacementRow /\ m[a].id = a.id /\ m[a].from = a.from
                                 /\ m[a].active <=> a.active
                                 /\ a.id # t.id => m[a] = a
                                 /\ a.id = t.id => m[a].to = t.effective /\ a.from < t.effective
                                 /\ ~(m[a].active /\ m[a].to = Open)
<1>1. /\ i = NextId /\ n = Placed(i, t.dept, t.effective, Open, TRUE)
      /\ \A a \in placement : m[a] = IF a.id = t.id THEN [a EXCEPT !.to = t.effective] ELSE a
      /\ \A a \in placement : ~(m[a].active /\ m[a].to = Open)
  BY DEF Moved
<1>2. RowsOK /\ placement \subseteq PlacementRow
  BY DEF WfInv, RowsOK
<1>3. i \in Nat \ {0} /\ {a.id : a \in placement} = 1..(i - 1)
  BY <1>1, <1>2, Numbered
<1>4. t.dept \in Dept /\ t.effective \in Day /\ \E a \in placement : a.id = t.id /\ a.from < t.effective
  BY DEF DeskOK
<1>5. n \in PlacementRow /\ n.id = i /\ n.from = t.effective /\ n.to = Open /\ n.active
  BY <1>1, <1>3, <1>4 DEF Placed, PlacementRow, Until
<1>6. ASSUME NEW a \in placement
      PROVE  /\ m[a] \in PlacementRow /\ m[a].id = a.id /\ m[a].from = a.from /\ (m[a].active <=> a.active)
             /\ a.id # t.id => m[a] = a
             /\ a.id = t.id => m[a].to = t.effective
  <2>1. a \in PlacementRow /\ t.effective \in Until
    BY <1>2, <1>4 DEF Until
  <2>2. CASE a.id = t.id
    <3>1. m[a] = [a EXCEPT !.to = t.effective]
      BY <1>1, <2>2
    <3> QED BY <2>1, <2>2, <3>1 DEF PlacementRow
  <2>3. CASE a.id # t.id
    BY <1>1, <2>1, <2>3
  <2> QED BY <2>2, <2>3
<1>7. \A a \in placement : a.id = t.id => a.from < t.effective
  BY <1>2, <1>4 DEF RowsOK
<1> QED BY <1>1, <1>3, <1>4, <1>5, <1>6, <1>7

(* The rows stay numbered. *)
LEMMA MoveKeepsRows ==
  ASSUME WfInv, NEW t, DeskOK(t), t.pc = "move", NEW m, NEW n, NEW i, Moved(t, m, n, i)
  PROVE  RowsOK'
<1>1. /\ i \in Nat \ {0} /\ {a.id : a \in placement} = 1..(i - 1)
      /\ n \in PlacementRow /\ n.id = i /\ n.to = Open /\ n.active
      /\ \A a \in placement : m[a] \in PlacementRow /\ m[a].id = a.id /\ ~(m[a].active /\ m[a].to = Open)
  BY MoveRows
<1> DEFINE M == {m[a] : a \in placement}
<1>2. placement' = M \cup {n}
  BY DEF Moved
<1>3. (\A x, y \in M : x.id = y.id => x = y) /\ {x.id : x \in M} = 1..(i - 1)
  BY <1>1, RowsMapped DEF WfInv
<1>4. M \subseteq PlacementRow /\ \A x \in M : ~(x.active /\ x.to = Open)
  BY <1>1
<1> HIDE DEF M
<1>5. \A x \in M : x.id \in 1..(i - 1) /\ x.id # n.id
  BY <1>1, <1>3
<1>6. {x.id : x \in placement'} = 1..i
  <2>1. {x.id : x \in placement'} = {x.id : x \in M} \cup {n.id}
    BY <1>2
  <2> QED BY <1>1, <1>3, <2>1
<1>7. i \in Nat
  BY <1>1
<1>8. \A x, y \in placement' : x.id = y.id => x = y
  BY <1>2, <1>3, <1>5
<1>9. \A x, y \in placement' : x.active /\ x.to = Open /\ y.active /\ y.to = Open => x = y
  BY <1>2, <1>4
<1>10. placement' \subseteq PlacementRow
  BY <1>1, <1>2, <1>4
<1> QED BY <1>6, <1>7, <1>8, <1>9, <1>10 DEF RowsOK

(* The rate it carries is the only one of the new placement. *)
LEMMA MoveKeepsRates ==
  ASSUME WfInv, NEW t, DeskOK(t), t.pc = "move", NEW m, NEW n, NEW i, Moved(t, m, n, i)
  PROVE  RatesOK'
<1>1. /\ i \in Nat /\ {a.id : a \in placement} = 1..(i - 1) /\ n.id = i
      /\ t.effective \in Day /\ \A a \in placement : m[a].id = a.id
  BY MoveRows
<1>2. PICK N : N = {Rated(i, x, t.effective, Open) : x \in t.carried}
  OBVIOUS
<1>3. wage' = wage \cup N /\ placement' = {m[a] : a \in placement} \cup {n}
  BY <1>2 DEF Moved
<1>4. RatesOK /\ t.carried \subseteq Wage /\ \A x, y \in t.carried : x = y
  BY DEF WfInv, DeskOK
<1>5. \A r \in N : r \in RateRow /\ r.id = i /\ r.to = Open /\ r.from = t.effective
  BY <1>1, <1>2, <1>4 DEF Rated, RateRow, Until
<1>6. \A r, s \in N : r = s
  BY <1>2, <1>4
<1>7. \A r \in wage : r.id # i
  <2>1. \A r \in wage : r.id \in 1..(i - 1)
    BY <1>1, <1>4 DEF RatesOK
  <2> QED BY <1>1, <2>1
<1>8. \A r \in wage' : r \in RateRow /\ r.from < r.to
  BY <1>1, <1>3, <1>4, <1>5, DayNumbers DEF RatesOK
<1>9. \A r, s \in wage' : r.id = s.id => r = s \/ Apart(r, s)
  BY <1>3, <1>4, <1>5, <1>6, <1>7 DEF RatesOK
<1>10. \A r \in wage' : \E s \in wage' : s.id = r.id /\ s.to = Open
  BY <1>3, <1>4, <1>5 DEF RatesOK
<1>11. \A r \in wage' : \E a \in placement' : a.id = r.id
  <2>1. \A r \in wage : \E a \in placement : a.id = r.id
    BY <1>4 DEF RatesOK
  <2>2. \A a \in placement : \E b \in placement' : b.id = a.id
    BY <1>1, <1>3
  <2> QED BY <1>1, <1>3, <1>5, <2>1, <2>2
<1> QED BY <1>8, <1>9, <1>10, <1>11 DEF RatesOK

(* The row that was read was the open one, so that no day is lost or doubled. *)
LEMMA MoveKeepsPlaces ==
  ASSUME WfInv, NEW t, DeskOK(t), t.pc = "move", NEW m, NEW n, NEW i, Moved(t, m, n, i),
         UNCHANGED <<employee, today>>
  PROVE  PlacesOK'
<1>0. Hired /\ Hired' /\ (Ended' <=> Ended) /\ today \in Day
  BY DEF DeskOK, Hired, Ended, WfInv, FaceOK
<1>1. CASE Ended
  BY <1>0, <1>1 DEF PlacesOK
<1>2. CASE ~Ended
  <2>1. /\ n \in PlacementRow /\ n.from = t.effective /\ n.to = Open /\ n.active /\ t.effective \in Day
        /\ \A a \in placement : /\ m[a] \in PlacementRow /\ m[a].from = a.from
                                /\ m[a].active <=> a.active
                                /\ a.id # t.id => m[a] = a
                                /\ a.id = t.id => m[a].to = t.effective /\ a.from < t.effective
                                /\ ~(m[a].active /\ m[a].to = Open)
    BY MoveRows
  <2>2. /\ \A a \in placement : a.active /\ a.from < a.to
        /\ \A a, b \in placement : a = b \/ Apart(a, b)
        /\ \E a \in placement : a.to = Open
        /\ \A d \in Day : d >= today => \E a \in placement : covers(a, d)
    BY <1>0, <1>2 DEF WfInv, PlacesOK
  <2>3. PICK z \in placement : z.to = Open
    BY <2>2
  <2>4. z.id = t.id /\ \A a \in placement : a # z => m[a] = a
    <3>1. z.id = t.id
      BY <2>1, <2>2, <2>3
    <3>2. \A a \in placement : a # z => a.id # z.id
      BY DEF WfInv, RowsOK
    <3> QED BY <2>1, <3>1, <3>2
  <2>5. placement' = {m[a] : a \in placement} \cup {n}
    BY DEF Moved
  <2>6. /\ z.from < t.effective /\ m[z].from = z.from /\ m[z].to = t.effective /\ m[z] # n
        /\ t.effective \in Nat /\ t.effective < Open
    BY <2>1, <2>3, <2>4, DayNumbers
  <2>7. \A a \in placement : a.from \in Nat /\ a.to \in Nat /\ a.from < Open
    BY DayNumbers DEF WfInv, RowsOK, PlacementRow
  <2>8. \A a \in placement : a # z => a.to <= z.from
    <3> SUFFICES ASSUME NEW a \in placement, a # z PROVE a.to <= z.from
      OBVIOUS
    <3>1. Apart(a, z)
      BY <2>2
    <3> QED BY <2>3, <2>7, <3>1 DEF Apart, Open
  <2>9. \A x \in placement' : x.active /\ x.from < x.to
    <3>1. n.active /\ n.from < n.to
      BY <2>1, <2>6
    <3>2. \A a \in placement : m[a].active /\ m[a].from < m[a].to
      BY <2>1, <2>2, <2>4, <2>6
    <3> QED BY <2>5, <3>1, <3>2
  <2>10. \A x, y \in placement' : x = y \/ Apart(x, y)
    <3>1. \A a \in placement : Apart(m[a], n) /\ Apart(n, m[a])
      <4> SUFFICES ASSUME NEW a \in placement PROVE Apart(m[a], n) /\ Apart(n, m[a])
        OBVIOUS
      <4>1. m[a].to <= n.from
        <5>1. CASE a = z
          BY <2>1, <2>6, <5>1
        <5>2. CASE a # z
          <6>1. m[a].to = a.to /\ a.to <= z.from /\ n.from = t.effective
            BY <2>1, <2>4, <2>8, <5>2
          <6> QED BY <2>6, <2>7, <6>1
        <5> QED BY <5>1, <5>2
      <4> QED BY <4>1 DEF Apart
    <3>2. \A a, b \in placement : m[a] = m[b] \/ Apart(m[a], m[b])
      <4> SUFFICES ASSUME NEW a \in placement, NEW b \in placement, a # b PROVE Apart(m[a], m[b])
        OBVIOUS
      <4>1. CASE a # z /\ b # z
        BY <2>2, <2>4, <4>1
      <4>2. CASE a = z
        BY <2>4, <2>6, <2>8, <4>2 DEF Apart
      <4>3. CASE b = z
        BY <2>4, <2>6, <2>8, <4>3 DEF Apart
      <4> QED BY <4>1, <4>2, <4>3
    <3> QED BY <2>5, <3>1, <3>2
  <2>11. n \in placement' /\ \A a \in placement : m[a] \in placement'
    BY <2>5
  <2>12. ASSUME NEW d \in Day, d >= today PROVE \E x \in placement' : covers(x, d)
    <3>1. PICK a \in placement : covers(a, d)
      BY <2>2, <2>12
    <3>2. CASE a # z
      BY <2>4, <2>11, <3>1, <3>2
    <3>3. CASE a = z
      <4>1. d \in Nat /\ d < Open
        BY DayNumbers
      <4>2. covers(m[z], d) \/ covers(n, d)
        BY <2>1, <2>3, <2>6, <3>1, <3>3, <4>1 DEF covers
      <4> QED BY <2>11, <4>2
    <3> QED BY <3>2, <3>3
  <2>13. \E x \in placement' : x.to = Open
    BY <2>1, <2>11
  <2>14. \A d \in Day : d >= today' => \E x \in placement' : covers(x, d)
    BY <2>12
  <2> QED BY <1>0, <2>9, <2>10, <2>13, <2>14 DEF PlacesOK
<1> QED BY <1>1, <1>2

(* A department move. *)
LEMMA MoveCommits ==
  ASSUME WfInv, NEW c \in Clerk, MoveCommit(c)
  PROVE  WfInv'
<1>1. PICK t : t = desk[c]
  OBVIOUS
<1>2. /\ t.pc = "move" /\ desk' = Goes(desk, c, Idle)
      /\ UNCHANGED <<today, employee, account, face_template, photo, crossed, cuts>>
      /\ UNCHANGED <<placement, wage>> \/ \E m, n, i : Moved(t, m, n, i)
  BY <1>1, MoveWrites
<1>3. t # Idle /\ DeskOK(t) /\ desk[c] # Idle
  BY <1>1, <1>2 DEF WfInv, DesksOK, Idle
<1>4. (Hired' <=> Hired) /\ (Ended' <=> Ended) /\ (Linked' <=> Linked) /\ Hired
  BY <1>2, <1>3 DEF Hired, Ended, Linked, DeskOK
<1>5. RowsOK' /\ RatesOK' /\ PlacesOK' /\ AccountOK' /\ Keeps
  <2>1. CASE UNCHANGED <<placement, wage>>
    BY <1>2, <1>4, <2>1, RowsSame
  <2>2. CASE \E m, n, i : Moved(t, m, n, i)
    <3>1. PICK m, n, i : Moved(t, m, n, i)
      BY <2>2
    <3>2. RowsOK' /\ RatesOK' /\ PlacesOK'
      BY <1>2, <1>3, <3>1, MoveKeepsRows, MoveKeepsRates, MoveKeepsPlaces
    <3>3. AccountOK'
      BY <1>2, <1>4 DEF WfInv, AccountOK, SeparatedCannotSignIn
    <3>4. \A a \in placement : \E b \in placement' : b.id = a.id /\ b.from = a.from
      <4>1. \A a \in placement : m[a].id = a.id /\ m[a].from = a.from
        BY <1>2, <1>3, <3>1, MoveRows
      <4>2. placement' = {m[a] : a \in placement} \cup {n}
        BY <3>1 DEF Moved
      <4> QED BY <4>1, <4>2
    <3>5. Keeps
      BY <1>2, <1>4, <3>4 DEF Keeps
    <3> QED BY <3>2, <3>3, <3>5
  <2> QED BY <1>2, <2>1, <2>2
<1>8. DeskOK(Idle)'
  BY DEF DeskOK, Idle
<1>9. employee' \in EmployeeRow /\ (~crossed /\ Ended' => employee'.status = "terminated" /\ Ended)
  BY <1>2, <1>4 DEF WfInv, FaceOK
<1> QED BY <1>1, <1>2, <1>3, <1>5, <1>8, <1>9, PlainStep

(* Every step keeps the invariant. *)
LEMMA WfInvStep == ASSUME WfInv, [WfNext]_wfVars PROVE WfInv'
<1>1. CASE UNCHANGED wfVars
  <2>1. UNCHANGED <<today, employee, placement, wage, account, face_template, photo, desk, cuts, crossed>>
    BY <1>1 DEF wfVars
  <2>2. RowsOK' /\ RatesOK' /\ PlacesOK' /\ AccountOK' /\ (Hired' <=> Hired) /\ (Ended' <=> Ended) /\ (Linked' <=> Linked)
    BY <2>1, RowsSame
  <2>3. FaceOK'
    BY <2>1, <2>2 DEF WfInv, FaceOK
  <2>4. \A t : DeskOK(t) => DeskOK(t)'
    BY <2>1, <2>2 DEF DeskOK, OpenRate
  <2>5. DesksOK'
    BY <2>1, <2>2, <2>4 DEF WfInv, DesksOK
  <2> QED BY <2>2, <2>3, <2>5 DEF WfInv
<1>2. ASSUME NEW c \in Clerk, NEW operator \in BOOLEAN, onboard(c, operator) PROVE WfInv'
  BY <1>2, OnboardBegins
<1>3. ASSUME NEW c \in Clerk, NEW dept \in Dept, onboard_employee(c, dept) PROVE WfInv'
  BY <1>3, OnboardCommits
<1>4. ASSUME NEW c \in Clerk, NEW amount \in Wage, NEW d \in Day, set_pay_rate(c, amount, d) PROVE WfInv'
  BY <1>4, RaiseBegins
<1>5. ASSUME NEW c \in Clerk, NEW status \in {"active", "leave"}, patch_employee(c, status) PROVE WfInv'
  BY <1>5, PatchBegins
<1>6. ASSUME NEW c \in Clerk, NEW dept \in Dept, NEW d \in Day, _move_department(c, dept, d) PROVE WfInv'
  BY <1>6, MoveBegins
<1>7. ASSUME NEW c \in Clerk, RaiseCommit(c) \/ PatchCommit(c) \/ MoveCommit(c) PROVE WfInv'
  BY <1>7, RaiseCommits, PatchCommits, MoveCommits
<1>8. ASSUME NEW c \in Clerk, terminate(c) \/ disable_user(c) \/ TerminateReads(c) \/ terminate_employee(c) PROVE WfInv'
  BY <1>8, TerminateBegins, DisableStep, ReadsStep, TerminateCommits
<1>9. ASSUME NEW c \in Clerk, enroll_face_template(c) \/ write_face_template(c) \/ EnrollCommit(c) PROVE WfInv'
  BY <1>9, EnrollBegins, PhotoStep, EnrollCommits
<1>10. ASSUME NEW c \in Clerk, CutOff(c) PROVE WfInv'
  BY <1>10, CutStep
<1>11. CASE delete_face_template
  BY <1>11, DeleteStep
<1>12. CASE Midnight
  BY <1>12, MidnightStep
<1> QED BY <1>1, <1>2, <1>3, <1>4, <1>5, <1>6, <1>7, <1>8, <1>9, <1>10, <1>11, <1>12 DEF WfNext

(* Whatever requests overlap, die or follow each other: an employee has one *)
(* placement and one rate of a day, no day without one until a separation,  *)
(* and a separation takes the account that the employee's row names, the    *)
(* template and the photo; an account no row names is what a request that   *)
(* was cut off left (usali/workforce.py, onboarding.py, face_enrollment.py).*)
THEOREM EmployedIsSafe == WfSpec => []WorkforceSafe
<1>1. WfInit => WfInv
  BY WfInitInv
<1>2. WfInv /\ [WfNext]_wfVars => WfInv'
  BY WfInvStep
<1>3. WfInv => WorkforceSafe
  BY WfInvSafe
<1> QED BY <1>1, <1>2, <1>3, PTL DEF WfSpec

-----------------------------------------------------------------------------
(* The price of a day *)

(* A placement in force and a rate of it price a day. *)
LEMMA PricedBy ==
  ASSUME NEW d
  PROVE  Price(d) # {} <=> \E a \in placement, r \in wage :
                              in_effect_on(a, d) /\ a.property = "here" /\ r.id = a.id /\ covers(r, d)
<1>1. ASSUME NEW r PROVE r \in Price(d) <=>
                 r \in wage /\ \E a \in placement : in_effect_on(a, d) /\ a.property = "here" /\ r.id = a.id /\ covers(r, d)
  BY DEF Price, _stored_rate, assignment_at, assignments_on
<1> QED BY <1>1

(* The same after a step. *)
LEMMA PricedNext ==
  ASSUME NEW d, NEW a \in placement', NEW r \in wage',
         in_effect_on(a, d), a.property = "here", r.id = a.id, covers(r, d)
  PROVE  Price(d)' # {}
<1>1. r \in Price(d)'
  BY DEF Price, _stored_rate, assignment_at, assignments_on
<1> QED BY <1>1

(* A raise hands the days from its first one on to the rate it opens. *)
LEMMA RaiseKeepsPrice ==
  ASSUME WfInv, NEW c \in Clerk, RaiseCommit(c), NEW d \in Day, Price(d) # {}
  PROVE  Price(d)' # {}
<1>1. PICK t : t = desk[c]
  OBVIOUS
<1>2. t.pc = "raise" /\ placement' = placement /\ (wage' = wage \/ \E m, n : Raised(t, m, n))
  BY <1>1, RaiseWrites
<1>3. DeskOK(t)
  BY <1>1 DEF WfInv, DesksOK
<1>4. PICK a \in placement, r \in wage :
          in_effect_on(a, d) /\ a.property = "here" /\ r.id = a.id /\ covers(r, d)
  BY PricedBy
<1>5. CASE wage' = wage
  BY <1>2, <1>4, <1>5, PricedNext
<1>6. CASE \E m, n : Raised(t, m, n)
  <2>1. PICK m, n : Raised(t, m, n)
    BY <1>6
  <2>2. /\ n.id = t.id /\ n.from = t.effective /\ n.to = Open
        /\ m[r] \in RateRow /\ m[r].id = r.id /\ m[r].from = r.from
        /\ r.id # t.id => m[r] = r
        /\ m[r] = r \/ (r.to = Open /\ m[r].to = t.effective)
    BY <1>2, <1>3, <2>1, RaiseRates
  <2>3. n \in wage' /\ m[r] \in wage' /\ a \in placement'
    BY <1>2, <2>1 DEF Raised
  <2>4. d \in Nat /\ d < Open /\ t.effective \in Nat
    BY <1>2, <1>3, DayNumbers DEF DeskOK
  <2>5. CASE covers(m[r], d)
    BY <1>4, <2>2, <2>3, <2>5, PricedNext
  <2>6. CASE ~covers(m[r], d)
    <3>1. r.id = t.id /\ m[r].to = t.effective
      BY <1>4, <2>2, <2>6
    <3>2. covers(n, d)
      BY <1>4, <2>2, <2>4, <2>6, <3>1 DEF covers
    <3> QED BY <1>4, <2>2, <2>3, <3>1, <3>2, PricedNext
  <2> QED BY <2>5, <2>6
<1> QED BY <1>2, <1>5, <1>6

(* A move hands them on to the new placement, with the rate it carries. *)
LEMMA MoveKeepsPrice ==
  ASSUME WfInv, NEW c \in Clerk, MoveCommit(c), ~crossed, NEW d \in Day, Price(d) # {}
  PROVE  Price(d)' # {}
<1>1. PICK t : t = desk[c]
  OBVIOUS
<1>2. t.pc = "move" /\ (UNCHANGED <<placement, wage>> \/ \E m, n, i : Moved(t, m, n, i))
  BY <1>1, MoveWrites
<1>3. DeskOK(t)
  BY <1>1 DEF WfInv, DesksOK
<1>4. PICK a \in placement, r \in wage :
          in_effect_on(a, d) /\ a.property = "here" /\ r.id = a.id /\ covers(r, d)
  BY PricedBy
<1>5. CASE UNCHANGED <<placement, wage>>
  BY <1>4, <1>5, PricedNext
<1>6. CASE \E m, n, i : Moved(t, m, n, i)
  <2>1. PICK m, n, i : Moved(t, m, n, i)
    BY <1>6
  <2>2. /\ n \in PlacementRow /\ n.id = i /\ n.from = t.effective /\ n.to = Open /\ n.active
        /\ t.effective \in Day
        /\ m[a] \in PlacementRow /\ m[a].id = a.id /\ m[a].from = a.from
        /\ a.id # t.id => m[a] = a
        /\ a.id = t.id => m[a].to = t.effective
    BY <1>2, <1>3, <2>1, MoveRows
  <2>3. n \in placement' /\ m[a] \in placement' /\ r \in wage'
    BY <2>1 DEF Moved
  <2>4. d \in Nat /\ d < Open /\ t.effective \in Nat /\ t.effective # Open
    <3>1. \A e \in Day : e \in Nat /\ e < Open /\ e # Open
      BY DaysAssumption DEF Day, Open
    <3> QED BY <2>2, <3>1
  <2>5. m[a].property = "here" /\ n.property = "here"
    BY <2>2 DEF PlacementRow
  <2>6. CASE a.id # t.id
    BY <1>4, <2>2, <2>3, <2>6, PricedNext
  <2>7. CASE a.id = t.id /\ d < t.effective
    <3>1. in_effect_on(m[a], d)
      BY <1>4, <2>2, <2>4, <2>7 DEF in_effect_on, covers
    <3> QED BY <1>4, <2>2, <2>3, <2>5, <3>1, PricedNext
  <2>8. CASE a.id = t.id /\ ~(d < t.effective)
    <3>1. in_effect_on(n, d)
      BY <2>2, <2>4, <2>8 DEF in_effect_on, covers
    <3>2. PICK s \in OpenRate(t.id) : TRUE
      BY <1>4, <2>8, OneOpenRate DEF WfInv
    <3>3. s.amount \in t.carried
      BY <1>2, <1>3, <3>2 DEF DeskOK
    <3>4. PICK q : q = Rated(i, s.amount, t.effective, Open)
      OBVIOUS
    <3>5. q \in wage'
      BY <2>1, <3>3, <3>4 DEF Moved
    <3>6. q.id = n.id /\ covers(q, d)
      BY <2>2, <2>4, <2>8, <3>4 DEF Rated, covers
    <3> QED BY <2>3, <2>5, <3>1, <3>5, <3>6, PricedNext
  <2> QED BY <2>6, <2>7, <2>8
<1> QED BY <1>2, <1>5, <1>6

(* A separation ends no row before the day after its last one. *)
LEMMA TerminateKeepsPrice ==
  ASSUME WfInv, NEW c \in Clerk, terminate_employee(c), ~crossed, NEW d \in Day, d <= today, Price(d) # {}
  PROVE  Price(d)' # {}
<1>1. PICK t : t = desk[c]
  OBVIOUS
<1>2. t.pc = "terminate" /\ wage' = wage /\ placement' = {EndedRow(a, t) : a \in placement}
  BY <1>1 DEF terminate_employee, At
<1>3. t.on \in Day /\ t.on = today /\ t.rows \subseteq placement
  BY <1>1, <1>2 DEF WfInv, DesksOK, DeskOK
<1>4. PICK a \in placement, r \in wage :
          in_effect_on(a, d) /\ a.property = "here" /\ r.id = a.id /\ covers(r, d)
  BY PricedBy
<1>5. PICK b : b = EndedRow(a, t)
  OBVIOUS
<1>6. b \in placement'
  BY <1>2, <1>5
<1>7. a \in PlacementRow /\ \A x \in placement : x.id = a.id => x = a
  BY DEF WfInv, RowsOK
<1>8. b.id = a.id /\ b.property = "here" /\ in_effect_on(b, d)
  <2>1. CASE ~\E x \in t.rows : x.id = a.id
    BY <1>4, <1>5, <2>1 DEF EndedRow
  <2>2. CASE \E x \in t.rows : x.id = a.id
    <3>1. PICK q : q = CHOOSE x \in t.rows : x.id = a.id
      OBVIOUS
    <3>2. q = a
      BY <1>3, <1>7, <2>2, <3>1
    <3>3. PICK last : last = IF LastDay(a, t.on) = a.to THEN a.to ELSE LastDay(a, t.on)
      OBVIOUS
    <3>4. b = [a EXCEPT !.active = FALSE, !.to = last]
      BY <1>5, <2>2, <3>1, <3>2, <3>3 DEF EndedRow
    <3>5. b.id = a.id /\ b.property = "here" /\ b.from = a.from /\ b.to = last
      BY <1>4, <1>7, <3>4 DEF PlacementRow
    <3>6. d \in Nat /\ t.on \in Nat /\ t.on < Open /\ a.to \in Nat /\ d <= t.on /\ t.on + 1 # Open /\ a.from \in Nat
      <4>1. \A e \in Day : e \in Nat /\ e < Open /\ e + 1 # Open
        BY DaysAssumption DEF Day, Open
      <4>2. a.to \in Nat /\ a.from \in Nat
        BY <1>7, DayNumbers DEF PlacementRow
      <4> QED BY <1>1, <1>3, <4>1, <4>2
    <3>7. last # Open /\ d < last
      BY <1>4, <3>3, <3>6 DEF LastDay, in_effect_on, covers, Open
    <3> QED BY <1>4, <3>5, <3>7 DEF in_effect_on, covers
  <2> QED BY <2>1, <2>2
<1> QED BY <1>2, <1>4, <1>6, <1>8, PricedNext

(* No step of one request alone takes the price of a day worked. *)
LEMMA PriceStep ==
  ASSUME WfInv, [WfNext]_wfVars, ~crossed, NEW d \in 1..today, Price(d) # {}
  PROVE  Price(d)' # {}
<1>1. d \in Day /\ d <= today
  BY DaysAssumption DEF WfInv, FaceOK, Day
<1>2. CASE UNCHANGED <<placement, wage>>
  BY <1>2, PricedBy, PricedNext
<1>3. ASSUME NEW c \in Clerk, NEW dept \in Dept, onboard_employee(c, dept) PROVE FALSE
  <2>1. ~Hired /\ wage = {}
    BY <1>3 DEF onboard_employee, At, WfInv, DesksOK, DeskOK, PlacesOK
  <2> QED BY <2>1, PricedBy
<1>4. ASSUME NEW c \in Clerk, RaiseCommit(c) \/ MoveCommit(c) \/ terminate_employee(c) PROVE Price(d)' # {}
  BY <1>1, <1>4, RaiseKeepsPrice, MoveKeepsPrice, TerminateKeepsPrice
<1>5. ASSUME NEW c \in Clerk,
             \/ \E operator \in BOOLEAN : onboard(c, operator)
             \/ \E amount \in Wage, e \in Day : set_pay_rate(c, amount, e)
             \/ \E status \in {"active", "leave"} : patch_employee(c, status)
             \/ \E dept \in Dept, e \in Day : _move_department(c, dept, e)
             \/ PatchCommit(c) \/ terminate(c) \/ disable_user(c) \/ TerminateReads(c)
             \/ enroll_face_template(c) \/ write_face_template(c) \/ EnrollCommit(c) \/ CutOff(c)
      PROVE  UNCHANGED <<placement, wage>>
  BY <1>5 DEF onboard, set_pay_rate, patch_employee, _move_department, PatchCommit, terminate, disable_user,
              TerminateReads, enroll_face_template, write_face_template, EnrollCommit, CutOff
<1>6. CASE delete_face_template \/ Midnight \/ UNCHANGED wfVars
  BY <1>2, <1>6 DEF delete_face_template, Midnight, wfVars
<1> QED BY <1>2, <1>3, <1>4, <1>5, <1>6 DEF WfNext

(* No raise, move or separation un-prices a day already worked, dated into  *)
(* the past or the future as it may be: the half-open closes of             *)
(* set_pay_rate and _move_department, the rate a move carries, the          *)
(* exclusive end of terminate_employee.                                     *)
THEOREM WorkedStaysPriced == WfSpec => WorkedDayStaysPriced
<1> DEFINE Keep == ~crossed => \A d \in 1..today : Price(d) # {} => Price(d)' # {}
<1>1. WfInit => WfInv
  BY WfInitInv
<1>2. WfInv /\ [WfNext]_wfVars => WfInv'
  BY WfInvStep
<1>3. WfInv /\ [WfNext]_wfVars => [Keep]_wfVars
  BY PriceStep
<1> QED BY <1>1, <1>2, <1>3, PTL DEF WfSpec, WorkedDayStaysPriced

-----------------------------------------------------------------------------
(* The schedule *)

(* A shift of a week, within a day of its start. *)
Timed(m, b) ==
    /\ b.date \in Days(m) /\ b.start \in Int /\ b.end \in Int
    /\ 0 <= b.start /\ b.start < DayTicks /\ b.start < b.end /\ b.end <= b.start + DayTicks
    /\ b.who \in Crew \cup {OpenShift}

ShiftOK(s) ==
    /\ s.id \in 1..added /\ s.week \in Monday /\ week[s.week].made
    /\ Timed(s.week, s) /\ (s.tpl # NoTemplate => template)

WeeksOK ==
    /\ week \in [Monday -> [made : BOOLEAN, version : Nat]] /\ audits \in [Monday -> Nat]
    /\ added \in Nat /\ template \in BOOLEAN /\ raced \in BOOLEAN
    /\ \A m \in Monday : audits[m] > 0 => week[m].made

(* Nobody is booked across b, but for the row that b replaces. *)
Free(b, id) ==
    b.who # OpenShift => \A s \in shift : s.who = b.who /\ s.id # id => ~shifts_overlap(b, s)

(* A request between its two steps: the week is still there, what it would  *)
(* book is free while no other edit runs, and a version read under the lock *)
(* is the week's.                                                           *)
PlanOK(t) ==
    /\ t.pc \in {"idle", "create", "add", "update", "publish", "locked"}
    /\ t.pc # "idle" => t.week \in Monday
    /\ t.pc \in {"add", "update", "publish", "locked"} => week[t.week].made
    /\ t.pc \in Editing => Timed(t.week, t.body)
    /\ t.pc = "add" /\ ~raced => Free(t.body, 0)
    /\ t.pc = "update" /\ ~raced => Free(t.body, t.id)
    /\ t.pc = "locked" => t.seen = week[t.week].version

(* Two edits at once have raced, and two publishes hold different weeks. *)
BesideOK(t, u, both) ==
    /\ t.pc \in Editing /\ u.pc \in Editing => both
    /\ t.pc = "locked" /\ u.pc = "locked" => t.week # u.week

PlansOK ==
    /\ DOMAIN counter = Planner
    /\ \A p \in Planner : \A t \in {counter[p]} : PlanOK(t)
    /\ \A p, q \in Planner : p # q => BesideOK(counter[p], counter[q], raced)

BookedOK ==
    /\ \A s \in shift : ShiftOK(s)
    /\ \A s, t \in shift : s.id = t.id => s = t

ScInv == WeeksOK /\ BookedOK /\ PlansOK /\ NoDoubleBooking /\ VersionsAreCounted

(* An empty schedule. *)
LEMMA ScInitInv == ASSUME ScInit PROVE ScInv
<1>1. WeeksOK
  <2>1. template \in BOOLEAN /\ raced \in BOOLEAN
    BY Zenon DEF ScInit
  <2> QED BY <2>1 DEF ScInit, WeeksOK, NoneYet
<1>2. BookedOK /\ NoDoubleBooking
  BY DEF ScInit, BookedOK, NoDoubleBooking
<1>3. \A p \in Planner : counter[p].pc = "idle"
  BY DEF ScInit, Idle
<1>4. PlansOK
  BY <1>3 DEF ScInit, PlansOK, PlanOK, BesideOK, Editing
<1>5. VersionsAreCounted
  BY DEF ScInit, VersionsAreCounted, NoneYet
<1> QED BY <1>1, <1>2, <1>4, <1>5 DEF ScInv

(* The invariant has the four properties in it. *)
LEMMA ScInvSafe == ASSUME ScInv PROVE SchedulingSafe
<1>1. ScTypeOK
  BY DEF ScInv, BookedOK, ShiftOK, Timed, ScTypeOK
<1>2. ReferencesHold
  BY DEF ScInv, BookedOK, ShiftOK, WeeksOK, ReferencesHold
<1> QED BY <1>1, <1>2 DEF ScInv, SchedulingSafe

(* Who starts two days later starts after the first has ended. *)
LEMMA DaysApart ==
  ASSUME NEW x \in Int, NEW y \in Int, x + 2 <= y, NEW D \in Nat, NEW a \in Int, NEW b \in Int,
         0 <= b, a < 2 * D
  PROVE  x * D + a < y * D + b
<1>1. PICK k \in Nat : y = x + 2 + k
  <2>1. y - (x + 2) \in Nat /\ y = x + 2 + (y - (x + 2))
    OBVIOUS
  <2> QED BY <2>1
<1>2. y * D = x * D + 2 * D + k * D
  BY <1>1
<1>3. k * D \in Nat /\ x * D \in Int
  OBVIOUS
<1> QED BY <1>2, <1>3

(* A shift two weeks away never overlaps. *)
LEMMA WeeksApart ==
  ASSUME NEW m \in Monday, NEW n \in Monday, NEW a, NEW b, Timed(m, a), Timed(n, b),
         n \notin Searched(m)
  PROVE  ~shifts_overlap(a, b)
<1>1. /\ m \in Int /\ n \in Int /\ WeekLen \in Nat /\ WeekLen > 0 /\ DayTicks \in Nat
      /\ m + 2 * WeekLen <= n \/ n + 2 * WeekLen <= m
  BY ScheduleConstants DEF Searched
<1>2. /\ a.date \in Int /\ m <= a.date /\ a.date <= m + WeekLen - 1
      /\ b.date \in Int /\ n <= b.date /\ b.date <= n + WeekLen - 1
  BY <1>1 DEF Timed, Days
<1>3. /\ a.start \in Int /\ a.end \in Int /\ 0 <= a.start /\ a.end < 2 * DayTicks
      /\ b.start \in Int /\ b.end \in Int /\ 0 <= b.start /\ b.end < 2 * DayTicks
  BY <1>1 DEF Timed
<1>4. CASE a.date + 2 <= b.date
  <2>1. Ends(a) < Begins(b)
    BY <1>1, <1>2, <1>3, <1>4, DaysApart DEF Ends, Begins
  <2>2. Ends(a) \in Int /\ Begins(b) \in Int
    BY <1>1, <1>2, <1>3 DEF Ends, Begins
  <2> QED BY <2>1, <2>2 DEF shifts_overlap
<1>5. CASE b.date + 2 <= a.date
  <2>1. Ends(b) < Begins(a)
    BY <1>1, <1>2, <1>3, <1>5, DaysApart DEF Ends, Begins
  <2>2. Ends(b) \in Int /\ Begins(a) \in Int
    BY <1>1, <1>2, <1>3 DEF Ends, Begins
  <2> QED BY <2>1, <2>2 DEF shifts_overlap
<1> QED BY <1>1, <1>2, <1>4, <1>5

(* What was validated is free, in whatever week. *)
LEMMA Validated ==
  ASSUME BookedOK, NEW m \in Monday, NEW b, Timed(m, b), NEW id, _validate_shift(m, b, id)
  PROVE  Free(b, id) /\ week[m].made
BY WeeksApart DEF _validate_shift, Free, BookedOK, ShiftOK

(* A body the portal sends. *)
LEMMA BodyTimed ==
  ASSUME BookedOK, NEW m \in Monday, NEW d, NEW slot \in Slot, NEW who \in Crew \cup {OpenShift}, NEW tpl,
         NEW id, _validate_shift(m, Body(d, slot, who, tpl), id)
  PROVE  Timed(m, Body(d, slot, who, tpl))
<1>1. /\ Body(d, slot, who, tpl).date = d /\ Body(d, slot, who, tpl).start = slot[1]
      /\ Body(d, slot, who, tpl).end = slot[2] /\ Body(d, slot, who, tpl).who = who
  BY DEF Body
<1>2. slot[1] \in 0..(DayTicks - 1) /\ slot[2] \in (slot[1] + 1)..(slot[1] + DayTicks) /\ DayTicks \in Nat
  BY ScheduleConstants
<1>3. d \in Days(m)
  BY <1>1 DEF _validate_shift
<1> QED BY <1>1, <1>2, <1>3 DEF Timed

-----------------------------------------------------------------------------
(* Steps of a plan *)

(* Weeks stay, versions of a week somebody holds too, and no booking is     *)
(* added unless edits may have raced.                                       *)
Eases(t) ==
    /\ \A m \in Monday : week[m].made => week'[m].made
    /\ t.pc = "locked" => week'[t.week].version = week[t.week].version
    /\ raced => raced'
    /\ t.pc \in Editing /\ ~raced' => shift' \subseteq shift

(* A request that stands still is as good as it was. *)
LEMMA PlanKept ==
  ASSUME NEW t, PlanOK(t), Eases(t)
  PROVE  PlanOK(t)'
<1>1. t.pc \in Editing /\ ~raced' => \A b, id : Free(b, id) => Free(b, id)'
  BY DEF Eases, Free
<1>2. t.pc = "add" /\ ~raced' => Free(t.body, 0)'
  BY <1>1 DEF PlanOK, Eases, Editing
<1>3. t.pc = "update" /\ ~raced' => Free(t.body, t.id)'
  BY <1>1 DEF PlanOK, Eases, Editing
<1>4. t.pc \in {"add", "update", "publish", "locked"} => week'[t.week].made
  BY DEF PlanOK, Eases
<1>5. t.pc = "locked" => t.seen = week'[t.week].version
  BY DEF PlanOK, Eases
<1> QED BY <1>2, <1>3, <1>4, <1>5 DEF PlanOK

(* One request goes on. *)
LEMMA PlansStep ==
  ASSUME ScInv, NEW p \in Planner, NEW k, counter' = Goes(counter, p, k), PlanOK(k)',
         \A q \in Planner \ {p} : Eases(counter[q]) /\ BesideOK(k, counter[q], raced'),
         raced => raced'
  PROVE  PlansOK'
<1>1. DOMAIN counter' = Planner /\ counter'[p] = k /\ \A q \in Planner \ {p} : counter'[q] = counter[q]
  BY DEF ScInv, PlansOK, Goes
<1>2. ASSUME NEW q \in Planner, NEW t, t = counter'[q] PROVE PlanOK(t)'
  <2>1. CASE q = p
    BY <1>1, <1>2, <2>1
  <2>2. CASE q # p
    <3>1. PlanOK(t) /\ Eases(t)
      BY <1>1, <1>2, <2>2 DEF ScInv, PlansOK
    <3> QED BY <3>1, PlanKept
  <2> QED BY <2>1, <2>2
<1>3. \A q, r \in Planner : q # r => BesideOK(counter'[q], counter'[r], raced')
  BY <1>1 DEF ScInv, PlansOK, BesideOK
<1> QED BY <1>1, <1>2, <1>3 DEF PlansOK

(* A request that has read begins. *)
LEMMA StartsStep ==
  ASSUME ScInv, NEW p \in Planner, NEW k, Starts(p, k), UNCHANGED <<rest, shift, added>>,
         PlanOK(k), k.pc # "locked"
  PROVE  ScInv'
<1>1. /\ counter' = Goes(counter, p, k) /\ UNCHANGED <<week, audits, template, ended, shift, added>>
      /\ raced' = (raced \/ (k.pc \in Editing /\ \E x \in Planner : counter[x].pc \in Editing))
  BY DEF Starts, rest
<1>2. raced' \in BOOLEAN /\ (raced => raced')
  BY <1>1, Zenon
<1>3. PlanOK(k)'
  BY <1>1, <1>2 DEF PlanOK, Free
<1>4. \A q \in Planner \ {p} : Eases(counter[q]) /\ BesideOK(k, counter[q], raced')
  BY <1>1, <1>2 DEF Eases, BesideOK
<1>5. PlansOK'
  BY <1>1, <1>2, <1>3, <1>4, PlansStep
<1>6. WeeksOK' /\ VersionsAreCounted' /\ NoDoubleBooking'
  BY <1>1, <1>2 DEF ScInv, WeeksOK, VersionsAreCounted, NoDoubleBooking
<1>7. BookedOK'
  BY <1>1 DEF ScInv, BookedOK, ShiftOK
<1> QED BY <1>5, <1>6, <1>7 DEF ScInv

(* Creating a week, and publishing one, read its row first. *)
LEMMA WeekBegins ==
  ASSUME ScInv, NEW p \in Planner, NEW m \in Monday, create_week(p, m) \/ publish_week(p, m)
  PROVE  ScInv'
<1>1. CASE create_week(p, m)
  <2>1. PICK k : k = [pc |-> "create", week |-> m]
    OBVIOUS
  <2>2. PlanOK(k) /\ k.pc # "locked"
    BY <2>1 DEF PlanOK, Editing
  <2> QED BY <1>1, <2>1, <2>2, StartsStep DEF create_week
<1>2. CASE publish_week(p, m)
  <2>1. PICK k : k = [pc |-> "publish", week |-> m, seen |-> week[m].version]
    OBVIOUS
  <2>2. PlanOK(k) /\ k.pc # "locked"
    BY <1>2, <2>1 DEF PlanOK, Editing, publish_week
  <2> QED BY <1>2, <2>1, <2>2, StartsStep DEF publish_week
<1> QED BY <1>1, <1>2

(* Adding and moving a shift validate it first. *)
LEMMA AddBegins ==
  ASSUME ScInv, NEW p \in Planner, NEW m \in Monday, NEW d, NEW slot \in Slot,
         NEW who \in Crew \cup {OpenShift}, NEW tpl, add_shift(p, m, Body(d, slot, who, tpl))
  PROVE  ScInv'
<1>1. PICK b : b = Body(d, slot, who, tpl)
  OBVIOUS
<1>2. PICK k : k = [pc |-> "add", week |-> m, body |-> b]
  OBVIOUS
<1>3. _validate_shift(m, b, 0) /\ Starts(p, k) /\ UNCHANGED <<rest, shift, added>>
  BY <1>1, <1>2 DEF add_shift
<1>4. Timed(m, b)
  BY <1>1, <1>3, BodyTimed DEF ScInv
<1>5. Free(b, 0) /\ week[m].made
  BY <1>3, <1>4, Validated DEF ScInv
<1>6. PlanOK(k) /\ k.pc # "locked"
  BY <1>2, <1>4, <1>5 DEF PlanOK, Editing
<1> QED BY <1>3, <1>6, StartsStep

(* A PUT leaves out its own row. *)
LEMMA UpdateBegins ==
  ASSUME ScInv, NEW p \in Planner, NEW s \in shift, NEW d, NEW slot \in Slot,
         NEW who \in Crew \cup {OpenShift}, NEW tpl, update_shift(p, s, Body(d, slot, who, tpl))
  PROVE  ScInv'
<1>1. PICK b : b = Body(d, slot, who, tpl)
  OBVIOUS
<1>2. PICK k : k = [pc |-> "update", id |-> s.id, week |-> s.week, body |-> b]
  OBVIOUS
<1>3. _validate_shift(s.week, b, s.id) /\ Starts(p, k) /\ UNCHANGED <<rest, shift, added>> /\ s.week \in Monday
  BY <1>1, <1>2 DEF update_shift, ScInv, BookedOK, ShiftOK
<1>4. Timed(s.week, b)
  BY <1>1, <1>3, BodyTimed DEF ScInv
<1>5. Free(b, s.id) /\ week[s.week].made
  BY <1>3, <1>4, Validated DEF ScInv
<1>6. PlanOK(k) /\ k.pc # "locked"
  BY <1>2, <1>3, <1>4, <1>5 DEF PlanOK, Editing
<1> QED BY <1>3, <1>6, StartsStep

(* A request that ends. *)
LEMMA StopsStep ==
  ASSUME ScInv, NEW p \in Planner, Stops(p), \A q \in Planner \ {p} : Eases(counter[q])
  PROVE  PlansOK' /\ raced' = raced
<1>1. counter' = Goes(counter, p, Idle) /\ raced' = raced
  BY DEF Stops
<1>2. Idle.pc = "idle"
  BY DEF Idle
<1>3. PlanOK(Idle)' /\ \A q \in Planner \ {p} : BesideOK(Idle, counter[q], raced')
  BY <1>2 DEF PlanOK, BesideOK, Editing
<1> QED BY <1>1, <1>3, PlansStep

(* The week's row is inserted, or was there. *)
LEMMA CreateCommits ==
  ASSUME ScInv, NEW p \in Planner, CreateCommit(p)
  PROVE  ScInv'
<1>1. PICK m : m = counter[p].week
  OBVIOUS
<1>2. /\ counter[p].pc = "create" /\ week' = [week EXCEPT ![m].made = TRUE] /\ Stops(p)
      /\ UNCHANGED <<audits, template, ended, shift, added>>
  BY <1>1 DEF CreateCommit, At
<1>3. week \in [Monday -> [made : BOOLEAN, version : Nat]]
  BY DEF ScInv, WeeksOK
<1>4. /\ week' \in [Monday -> [made : BOOLEAN, version : Nat]]
      /\ \A x \in Monday : week'[x].version = week[x].version /\ (week[x].made => week'[x].made)
  BY <1>2, <1>3
<1>5. raced' = raced
  BY <1>2 DEF Stops
<1>6. \A q \in Planner \ {p} : Eases(counter[q])
  BY <1>2, <1>4, <1>5 DEF Eases, ScInv, PlansOK, PlanOK
<1>7. PlansOK'
  BY <1>2, <1>6, StopsStep
<1>8. WeeksOK' /\ VersionsAreCounted' /\ NoDoubleBooking'
  BY <1>2, <1>4, <1>5 DEF ScInv, WeeksOK, VersionsAreCounted, NoDoubleBooking
<1>9. BookedOK'
  BY <1>2, <1>4 DEF ScInv, BookedOK, ShiftOK
<1> QED BY <1>7, <1>8, <1>9 DEF ScInv

(* The lock is taken, and the row read again under it. *)
LEMMA LockStep ==
  ASSUME ScInv, NEW p \in Planner, _publish_lock_stmt(p)
  PROVE  ScInv'
<1>1. PICK t : t = counter[p]
  OBVIOUS
<1>2. PICK k : k = [pc |-> "locked", week |-> t.week, seen |-> week[t.week].version]
  OBVIOUS
<1>3. /\ t.pc = "publish" /\ counter' = Goes(counter, p, k)
      /\ UNCHANGED <<week, audits, template, ended, shift, added, raced>>
      /\ \A q \in Planner : counter[q].pc = "locked" => counter[q].week # t.week
  BY <1>1, <1>2 DEF _publish_lock_stmt, At, Refreshed, rest
<1>4. t.week \in Monday /\ week[t.week].made
  BY <1>1, <1>3 DEF ScInv, PlansOK, PlanOK
<1>5. PlanOK(k)'
  BY <1>2, <1>3, <1>4 DEF PlanOK, Editing
<1>6. \A q \in Planner \ {p} : Eases(counter[q]) /\ BesideOK(k, counter[q], raced')
  BY <1>2, <1>3 DEF Eases, BesideOK, Editing
<1>7. PlansOK'
  BY <1>3, <1>5, <1>6, PlansStep
<1>8. WeeksOK' /\ VersionsAreCounted' /\ NoDoubleBooking'
  BY <1>3 DEF ScInv, WeeksOK, VersionsAreCounted, NoDoubleBooking
<1>9. BookedOK'
  BY <1>3 DEF ScInv, BookedOK, ShiftOK
<1> QED BY <1>7, <1>8, <1>9 DEF ScInv

(* The version and its audit row are counted together, nobody between. *)
LEMMA PublishCommits ==
  ASSUME ScInv, NEW p \in Planner, PublishCommit(p)
  PROVE  ScInv'
<1>1. PICK t : t = counter[p]
  OBVIOUS
<1>2. /\ t.pc = "locked" /\ week' = [week EXCEPT ![t.week].version = t.seen + 1]
      /\ audits' = [audits EXCEPT ![t.week] = audits[t.week] + 1] /\ Stops(p)
      /\ UNCHANGED <<template, ended, shift, added>>
  BY <1>1 DEF PublishCommit, At
<1>3. t.week \in Monday /\ week[t.week].made /\ t.seen = week[t.week].version
  BY <1>1, <1>2 DEF ScInv, PlansOK, PlanOK
<1>4. /\ week \in [Monday -> [made : BOOLEAN, version : Nat]] /\ audits \in [Monday -> Nat]
      /\ \A m \in Monday : week[m].version = audits[m]
  BY DEF ScInv, WeeksOK, VersionsAreCounted
<1>5. /\ week' \in [Monday -> [made : BOOLEAN, version : Nat]] /\ audits' \in [Monday -> Nat]
      /\ \A x \in Monday : (week'[x].made <=> week[x].made) /\ week'[x].version = audits'[x]
      /\ \A x \in Monday \ {t.week} : week'[x] = week[x] /\ audits'[x] = audits[x]
  BY <1>2, <1>3, <1>4
<1>6. raced' = raced
  BY <1>2 DEF Stops
<1>7. \A q \in Planner \ {p} : Eases(counter[q])
  <2> SUFFICES ASSUME NEW q \in Planner \ {p} PROVE Eases(counter[q])
    OBVIOUS
  <2>1. counter[q].pc = "locked" => counter[q].week \in Monday \ {t.week}
    BY <1>1, <1>2 DEF ScInv, PlansOK, PlanOK, BesideOK
  <2> QED BY <1>2, <1>5, <1>6, <2>1 DEF Eases
<1>8. PlansOK'
  BY <1>2, <1>7, StopsStep
<1>9. VersionsAreCounted' /\ NoDoubleBooking'
  BY <1>2, <1>5, <1>6 DEF ScInv, VersionsAreCounted, NoDoubleBooking
<1>10. WeeksOK'
  BY <1>2, <1>3, <1>5, <1>6 DEF ScInv, WeeksOK
<1>11. BookedOK'
  BY <1>2, <1>5 DEF ScInv, BookedOK, ShiftOK
<1> QED BY <1>8, <1>9, <1>10, <1>11 DEF ScInv

(* A row r is booked in place of the rows of its number. *)
LEMMA BookStep ==
  ASSUME ScInv, NEW p \in Planner, NEW t, t = counter[p], t.pc \in Editing, Stops(p), UNCHANGED rest,
         added' \in Nat, added <= added',
         NEW r, ShiftOK(r)', ~raced => Free(r, r.id),
         shift' = {s \in shift : s.id # r.id} \cup {r}
  PROVE  ScInv'
<1>1. UNCHANGED <<week, audits, template, ended>> /\ raced' = raced
  BY DEF rest, Stops
<1>2. \A q \in Planner \ {p} : counter[q].pc \in Editing => raced
  BY DEF ScInv, PlansOK, BesideOK
<1>3. \A q \in Planner \ {p} : Eases(counter[q])
  BY <1>1, <1>2 DEF Eases
<1>4. PlansOK'
  BY <1>3, StopsStep
<1>5. WeeksOK' /\ VersionsAreCounted'
  BY <1>1 DEF ScInv, WeeksOK, VersionsAreCounted
<1>6. BookedOK'
  <2>1. \A s \in shift : s.id \in 1..added'
    BY DEF ScInv, BookedOK, ShiftOK, WeeksOK
  <2>2. \A s \in shift : ShiftOK(s)'
    BY <1>1, <2>1 DEF ScInv, BookedOK, ShiftOK
  <2> QED BY <2>2 DEF ScInv, BookedOK
<1>7. NoDoubleBooking'
  <2> SUFFICES ASSUME ~raced, NEW x \in shift', NEW y \in shift', x # y, x.who = y.who, x.who # OpenShift
               PROVE  ~shifts_overlap(x, y)
    BY <1>1 DEF NoDoubleBooking
  <2>1. CASE x \in shift /\ y \in shift
    BY <2>1 DEF ScInv, NoDoubleBooking
  <2>2. CASE x = r
    <3>1. y \in shift /\ y.id # r.id
      BY <2>2
    <3> QED BY <2>2, <3>1 DEF Free
  <2>3. CASE y = r
    <3>1. x \in shift /\ x.id # r.id
      BY <2>3
    <3>2. ~shifts_overlap(y, x)
      BY <2>3, <3>1 DEF Free
    <3> QED BY <3>2 DEF shifts_overlap
  <2> QED BY <2>1, <2>2, <2>3
<1> QED BY <1>4, <1>5, <1>6, <1>7 DEF ScInv

(* A commit that writes nothing. *)
LEMMA NothingBooked ==
  ASSUME ScInv, NEW p \in Planner, Stops(p), UNCHANGED <<rest, shift, added>>
  PROVE  ScInv'
<1>1. UNCHANGED <<week, audits, template, ended, shift, added, raced>>
  BY DEF rest, Stops
<1>2. \A q \in Planner \ {p} : Eases(counter[q])
  BY <1>1 DEF Eases
<1>3. PlansOK'
  BY <1>2, StopsStep
<1>4. WeeksOK' /\ VersionsAreCounted' /\ NoDoubleBooking'
  BY <1>1 DEF ScInv, WeeksOK, VersionsAreCounted, NoDoubleBooking
<1>5. BookedOK'
  BY <1>1 DEF ScInv, BookedOK, ShiftOK
<1> QED BY <1>3, <1>4, <1>5 DEF ScInv

(* The row of a body has its times. *)
LEMMA RowOfBody ==
  ASSUME NEW i, NEW m, NEW b, NEW r, r = Row(i, m, b)
  PROVE  /\ r.id = i /\ r.week = m /\ r.tpl = b.tpl /\ r.who = b.who
         /\ Timed(m, b) => Timed(m, r)
         /\ \A id : Free(b, id) => Free(r, id)
<1>1. /\ r.id = i /\ r.week = m /\ r.tpl = b.tpl /\ r.who = b.who /\ r.date = b.date
      /\ r.start = b.start /\ r.end = b.end
  BY DEF Row
<1>2. \A s : shifts_overlap(r, s) <=> shifts_overlap(b, s)
  BY <1>1 DEF shifts_overlap, Begins, Ends
<1> QED BY <1>1, <1>2 DEF Timed, Free

(* A new shift. *)
LEMMA AddCommits ==
  ASSUME ScInv, NEW p \in Planner, AddCommit(p)
  PROVE  ScInv'
<1>1. PICK t : t = counter[p]
  OBVIOUS
<1>2. /\ t.pc = "add" /\ Stops(p) /\ UNCHANGED rest
      /\ IF ~KeyHolds(t.body.tpl) THEN UNCHANGED <<shift, added>>
         ELSE shift' = shift \cup {Row(added + 1, t.week, t.body)} /\ added' = added + 1
  BY <1>1 DEF AddCommit, At
<1>3. t.week \in Monday /\ week[t.week].made /\ Timed(t.week, t.body) /\ (~raced => Free(t.body, 0))
  BY <1>1, <1>2 DEF ScInv, PlansOK, PlanOK, Editing
<1>4. CASE ~KeyHolds(t.body.tpl)
  BY <1>2, <1>4, NothingBooked
<1>5. CASE KeyHolds(t.body.tpl)
  <2>1. PICK r : r = Row(added + 1, t.week, t.body)
    OBVIOUS
  <2>2. r.id = added + 1 /\ r.week = t.week /\ r.tpl = t.body.tpl /\ Timed(t.week, r) /\ (~raced => Free(r, 0))
    BY <1>3, <2>1, RowOfBody
  <2>3. added \in Nat /\ \A s \in shift : s.id \in 1..added
    BY DEF ScInv, WeeksOK, BookedOK, ShiftOK
  <2>4. added' \in Nat /\ added <= added' /\ \A s \in shift : s.id # r.id /\ s.id # 0
    BY <1>2, <1>5, <2>2, <2>3
  <2>5. ~raced => Free(r, r.id)
    BY <2>2, <2>4 DEF Free
  <2>6. shift' = {s \in shift : s.id # r.id} \cup {r}
    BY <1>2, <1>5, <2>1, <2>4
  <2>7. ShiftOK(r)'
    <3>1. UNCHANGED <<week, template>>
      BY <1>2 DEF rest
    <3>2. r.id \in 1..added'
      BY <1>2, <1>5, <2>2, <2>3
    <3> QED BY <1>3, <1>5, <2>2, <3>1, <3>2 DEF ShiftOK, KeyHolds
  <2> QED BY <1>1, <1>2, <2>4, <2>5, <2>6, <2>7, BookStep DEF Editing
<1> QED BY <1>4, <1>5

(* A shift moved, unless it was deleted meanwhile. *)
LEMMA UpdateCommits ==
  ASSUME ScInv, NEW p \in Planner, UpdateCommit(p)
  PROVE  ScInv'
<1>1. PICK t : t = counter[p]
  OBVIOUS
<1>0. PICK old : old = {s \in shift : s.id = t.id}
  OBVIOUS
<1>2. /\ t.pc = "update" /\ Stops(p) /\ UNCHANGED <<rest, added>>
      /\ shift' = IF old = {} \/ ~KeyHolds(t.body.tpl) THEN shift
                  ELSE (shift \ old) \cup {Row(t.id, t.week, t.body)}
  BY <1>0, <1>1 DEF UpdateCommit, At
<1>3. t.week \in Monday /\ week[t.week].made /\ Timed(t.week, t.body) /\ (~raced => Free(t.body, t.id))
  BY <1>1, <1>2 DEF ScInv, PlansOK, PlanOK, Editing
<1>4. CASE old = {} \/ ~KeyHolds(t.body.tpl)
  BY <1>2, <1>4, NothingBooked
<1>5. CASE old # {} /\ KeyHolds(t.body.tpl)
  <2>1. PICK r : r = Row(t.id, t.week, t.body)
    OBVIOUS
  <2>2. r.id = t.id /\ r.week = t.week /\ r.tpl = t.body.tpl /\ Timed(t.week, r) /\ (~raced => Free(r, r.id))
    BY <1>3, <2>1, RowOfBody
  <2>3. t.id \in 1..added /\ added \in Nat
    BY <1>0, <1>5 DEF ScInv, WeeksOK, BookedOK, ShiftOK
  <2>4. added' \in Nat /\ added <= added'
    BY <1>2, <2>3
  <2>6. shift' = {s \in shift : s.id # r.id} \cup {r}
    BY <1>0, <1>2, <1>5, <2>1, <2>2
  <2>7. ShiftOK(r)'
    <3>1. UNCHANGED <<week, template, added>>
      BY <1>2 DEF rest
    <3> QED BY <1>3, <1>5, <2>2, <2>3, <3>1 DEF ShiftOK, KeyHolds
  <2> QED BY <1>1, <1>2, <2>2, <2>4, <2>6, <2>7, BookStep DEF Editing
<1> QED BY <1>4, <1>5

(* Steps of no planner: a shift or a template goes or comes, somebody leaves. *)
LEMMA OtherSteps ==
  ASSUME ScInv, UNCHANGED <<week, audits, counter, added, raced>>, shift' \subseteq shift,
         template' \in BOOLEAN, \A s \in shift' : s.tpl # NoTemplate => template'
  PROVE  ScInv'
<1>1. \A t : PlanOK(t) => PlanOK(t)'
  BY PlanKept DEF Eases, PlanOK
<1>2. PlansOK'
  BY <1>1 DEF ScInv, PlansOK
<1>3. WeeksOK' /\ VersionsAreCounted' /\ NoDoubleBooking'
  BY DEF ScInv, WeeksOK, VersionsAreCounted, NoDoubleBooking
<1>4. BookedOK'
  BY DEF ScInv, BookedOK, ShiftOK
<1> QED BY <1>2, <1>3, <1>4 DEF ScInv

(* Every step keeps the invariant. *)
LEMMA ScInvStep == ASSUME ScInv, [ScNext]_scVars PROVE ScInv'
<1>0. template \in BOOLEAN /\ \A s \in shift : s.tpl # NoTemplate => template
  BY DEF ScInv, WeeksOK, BookedOK, ShiftOK
<1>1. CASE UNCHANGED scVars
  BY <1>0, <1>1, OtherSteps DEF scVars
<1>2. ASSUME NEW p \in Planner, NEW m \in Monday, create_week(p, m) \/ publish_week(p, m) PROVE ScInv'
  BY <1>2, WeekBegins
<1>3. ASSUME NEW p \in Planner, NEW m \in Monday, NEW d \in AllDays, NEW slot \in Slot,
             NEW who \in Crew \cup {OpenShift}, NEW tpl \in {NoTemplate, "usual"},
             add_shift(p, m, Body(d, slot, who, tpl))
      PROVE  ScInv'
  BY <1>3, AddBegins
<1>4. ASSUME NEW p \in Planner, NEW s \in shift, NEW d \in AllDays, NEW slot \in Slot,
             NEW who \in Crew \cup {OpenShift}, update_shift(p, s, Body(d, slot, who, s.tpl))
      PROVE  ScInv'
  BY <1>4, UpdateBegins
<1>5. ASSUME NEW p \in Planner, CreateCommit(p) \/ AddCommit(p) \/ UpdateCommit(p) PROVE ScInv'
  BY <1>5, CreateCommits, AddCommits, UpdateCommits
<1>6. ASSUME NEW p \in Planner, _publish_lock_stmt(p) \/ PublishCommit(p) PROVE ScInv'
  BY <1>6, LockStep, PublishCommits
<1>7. ASSUME NEW s \in shift, delete_shift(s) PROVE ScInv'
  <2>1. UNCHANGED <<week, audits, counter, added, raced, template>> /\ shift' \subseteq shift
    BY <1>7 DEF delete_shift, rest
  <2> QED BY <1>0, <2>1, OtherSteps
<1>8. CASE create_template
  <2>1. UNCHANGED <<week, audits, counter, added, raced, shift>> /\ template'
    BY <1>8 DEF create_template
  <2>2. template' \in BOOLEAN
    BY <1>8, Zenon DEF create_template
  <2> QED BY <2>1, <2>2, OtherSteps
<1>9. CASE delete_template
  <2>1. UNCHANGED <<week, audits, counter, added, raced, shift>> /\ \A s \in shift : s.tpl = NoTemplate
    BY <1>9 DEF delete_template
  <2>2. template' \in BOOLEAN
    BY <1>9, Zenon DEF delete_template
  <2> QED BY <2>1, <2>2, OtherSteps
<1>10. ASSUME NEW e \in Crew, NEW d \in Monday, Separated(e, d) PROVE ScInv'
  BY <1>0, <1>10, OtherSteps DEF Separated
<1> QED BY <1>1, <1>2, <1>3, <1>4, <1>5, <1>6, <1>7, <1>8, <1>9, <1>10 DEF ScNext

(* Nobody is booked twice by edits that do not overlap, across midnight and *)
(* the end of a week; every publish is a version; no race orphans a shift   *)
(* (schedule_api.py: _validate_shift, publish_week, the foreign keys).      *)
THEOREM ScheduleIsSafe == ScSpec => []SchedulingSafe
<1>1. ScInit => ScInv
  BY ScInitInv
<1>2. ScInv /\ [ScNext]_scVars => ScInv'
  BY ScInvStep
<1>3. ScInv => SchedulingSafe
  BY ScInvSafe
<1> QED BY <1>1, <1>2, <1>3, PTL DEF ScSpec

-----------------------------------------------------------------------------
(* Deposit chains *)

Legal(chain) ==
    /\ Len(chain) \in Nat /\ chain = [i \in 1..Len(chain) |-> chain[i]]
    /\ allocation_ok(chain)

(* The rows of one legal chain. *)
OneChain(X) == \E put, chain : Legal(chain) /\ X = Stored(put, chain)

(* Rows of a PUT that has committed: no PUT under way will write them again. *)
Old(X) ==
    \A r \in X : r.put \in 0..sent /\ \A w \in Writer : puts[w] # Idle => puts[w].put # r.put

PutOK(t) ==
    /\ t.pc \in {"idle", "delete", "insert"}
    /\ t.pc = "idle" <=> t = Idle
    /\ t.pc # "idle" =>
         /\ DOMAIN t = {"pc", "put", "body", "seen"} /\ t.put \in 1..sent /\ Legal(t.body) /\ Old(t.seen)
    /\ t.pc = "delete" => t.seen = deposits \/ t.seen \cap deposits = {}
    /\ t.pc = "insert" => t.seen = deposits \/ t.seen = {}

(* PUTs are numbered apart, and no two lock a row. *)
PutsApart(t, u) ==
    /\ t # Idle /\ u # Idle => t.put # u.put
    /\ t.pc = "insert" /\ u.pc = "insert" => t.seen \cap u.seen = {}

PutsOK ==
    /\ DOMAIN puts = Writer
    /\ \A w \in Writer : \A t \in {puts[w]} : PutOK(t)
    /\ \A v, w \in Writer : v # w => PutsApart(puts[v], puts[w])

(* What a sync has read so far: the mark before the payload, so that a mark *)
(* still on file is of what was read after it.                              *)
SyncOK(t) ==
    /\ t.pc \in {"idle", "reading", "deliver"}
    /\ t.pc # "idle" =>
         /\ t.step \in 1..5 /\ (t.pc = "deliver" <=> t.step = 5)
         /\ t.mark = <<t.mark[1], t.mark[2]>> /\ t.payload = <<t.payload[1], t.payload[2]>>
         /\ t.step >= 2 => t.mark[1] \in Nat /\ t.mark[1] <= ssn
         /\ t.step >= 3 => Old(t.mark[2])
         /\ t.step >= 4 => (t.mark[1] = ssn => t.payload[1] = ssn)
         /\ t.step >= 5 => OneChain(t.payload[2]) /\ (t.mark[2] # {} /\ t.mark[2] = deposits => t.payload[2] = deposits)

(* A record that reads fresh is what is on file; one that is being sent     *)
(* again is stale for good.                                                 *)
Fresh == ref = <<ssn, deposits>> /\ deposits # {}
RefOK ==
    /\ ref # NoRef => ref = <<ref[1], ref[2]>> /\ ref[1] \in Nat /\ ref[1] <= ssn /\ Old(ref[2])
    /\ copy # NoRef => OneChain(copy[2]) /\ \A r \in copy[2] : _open_field(r)
    /\ Fresh /\ copy # NoRef => copy = <<ssn, deposits>>
    /\ sync.pc # "idle" => ~Fresh

DepInv ==
    /\ ssn \in Nat /\ sent \in Nat
    /\ OneChain(deposits) /\ Old(deposits)
    /\ PutsOK /\ RefOK /\ \A t \in {sync} : SyncOK(t)

-----------------------------------------------------------------------------
(* A chain and its rows *)

(* As many values as indexes, where no two are the same. *)
LEMMA ImageCount ==
  ASSUME NEW n \in Nat, NEW f, NEW S,
         \A i \in 1..n : f[i] \in S,
         \A x \in S : \E i \in 1..n : f[i] = x,
         \A i, j \in 1..n : f[i] = f[j] => i = j
  PROVE  IsFiniteSet(S) /\ Cardinality(S) = n
<1> DEFINE g == [i \in 1..n |-> f[i]]
<1>1. g \in [1..n -> S] /\ \A i, j \in 1..n : g[i] = g[j] => i = j
  OBVIOUS
<1>2. \A x \in S : \E i \in 1..n : g[i] = x
  OBVIOUS
<1> HIDE DEF g
<1>3. g \in Bijection(1..n, S)
  BY <1>1, <1>2 DEF Bijection, Injection, Surjection, IsInjective
<1>4. ExistsBijection(1..n, S)
  BY <1>3 DEF ExistsBijection
<1>5. IsFiniteSet(1..n) /\ Cardinality(1..n) = n
  BY FS_Interval
<1> QED BY <1>4, <1>5, FS_Bijection

(* Nothing is taken of an empty chain. *)
LEMMA PercentOfNone == PercentSum(<<>>) = 0
<1> DEFINE chain == <<>>
           A(i) == i = [s \in SUBSET {} |-> IF s = {} THEN 0
                         ELSE LET x == CHOOSE y \in s : TRUE
                              IN  (IF chain[x].type = "percent" THEN chain[x].value ELSE 0) + i[s \ {x}]]
           B(i) == i = [s \in {{}} |-> 0]
<1>1. DOMAIN chain = {}
  OBVIOUS
<1>2. PercentSum(chain) = (CHOOSE i : A(i))[{}]
  <2> HIDE DEF chain
  <2> QED BY <1>1, Zenon DEF PercentSum, MapThenSumSet, MapThenFoldSet
<1>3. \A i : A(i) <=> B(i)
  <2>1. SUBSET {} = {{}}
    OBVIOUS
  <2> QED BY <2>1
<1>4. (CHOOSE i : A(i)) = (CHOOSE i : B(i))
  <2> HIDE DEF A, B
  <2> QED BY <1>3, Zenon
<1>5. B([s \in {{}} |-> 0])
  OBVIOUS
<1>6. B(CHOOSE i : B(i))
  <2> HIDE DEF B
  <2> QED BY <1>5, Zenon
<1>7. (CHOOSE i : B(i))[{}] = 0
  <2>1. PICK c : c = CHOOSE i : B(i)
    OBVIOUS
  <2>2. c = [s \in {{}} |-> 0]
    BY <1>6, <2>1
  <2>3. c[{}] = 0
    BY <2>2
  <2> HIDE DEF B
  <2> QED BY <2>1, <2>3
<1> HIDE DEF A, B
<1> QED BY <1>2, <1>4, <1>7

(* The rows of X, one for each account of a list of n. *)
RowsOf(X, f, chain, n) ==
    /\ n \in Nat /\ chain = [i \in 1..n |-> chain[i]]
    /\ \A i \in 1..n : f[i] \in X /\ f[i].ordinal = i /\ f[i].spec = chain[i]
    /\ \A x \in X : \E i \in 1..n : f[i] = x

(* Rows numbered from 1, one of each number, in order are what they hold. *)
LEMMA RowsInOrder ==
  ASSUME NEW n, NEW f, NEW X, NEW chain, RowsOf(X, f, chain, n)
  PROVE  Cardinality(X) = n /\ InOrder(X) = chain
<1>0. n \in Nat /\ chain = [i \in 1..n |-> chain[i]]
      /\ (\A i \in 1..n : f[i] \in X /\ f[i].ordinal = i /\ f[i].spec = chain[i])
      /\ \A x \in X : \E i \in 1..n : f[i] = x
  BY DEF RowsOf
<1>1. \A i, j \in 1..n : f[i] = f[j] => i = j
  BY <1>0
<1>2. (\A i \in 1..n : f[i] \in X) /\ \A x \in X : \E i \in 1..n : f[i] = x
  BY <1>0
<1>3. Cardinality(X) = n
  <2>1. n \in Nat
    BY <1>0
  <2> QED BY ONLY <2>1, <1>1, <1>2, ImageCount
<1>4. ASSUME NEW j \in 1..n PROVE Cardinality({q \in X : q.ordinal <= j}) = j
  <2>1. PICK S : S = {q \in X : q.ordinal <= j}
    OBVIOUS
  <2>2. (\A i \in 1..j : f[i] \in S) /\ \A x \in S : \E i \in 1..j : f[i] = x
    BY <1>0, <2>1
  <2>3. j \in Nat /\ \A i, k \in 1..j : f[i] = f[k] => i = k
    BY <1>0, <1>1
  <2>4. Cardinality(S) = j
    BY ONLY <2>2, <2>3, ImageCount
  <2> QED BY <2>1, <2>4
<1>5. \A r \in X : Cardinality({q \in X : q.ordinal <= r.ordinal}) = r.ordinal /\ r.ordinal \in 1..n /\ r = f[r.ordinal]
  BY <1>0, <1>4
<1>6. ASSUME NEW i \in 1..n
      PROVE  (CHOOSE r \in X : Cardinality({q \in X : q.ordinal <= r.ordinal}) = i) = f[i]
  <2>1. f[i] \in X /\ f[i].ordinal = i
    BY <1>0
  <2> QED BY <1>5, <2>1
<1>7. InOrder(X) = chain
  <2> DEFINE g == [i \in 1..n |-> (CHOOSE r \in X : Cardinality({q \in X : q.ordinal <= r.ordinal}) = i).spec]
  <2>1. InOrder(X) = g
    BY <1>3, Zenon DEF InOrder
  <2>2. \A i \in 1..n : g[i] = f[i].spec /\ f[i].spec = chain[i]
    BY <1>0, <1>6, Zenon
  <2>3. g = [i \in 1..n |-> g[i]]
    OBVIOUS
  <2> HIDE DEF g
  <2>4. g = chain
    BY <1>0, <2>2, <2>3
  <2> QED BY <2>1, <2>4
<1> QED BY <1>3, <1>7

(* The rows of a legal chain are whole, and in order they are the chain. *)
LEMMA ChainWhole ==
  ASSUME NEW X, OneChain(X)
  PROVE  Whole(X) /\ (X # {} => \E r \in X : r.ordinal = 1)
<1>1. PICK put, chain : Legal(chain) /\ X = Stored(put, chain)
  BY DEF OneChain
<1>2. PICK n \in Nat : n = Len(chain) /\ DOMAIN chain = 1..n /\ chain = [i \in 1..n |-> chain[i]]
  BY <1>1 DEF Legal
<1>3. PICK f : f = [i \in 1..n |-> [put |-> put, ordinal |-> i, spec |-> chain[i]]]
  OBVIOUS
<1>4. \A i \in 1..n : f[i].put = put /\ f[i].ordinal = i /\ f[i].spec = chain[i]
  BY <1>3
<1>5. X = {f[i] : i \in 1..n}
  BY <1>1, <1>2, <1>3 DEF Stored
<1>6. RowsOf(X, f, chain, n)
  BY <1>2, <1>4, <1>5 DEF RowsOf
<1>7. Cardinality(X) = n /\ InOrder(X) = chain
  BY ONLY <1>6, RowsInOrder
<1>8. {r.ordinal : r \in X} = 1..n
  BY <1>4, <1>5
<1>9. Cardinality({r.put : r \in X}) <= 1
  <2>1. PICK S : S = {r.put : r \in X}
    OBVIOUS
  <2>2. S = {} \/ S = {put}
    BY <1>4, <1>5, <2>1
  <2>3. Cardinality({put}) = 1 /\ Cardinality({}) = 0
    BY FS_Singleton, FS_EmptySet, Zenon
  <2>4. Cardinality(S) <= 1
    BY <2>2, <2>3
  <2> QED BY <2>1, <2>4
<1>10. allocation_ok(chain) /\ PercentSum(chain) < 100
  <2>1. allocation_ok(chain)
    BY <1>1 DEF Legal
  <2>2. CASE chain = <<>>
    BY <2>1, <2>2, PercentOfNone
  <2>3. CASE chain # <<>>
    BY <2>1, <2>3 DEF allocation_ok
  <2> QED BY <2>1, <2>2, <2>3
<1>11. X # {} => \E r \in X : r.ordinal = 1
  BY <1>4, <1>5
<1> QED BY <1>6, <1>7, <1>8, <1>9, <1>10, <1>11 DEF Whole

(* The invariant has the property in it. *)
LEMMA DepInvSafe == ASSUME DepInv PROVE PayGoesWhereItSays
<1>1. Whole(deposits)
  BY ChainWhole DEF DepInv
<1>2. ASSUME copy # NoRef
      PROVE  /\ Whole(copy[2])
             /\ \A r \in copy[2] : r.spec.slot = (IF r.put = 0 THEN Legacy ELSE r.ordinal)
             /\ ~provider_payload_stale /\ deposits # {} => copy = payload_fingerprint
  <2>1. Whole(copy[2])
    BY <1>2, ChainWhole DEF DepInv, RefOK
  <2>2. \A r \in copy[2] : r.spec.slot = (IF r.put = 0 THEN Legacy ELSE r.ordinal)
    BY <1>2 DEF DepInv, RefOK, _open_field
  <2>3. ~provider_payload_stale /\ deposits # {} => copy = payload_fingerprint
    BY <1>2 DEF DepInv, RefOK, Fresh, provider_payload_stale, payload_fingerprint
  <2> QED BY <2>1, <2>2, <2>3
<1> QED BY <1>1, <1>2 DEF PayGoesWhereItSays

(* What is on file at first. *)
LEMMA DepInitInv == ASSUME DepInit PROVE DepInv
<1>1. PICK chain \in OnFile : deposits = FromProfile(chain)
  BY DEF DepInit
<1>2. Legal(chain) /\ deposits = Stored(0, chain)
  BY <1>1, ChainConstants DEF Legal, FromProfile
<1>3. \A w \in Writer : puts[w] = Idle /\ puts[w].pc = "idle"
  BY DEF DepInit, Idle
<1>4. OneChain(deposits) /\ Old(deposits)
  <2>1. \A r \in deposits : r.put = 0
    BY <1>2 DEF Stored
  <2> QED BY <1>2, <1>3, <2>1 DEF OneChain, Old, DepInit
<1>5. PutsOK
  BY <1>3 DEF PutsOK, PutOK, PutsApart, DepInit
<1>6. sync = Idle /\ sync.pc = "idle" /\ ref = <<>> /\ copy = <<>>
  BY DEF DepInit, Idle, NoRef
<1>7. RefOK
  BY <1>6 DEF RefOK, NoRef, Fresh
<1>8. \A t \in {sync} : SyncOK(t)
  BY <1>6 DEF SyncOK
<1>9. ssn \in Nat /\ sent \in Nat
  BY DEF DepInit
<1> QED BY <1>4, <1>5, <1>7, <1>8, <1>9 DEF DepInv

-----------------------------------------------------------------------------
(* PUTs beside a sync *)

(* PUTs under way go on under their numbers; a new one is numbered on. *)
NumberedOn ==
    /\ sent' \in Nat /\ sent <= sent'
    /\ \A w \in Writer : puts'[w] # Idle =>
         (puts[w] # Idle /\ puts'[w].put = puts[w].put) \/ puts'[w].put = sent + 1

(* What is on file stays, or gives way to a chain never on file before. *)
Replaced ==
    deposits' = deposits \/ (OneChain(deposits') /\ \A X : Old(X) => X \cap deposits' = {})

(* A step of an administrator, as a sync sees it. *)
Edited ==
    /\ NumberedOn /\ Replaced /\ ssn' \in {ssn, ssn + 1}
    /\ UNCHANGED <<sync, ref, copy>>

(* Rows of a finished PUT stay so. *)
LEMMA OldKept ==
  ASSUME DepInv, NumberedOn, NEW X, Old(X)
  PROVE  Old(X)'
BY DEF DepInv, NumberedOn, Old

(* A chain that was read and replaced never comes back. *)
LEMMA NeverBack ==
  ASSUME Replaced, NEW X, Old(X), X # {}, X = deposits'
  PROVE  deposits' = deposits
BY DEF Replaced

(* Nothing an administrator does makes a record read fresh that is not. *)
LEMMA EditedKeeps ==
  ASSUME DepInv, Edited
  PROVE  RefOK' /\ (\A t \in {sync} : SyncOK(t))' /\ OneChain(deposits)' /\ ssn' \in Nat /\ ssn <= ssn'
<1>1. ssn \in Nat /\ ssn' \in Nat /\ (ssn' = ssn \/ ssn' = ssn + 1) /\ ssn <= ssn'
  BY DEF DepInv, Edited
<1>2. NumberedOn /\ Replaced /\ sync' = sync /\ ref' = ref /\ copy' = copy
  BY DEF Edited
<1>3. PICK t : t = sync
  OBVIOUS
<1>4. SyncOK(t)
  BY <1>3 DEF DepInv
<1>5. PICK q : q = ref
  OBVIOUS
<1>6. q # NoRef => q = <<q[1], q[2]>> /\ q[1] \in Nat /\ q[1] <= ssn /\ Old(q[2])
  BY <1>5 DEF DepInv, RefOK
<1>7. q # NoRef => Old(q[2])'
  BY <1>2, <1>6, OldKept
<1>8. ASSUME Fresh' PROVE Fresh /\ ssn' = ssn /\ deposits' = deposits
  <2>1. q = <<ssn', deposits'>> /\ deposits' # {}
    BY <1>2, <1>5, <1>8 DEF Fresh
  <2>2. q # NoRef
    BY <2>1 DEF NoRef
  <2>3. q[1] = ssn' /\ q[2] = deposits'
    BY <2>1
  <2>4. ssn' = ssn
    BY <1>1, <1>6, <2>2, <2>3
  <2>5. deposits' = deposits
    BY <1>2, <1>6, <2>1, <2>2, <2>3, NeverBack
  <2> QED BY <1>5, <2>1, <2>4, <2>5 DEF Fresh
<1>9. RefOK'
  <2>1. ref' # NoRef => ref' = <<ref'[1], ref'[2]>> /\ ref'[1] \in Nat /\ ref'[1] <= ssn'
    BY <1>1, <1>2, <1>5, <1>6
  <2>2. (ref # NoRef => Old(ref[2]))'
    BY <1>2, <1>5, <1>7 DEF Old
  <2>3. copy' # NoRef => OneChain(copy'[2]) /\ \A r \in copy'[2] : _open_field(r)
    BY <1>2 DEF DepInv, RefOK
  <2>4. Fresh' /\ copy' # NoRef => copy' = <<ssn', deposits'>>
    BY <1>2, <1>8 DEF DepInv, RefOK
  <2>5. sync'.pc # "idle" => ~Fresh'
    BY <1>2, <1>8 DEF DepInv, RefOK
  <2> QED BY <2>1, <2>2, <2>3, <2>4, <2>5 DEF RefOK, NoRef
<1>10. SyncOK(t)'
  <2> SUFFICES ASSUME t.pc # "idle"
               PROVE  SyncOK(t)'
    BY <1>4 DEF SyncOK
  <2>1. t.step >= 3 => Old(t.mark[2])'
    BY <1>2, <1>4, OldKept DEF SyncOK
  <2>2. t.step >= 2 => t.mark[1] \in Nat /\ t.mark[1] <= ssn'
    BY <1>1, <1>4 DEF SyncOK
  <2>3. t.step >= 4 => (t.mark[1] = ssn' => t.payload[1] = ssn')
    BY <1>1, <1>4 DEF SyncOK
  <2>4. t.step >= 5 => OneChain(t.payload[2]) /\ (t.mark[2] # {} /\ t.mark[2] = deposits' => t.payload[2] = deposits')
    BY <1>2, <1>4, NeverBack DEF SyncOK
  <2> QED BY <1>4, <2>1, <2>2, <2>3, <2>4 DEF SyncOK
<1>11. (\A u \in {sync} : SyncOK(u))'
  BY <1>2, <1>3, <1>10
<1>12. OneChain(deposits)'
  BY <1>2 DEF Replaced, DepInv, OneChain
<1> QED BY <1>1, <1>9, <1>11, <1>12

(* What a step of an administrator leaves to be shown. *)
LEMMA EditedInv ==
  ASSUME DepInv, Edited, Old(deposits)', PutsOK'
  PROVE  DepInv'
BY EditedKeeps DEF DepInv, Edited, NumberedOn

(* A new SSN. *)
LEMMA ProfileStep ==
  ASSUME DepInv, put_profile
  PROVE  DepInv'
<1>1. Edited
  BY DEF Edited, NumberedOn, Replaced, put_profile, DepInv
<1>2. Old(deposits)' /\ PutsOK'
  BY DEF DepInv, put_profile, Old, PutsOK, PutOK, PutsApart
<1> QED BY <1>1, <1>2, EditedInv

(* One PUT goes on as h: the others stand as they were. *)
LEMMA OthersKept ==
  ASSUME DepInv, NumberedOn, Replaced, NEW w \in Writer, NEW h, puts' = Goes(puts, w, h),
         deposits' = deposits \/ (\A v \in Writer \ {w} : puts[v].pc = "insert" => puts[v].seen = {}),
         PutOK(h)', \A v \in Writer \ {w} : PutsApart(puts[v], h)
  PROVE  PutsOK'
<1>1. DOMAIN puts' = Writer /\ puts'[w] = h /\ \A v \in Writer \ {w} : puts'[v] = puts[v]
  BY DEF DepInv, PutsOK, Goes
<1>2. ASSUME NEW v \in Writer \ {w} PROVE PutOK(puts[v])'
  <2>1. PICK t : t = puts[v]
    OBVIOUS
  <2>2. PutOK(t)
    BY <2>1 DEF DepInv, PutsOK
  <2> SUFFICES PutOK(t)'
    BY <1>1, <2>1 DEF PutOK, Old
  <2> SUFFICES ASSUME t.pc # "idle" PROVE PutOK(t)'
    BY <2>2 DEF PutOK
  <2>3. Old(t.seen)'
    BY <2>2, OldKept DEF PutOK
  <2>4. t.put \in 1..sent'
    BY <2>2 DEF PutOK, NumberedOn, DepInv
  <2>5. t.pc = "delete" => t.seen = deposits' \/ t.seen \cap deposits' = {}
    BY <2>2 DEF PutOK, Replaced
  <2>6. t.pc = "insert" => t.seen = deposits' \/ t.seen = {}
    BY <2>1, <2>2 DEF PutOK
  <2> QED BY <2>2, <2>3, <2>4, <2>5, <2>6 DEF PutOK
<1>3. (\A v \in Writer : \A t \in {puts[v]} : PutOK(t))'
  <2>1. PutOK(puts[w])'
    BY <1>1 DEF PutOK, Old
  <2>2. ASSUME NEW v \in Writer PROVE PutOK(puts[v])'
    <3>1. CASE v = w
      BY <2>1, <3>1
    <3>2. CASE v # w
      BY <1>2, <3>2
    <3> QED BY <3>1, <3>2
  <2> QED BY <2>2
<1>4. ASSUME NEW u \in Writer, NEW v \in Writer, u # v
      PROVE  PutsApart(puts'[u], puts'[v])
  <2>1. CASE u = w
    BY <1>1, <1>4, <2>1 DEF PutsApart
  <2>2. CASE v = w
    BY <1>1, <1>4, <2>2
  <2>3. CASE u # w /\ v # w
    BY <1>1, <1>4, <2>3 DEF DepInv, PutsOK
  <2> QED BY <2>1, <2>2, <2>3
<1> QED BY <1>1, <1>3, <1>4 DEF PutsOK

(* A PUT that ends is no PUT. *)
LEMMA IdlePut ==
  /\ Idle.pc = "idle" /\ PutOK(Idle)'
  /\ \A t : PutsApart(t, Idle)
BY DEF Idle, PutOK, PutsApart

(* The body was judged, and the rows there are now are to go. *)
LEMMA PutStep ==
  ASSUME DepInv, NEW w \in Writer, NEW body \in PutBody, put_deposit_accounts(w, body)
  PROVE  DepInv'
<1>1. PICK h : h = [pc |-> "delete", put |-> sent + 1, body |-> body, seen |-> deposits]
  OBVIOUS
<1>2. h.pc = "delete" /\ h.put = sent + 1 /\ h.body = body /\ h.seen = deposits
      /\ DOMAIN h = {"pc", "put", "body", "seen"} /\ h # Idle
  BY <1>1 DEF Idle
<1>3. puts' = Goes(puts, w, h) /\ sent' = sent + 1 /\ deposits' = deposits /\ ssn' = ssn
      /\ sync' = sync /\ ref' = ref /\ copy' = copy /\ sent \in Nat
  BY <1>1 DEF put_deposit_accounts, DepInv
<1>4. DOMAIN puts = Writer /\ puts'[w] = h /\ \A v \in Writer \ {w} : puts'[v] = puts[v]
  BY <1>3 DEF DepInv, PutsOK, Goes
<1>5. NumberedOn /\ Replaced
  BY <1>2, <1>3, <1>4 DEF NumberedOn, Replaced
<1>6. Edited
  BY <1>3, <1>5 DEF Edited
<1>7. Old(deposits)'
  <2>1. PICK X : X = deposits
    OBVIOUS
  <2>2. Old(X)'
    BY <1>5, <2>1, OldKept DEF DepInv
  <2> QED BY <1>3, <2>1, <2>2 DEF Old
<1>8. Legal(body)
  BY ChainConstants DEF Legal, put_deposit_accounts
<1>9. PutOK(h)'
  <2>1. Old(h.seen)'
    BY <1>2, <1>3, <1>7 DEF Old
  <2>2. h.put \in 1..sent'
    BY <1>2, <1>3
  <2> QED BY <1>2, <1>3, <1>8, <2>1, <2>2 DEF PutOK
<1>10. \A v \in Writer \ {w} : PutsApart(puts[v], h)
  <2> SUFFICES ASSUME NEW v \in Writer \ {w} PROVE PutsApart(puts[v], h)
    OBVIOUS
  <2>1. PutOK(puts[v])
    BY DEF DepInv, PutsOK
  <2> QED BY <1>2, <1>3, <2>1 DEF PutOK, PutsApart
<1>11. PutsOK'
  BY <1>3, <1>5, <1>9, <1>10, OthersKept
<1> QED BY <1>6, <1>7, <1>11, EditedInv

(* Rows another PUT deleted are skipped; the rest are locked. *)
LEMMA DeleteRowsStep ==
  ASSUME DepInv, NEW w \in Writer, DeleteRows(w)
  PROVE  DepInv'
<1>1. PICK t : t = puts[w]
  OBVIOUS
<1>2. PutOK(t) /\ t.pc = "delete" /\ DOMAIN puts = Writer
  BY <1>1 DEF DepInv, PutsOK, DeleteRows, At
<1>3. PICK h : h = [t EXCEPT !.pc = "insert", !.seen = t.seen \cap deposits]
  OBVIOUS
<1>4. h.pc = "insert" /\ h.put = t.put /\ h.body = t.body /\ h.seen = t.seen \cap deposits
      /\ DOMAIN h = {"pc", "put", "body", "seen"} /\ h # Idle /\ t # Idle
  BY <1>2, <1>3 DEF PutOK, Idle
<1>5. puts' = Goes(puts, w, h) /\ sent' = sent /\ deposits' = deposits /\ ssn' = ssn
      /\ sync' = sync /\ ref' = ref /\ copy' = copy /\ sent \in Nat
  BY <1>1, <1>3 DEF DeleteRows, DepInv
<1>6. puts'[w] = h /\ \A v \in Writer \ {w} : puts'[v] = puts[v]
  BY <1>2, <1>5 DEF Goes
<1>7. NumberedOn /\ Replaced
  BY <1>1, <1>4, <1>5, <1>6 DEF NumberedOn, Replaced
<1>8. Edited
  BY <1>5, <1>7 DEF Edited
<1>9. Old(deposits)'
  <2>1. PICK X : X = deposits
    OBVIOUS
  <2>2. Old(X)'
    BY <1>7, <2>1, OldKept DEF DepInv
  <2> QED BY <1>5, <2>1, <2>2 DEF Old
<1>10. PutOK(h)'
  <2>1. h.seen = deposits \/ h.seen = {}
    BY <1>2, <1>4 DEF PutOK
  <2>2. Old(h.seen)'
    BY <1>5, <1>9, <2>1 DEF Old
  <2> QED BY <1>2, <1>4, <1>5, <2>1, <2>2 DEF PutOK
<1>11. \A v \in Writer \ {w} : PutsApart(puts[v], h)
  <2> SUFFICES ASSUME NEW v \in Writer \ {w} PROVE PutsApart(puts[v], h)
    OBVIOUS
  <2>1. PutsApart(puts[v], t)
    BY <1>1 DEF DepInv, PutsOK
  <2>2. puts[v].pc = "insert" => puts[v].seen \cap t.seen = {}
    BY <1>1 DEF DeleteRows, LockedBy, At
  <2> QED BY <1>4, <2>1, <2>2 DEF PutsApart
<1>12. PutsOK'
  BY <1>5, <1>7, <1>10, <1>11, OthersKept
<1> QED BY <1>8, <1>9, <1>12, EditedInv

(* The transaction ends without a write. *)
LEMMA PutEnds ==
  ASSUME DepInv, NEW w \in Writer, puts' = Goes(puts, w, Idle),
         UNCHANGED <<ssn, deposits, sent, sync, ref, copy>>
  PROVE  DepInv'
<1>1. DOMAIN puts = Writer /\ puts'[w] = Idle /\ \A v \in Writer \ {w} : puts'[v] = puts[v]
  BY DEF DepInv, PutsOK, Goes
<1>2. NumberedOn /\ Replaced
  BY <1>1 DEF NumberedOn, Replaced, DepInv
<1>3. Edited
  BY <1>2 DEF Edited
<1>4. Old(deposits)'
  <2>1. PICK X : X = deposits
    OBVIOUS
  <2>2. Old(X)'
    BY <1>2, <2>1, OldKept DEF DepInv
  <2> QED BY <2>1, <2>2 DEF Old
<1>5. PutsOK'
  BY <1>2, IdlePut, OthersKept
<1> QED BY <1>3, <1>4, <1>5, EditedInv

(* A key that is taken rolls back; otherwise the rows are the new chain, for *)
(* a PUT that saw nothing to delete finds the first ordinal taken.           *)
LEMMA InsertStep ==
  ASSUME DepInv, NEW w \in Writer, InsertRows(w)
  PROVE  DepInv'
<1>1. PICK t : t = puts[w]
  OBVIOUS
<1>2. PutOK(t) /\ t.pc = "insert" /\ DOMAIN puts = Writer
  BY <1>1 DEF DepInv, PutsOK, InsertRows, At
<1>3. t # Idle /\ t.put \in 1..sent /\ Legal(t.body) /\ (t.seen = deposits \/ t.seen = {}) /\ NewRows(w) = Stored(t.put, t.body)
  BY <1>1, <1>2 DEF PutOK, NewRows
<1>4. OneChain(NewRows(w)) /\ \A r \in NewRows(w) : r.put = t.put
  <2>1. OneChain(NewRows(w))
    BY <1>3 DEF OneChain
  <2>2. \A r \in NewRows(w) : r.put = t.put
    BY <1>3 DEF Stored
  <2> QED BY <2>1, <2>2
<1>5. CASE deposits' = deposits
  BY <1>5, PutEnds DEF InsertRows
<1>6. CASE deposits' # deposits
  <2>1. ~OrdinalTaken(w) /\ deposits' = (deposits \ t.seen) \cup NewRows(w)
    BY <1>1, <1>6 DEF InsertRows
  <2>2. deposits' = NewRows(w) /\ (t.seen = deposits \/ deposits = {})
    <3>1. CASE t.seen = deposits
      BY <2>1, <3>1
    <3>2. CASE t.seen = {}
      <4>1. NewRows(w) # {}
        BY <1>6, <2>1, <3>2
      <4>2. PICK r \in NewRows(w) : r.ordinal = 1
        BY <1>4, <4>1, ChainWhole
      <4>3. ASSUME deposits # {} PROVE FALSE
        <5>1. PICK q \in deposits : q.ordinal = 1
          BY <4>3, ChainWhole DEF DepInv
        <5> QED BY <1>1, <2>1, <3>2, <4>2, <5>1 DEF OrdinalTaken
      <4> QED BY <2>1, <3>2, <4>3
    <3> QED BY <1>3, <3>1, <3>2
  <2>3. puts' = Goes(puts, w, Idle) /\ sent' = sent /\ ssn' = ssn /\ sync' = sync /\ ref' = ref /\ copy' = copy
    BY DEF InsertRows
  <2>4. puts'[w] = Idle /\ \A v \in Writer \ {w} : puts'[v] = puts[v]
    BY <1>2, <2>3 DEF Goes
  <2>5. NumberedOn
    BY <2>3, <2>4 DEF NumberedOn, DepInv
  <2>6. Replaced
    <3>1. ASSUME NEW X, Old(X) PROVE X \cap deposits' = {}
      BY <1>1, <1>3, <1>4, <2>2, <3>1 DEF Old
    <3> QED BY <1>4, <2>2, <3>1 DEF Replaced
  <2>7. Edited
    BY <2>3, <2>5, <2>6 DEF Edited
  <2>8. Old(deposits)'
    <3>1. \A r \in deposits' : r.put = t.put
      BY <1>4, <2>2
    <3>2. t.put \in 0..sent'
      BY <1>3, <2>3
    <3>3. \A v \in Writer : puts'[v] # Idle => puts'[v].put # t.put
      BY <1>1, <1>3, <2>4 DEF DepInv, PutsOK, PutsApart
    <3> QED BY <3>1, <3>2, <3>3 DEF Old
  <2>9. \A v \in Writer \ {w} : puts[v].pc = "insert" => puts[v].seen = {}
    <3> SUFFICES ASSUME NEW v \in Writer \ {w}, puts[v].pc = "insert" PROVE puts[v].seen = {}
      OBVIOUS
    <3>1. puts[v].seen = deposits \/ puts[v].seen = {}
      BY DEF DepInv, PutsOK, PutOK
    <3>2. puts[v].seen \cap t.seen = {}
      BY <1>1, <1>2 DEF DepInv, PutsOK, PutsApart
    <3> QED BY <2>2, <3>1, <3>2
  <2>10. PutsOK'
    BY <2>3, <2>5, <2>6, <2>9, IdlePut, OthersKept
  <2> QED BY <2>7, <2>8, <2>10, EditedInv
<1> QED BY <1>5, <1>6

-----------------------------------------------------------------------------
(* A sync beside the PUTs *)

(* A sync writes neither the profile nor the chain. *)
LEMMA SyncInv ==
  ASSUME DepInv, UNCHANGED <<ssn, deposits, puts, sent>>, RefOK', (\A t \in {sync} : SyncOK(t))'
  PROVE  DepInv'
<1>1. Old(deposits)' /\ OneChain(deposits)'
  BY DEF DepInv, Old, OneChain
<1>2. PutsOK'
  BY DEF DepInv, PutsOK, PutOK, PutsApart, Old
<1> QED BY <1>1, <1>2 DEF DepInv

(* A sync starts only on a record that reads stale. *)
LEMMA SyncStarts ==
  ASSUME DepInv, sync_employees
  PROVE  DepInv'
<1>1. PICK t : t = [pc |-> "reading", step |-> 1, mark |-> <<0, {}>>, payload |-> <<0, {}>>]
  OBVIOUS
<1>2. SyncOK(t)'
  BY <1>1 DEF SyncOK
<1>3. sync' = t /\ UNCHANGED <<ssn, deposits, puts, sent, ref, copy>> /\ ~Fresh
  BY <1>1 DEF sync_employees, provider_payload_stale, payload_fingerprint, Fresh
<1>4. (\A u \in {sync} : SyncOK(u))'
  BY <1>2, <1>3
<1>5. RefOK'
  BY <1>3 DEF DepInv, RefOK, Fresh, Old
<1> QED BY <1>3, <1>4, <1>5, SyncInv

(* One statement of four. *)
LEMMA ReadStep ==
  ASSUME DepInv, ReadNext
  PROVE  DepInv'
<1>1. PICK t : t = sync
  OBVIOUS
<1>2. SyncOK(t) /\ t.pc = "reading" /\ t.step \in 1..4
  BY <1>1 DEF DepInv, ReadNext, SyncOK
<1>3. Steps[1] = "fp_ssn" /\ Steps[2] = "fp_chain" /\ Steps[3] = "profile" /\ Steps[4] = "chain" /\ Len(Steps) = 4
  BY DEF Steps
<1>4. PICK u : u = sync'
  OBVIOUS
<1>5. u = [pc      |-> IF t.step = Len(Steps) THEN "deliver" ELSE "reading",
           step    |-> t.step + 1,
           mark    |-> IF Steps[t.step] = "fp_ssn" THEN <<ssn, t.mark[2]>>
                       ELSE IF Steps[t.step] = "fp_chain" THEN <<t.mark[1], deposits>> ELSE t.mark,
           payload |-> IF Steps[t.step] = "profile" THEN <<ssn, t.payload[2]>>
                       ELSE IF Steps[t.step] = "chain" THEN <<t.payload[1], deposits>>
                       ELSE t.payload]
  BY <1>1, <1>4 DEF ReadNext
<1>6. UNCHANGED <<ssn, deposits, puts, sent, ref, copy>>
  BY DEF ReadNext
<1>7. \A X : Old(X)' <=> Old(X)
  BY <1>6 DEF Old
<1>8. SyncOK(u)'
  <2>1. CASE t.step = 1
    <3>1. u.pc = "reading" /\ u.step = 2 /\ u.mark = <<ssn, t.mark[2]>> /\ u.payload = t.payload
      BY <1>3, <1>5, <2>1
    <3> QED BY <1>2, <1>6, <3>1 DEF SyncOK, DepInv
  <2>2. CASE t.step = 2
    <3>1. u.pc = "reading" /\ u.step = 3 /\ u.mark = <<t.mark[1], deposits>> /\ u.payload = t.payload
      BY <1>3, <1>5, <2>2
    <3> QED BY <1>2, <1>6, <1>7, <2>2, <3>1 DEF SyncOK, DepInv
  <2>3. CASE t.step = 3
    <3>1. u.pc = "reading" /\ u.step = 4 /\ u.mark = t.mark /\ u.payload = <<ssn, t.payload[2]>>
      BY <1>3, <1>5, <2>3
    <3> QED BY <1>2, <1>6, <1>7, <2>3, <3>1 DEF SyncOK, DepInv
  <2>4. CASE t.step = 4
    <3>1. u.pc = "deliver" /\ u.step = 5 /\ u.mark = t.mark /\ u.payload = <<t.payload[1], deposits>>
      BY <1>3, <1>5, <2>4
    <3> QED BY <1>2, <1>6, <1>7, <2>4, <3>1 DEF SyncOK, DepInv
  <2> QED BY <1>2, <2>1, <2>2, <2>3, <2>4
<1>9. (\A x \in {sync} : SyncOK(x))'
  BY <1>4, <1>8
<1>10. RefOK'
  BY <1>1, <1>2, <1>6 DEF DepInv, RefOK, Fresh, Old
<1> QED BY <1>6, <1>9, <1>10, SyncInv

(* No sync is under way. *)
LEMMA IdleSync == Idle.pc = "idle" /\ SyncOK(Idle)'
BY DEF Idle, SyncOK

(* The record is marked with what was read before it was built. *)
LEMMA DeliverStep ==
  ASSUME DepInv, Deliver
  PROVE  DepInv'
<1>1. PICK t : t = sync
  OBVIOUS
<1>2. SyncOK(t) /\ t.pc = "deliver" /\ t.step = 5
  BY <1>1 DEF DepInv, Deliver, SyncOK
<1>3. copy' = t.payload /\ ref' = t.mark /\ sync' = Idle /\ UNCHANGED <<ssn, deposits, puts, sent>>
  BY <1>1 DEF Deliver
<1>4. \A r \in t.payload[2] : _open_field(r)
  BY <1>1 DEF Deliver, _build_payroll_employee
<1>5. PICK q : q = t.mark
  OBVIOUS
<1>6. q = <<q[1], q[2]>> /\ q[1] \in Nat /\ q[1] <= ssn /\ Old(q[2])
      /\ (q[1] = ssn => t.payload[1] = ssn) /\ (q[2] # {} /\ q[2] = deposits => t.payload[2] = deposits)
      /\ OneChain(t.payload[2]) /\ t.payload = <<t.payload[1], t.payload[2]>>
  BY <1>2, <1>5 DEF SyncOK
<1>7. RefOK'
  <2>1. (ref # NoRef => ref = <<ref[1], ref[2]>> /\ ref[1] \in Nat /\ ref[1] <= ssn /\ Old(ref[2]))'
    BY <1>3, <1>5, <1>6 DEF Old
  <2>2. copy' # NoRef => OneChain(copy'[2]) /\ \A r \in copy'[2] : _open_field(r)
    BY <1>3, <1>4, <1>6
  <2>3. Fresh' => copy' = <<ssn', deposits'>>
    BY <1>3, <1>5, <1>6 DEF Fresh
  <2>4. sync'.pc = "idle"
    BY <1>3, IdleSync
  <2> QED BY <2>1, <2>2, <2>3, <2>4 DEF RefOK, NoRef
<1>8. (\A x \in {sync} : SyncOK(x))'
  BY <1>3, IdleSync
<1> QED BY <1>3, <1>7, <1>8, SyncInv

(* Nothing is stored: the record reads as stale as before. *)
LEMMA BlockedStep ==
  ASSUME DepInv, NEW acted \in BOOLEAN, SyncBlocked(acted)
  PROVE  DepInv'
<1>1. PICK t : t = sync
  OBVIOUS
<1>2. SyncOK(t) /\ t.pc = "deliver" /\ t.step = 5
  BY <1>1 DEF DepInv, SyncBlocked, SyncOK
<1>3. copy' = (IF acted THEN t.payload ELSE copy) /\ sync' = Idle /\ UNCHANGED <<ssn, deposits, puts, sent, ref>>
  BY <1>1 DEF SyncBlocked
<1>4. acted => (\A r \in t.payload[2] : _open_field(r)) /\ OneChain(t.payload[2])
  BY <1>1, <1>2 DEF SyncBlocked, _build_payroll_employee, SyncOK
<1>5. ~Fresh
  BY <1>1, <1>2 DEF DepInv, RefOK
<1>6. RefOK'
  <2>1. (ref # NoRef => ref = <<ref[1], ref[2]>> /\ ref[1] \in Nat /\ ref[1] <= ssn /\ Old(ref[2]))'
    BY <1>3 DEF DepInv, RefOK, Old
  <2>2. copy' # NoRef => OneChain(copy'[2]) /\ \A r \in copy'[2] : _open_field(r)
    BY <1>3, <1>4 DEF DepInv, RefOK
  <2>3. ~Fresh'
    BY <1>3, <1>5 DEF Fresh
  <2> QED BY <2>1, <2>2, <2>3 DEF RefOK, NoRef
<1>7. (\A x \in {sync} : SyncOK(x))'
  BY <1>3, IdleSync
<1> QED BY <1>3, <1>6, <1>7, SyncInv

(* Every step. *)
LEMMA DepInvStep ==
  ASSUME DepInv, [DepNext]_depVars
  PROVE  DepInv'
<1>1. CASE put_profile
  BY <1>1, ProfileStep
<1>2. CASE \E w \in Writer : \E body \in PutBody : put_deposit_accounts(w, body)
  BY <1>2, PutStep
<1>3. CASE \E w \in Writer : DeleteRows(w)
  BY <1>3, DeleteRowsStep
<1>4. CASE \E w \in Writer : InsertRows(w)
  BY <1>4, InsertStep
<1>5. CASE \E w \in Writer : PutFails(w)
  BY <1>5, PutEnds DEF PutFails
<1>6. CASE sync_employees
  BY <1>6, SyncStarts
<1>7. CASE ReadNext
  BY <1>7, ReadStep
<1>8. CASE Deliver
  BY <1>8, DeliverStep
<1>9. CASE \E acted \in BOOLEAN : SyncBlocked(acted)
  BY <1>9, BlockedStep
<1>10. CASE UNCHANGED depVars
  <2>1. UNCHANGED <<ssn, deposits, puts, sent, sync, ref, copy>>
    BY <1>10 DEF depVars
  <2>2. RefOK' /\ (\A t \in {sync} : SyncOK(t))'
    BY <2>1 DEF DepInv, RefOK, SyncOK, Fresh, Old
  <2> QED BY <2>1, <2>2, SyncInv
<1> QED BY <1>1, <1>2, <1>3, <1>4, <1>5, <1>6, <1>7, <1>8, <1>9, <1>10 DEF DepNext

(* However PUTs of the chain and a pay run's reads overlap, what is on file *)
(* and what the provider holds is one administrator's chain, whole and      *)
(* legal, opened in the slots it was sealed for; and a record that reads    *)
(* fresh is the chain on file (put_deposit_accounts, sync_employees).       *)
THEOREM PayArrives == DepSpec => []PayGoesWhereItSays
<1>1. DepInit => DepInv
  BY DepInitInv
<1>2. DepInv /\ [DepNext]_depVars => DepInv'
  BY DepInvStep
<1>3. DepInv => PayGoesWhereItSays
  BY DepInvSafe
<1> QED BY <1>1, <1>2, <1>3, PTL DEF DepSpec

-----------------------------------------------------------------------------
(* Targets *)

(* A standard of minutes, forecasts that are absent or a count of rooms,   *)
(* and filings of counts of rooms.                                         *)
TgInv ==
    /\ standard.basis \in {"none", "fixed_hours_per_day", "minutes_per_occupied_room"}
    /\ standard.value \in Nat
    /\ DOMAIN forecast = NextWeek /\ \A d \in NextWeek : forecast[d] \in Nat \cup {NoTarget}
    /\ facts \in Seq([day : PastDays, rooms : RoomCount])

LEMMA TgInitInv == ASSUME TgInit PROVE TgInv
  BY DEF TgInit, TgInv, NoStandard

LEMMA TgInvStep == ASSUME TgInv, [TgNext]_tgVars PROVE TgInv'
<1> USE TargetsConstants
<1>1. CASE UNCHANGED tgVars
  BY <1>1 DEF TgInv, tgVars
<1>2. ASSUME NEW basis \in {"fixed_hours_per_day", "minutes_per_occupied_room"}, NEW v \in PerRoom, upsert_standard(basis, v) PROVE TgInv'
  BY <1>2 DEF TgInv, upsert_standard
<1>3. CASE delete_standard
  BY <1>3 DEF TgInv, delete_standard, NoStandard
<1>4. ASSUME NEW d \in NextWeek, NEW r \in RoomCount, upsert_forecast(d, r) PROVE TgInv'
  BY <1>4 DEF TgInv, upsert_forecast
<1>5. ASSUME NEW d \in PastDays, NEW r \in RoomCount, File(d, r) PROVE TgInv'
  BY <1>5 DEF TgInv, File
<1> QED BY <1>1, <1>2, <1>3, <1>4, <1>5 DEF TgNext

(* A day of the week has a target or is counted as without a forecast. *)
LEMMA DaysAccounted ==
  ASSUME TgInv, standard.basis # "none"
  PROVE  Cardinality(Known) + week_targets.days_without_forecast = Cardinality(NextWeek)
<1> DEFINE unknown == {d \in NextWeek : forecast[d] = NoTarget}
           n == week_targets.days_without_forecast
<1>1. IsFiniteSet(NextWeek) /\ Cardinality(NextWeek) \in Nat
  BY TargetsConstants, FS_CardinalityType
<1>2. n = IF standard.basis = "minutes_per_occupied_room" THEN Cardinality(unknown) ELSE 0
  BY DEF week_targets
<1>3. CASE standard.basis = "fixed_hours_per_day"
  <2>1. Known = NextWeek
    BY <1>3 DEF Known, target, TgInv, NoTarget
  <2> HIDE DEF n, unknown
  <2>2. n = 0
    BY <1>2, <1>3
  <2> QED BY <1>1, <2>1, <2>2 DEF n
<1>4. CASE standard.basis = "minutes_per_occupied_room"
  <2>1. \A d \in NextWeek : forecast[d] # NoTarget => standard.value * forecast[d] # NoTarget
    <3> TAKE d \in NextWeek
    <3>1. \A x, y \in Nat : x * y \in Nat
      OBVIOUS
    <3>2. standard.value \in Nat /\ forecast[d] \in Nat \cup {NoTarget}
      BY DEF TgInv
    <3> QED BY <3>1, <3>2 DEF NoTarget
  <2>2. Known = NextWeek \ unknown
    BY <1>4, <2>1 DEF Known, target
  <2> DEFINE K == Known
  <2>3. K \in SUBSET NextWeek /\ unknown \in SUBSET NextWeek /\ K \cap unknown = {} /\ K \cup unknown = NextWeek
    BY <2>2
  <2> HIDE DEF unknown, K, n
  <2>4. IsFiniteSet(K) /\ IsFiniteSet(unknown)
    BY <1>1, <2>3, FS_Subset
  <2>5. Cardinality(K \cup unknown) = Cardinality(K) + Cardinality(unknown) - Cardinality(K \cap unknown)
    BY <2>4, FS_Union
  <2>6. Cardinality(K) \in Nat /\ Cardinality(unknown) \in Nat /\ Cardinality(K \cap unknown) = 0
    BY <2>3, <2>4, FS_CardinalityType, FS_EmptySet
  <2>7. n = Cardinality(unknown)
    BY <1>2, <1>4
  <2>8. Cardinality(NextWeek) = Cardinality(K) + Cardinality(unknown) - Cardinality(K \cap unknown)
    BY ONLY <2>3, <2>5, Zenon
  <2>9. PICK x, y, z, t : x = Cardinality(K) /\ y = Cardinality(unknown) /\ z = Cardinality(K \cap unknown)
                            /\ t = Cardinality(NextWeek)
    OBVIOUS
  <2>10. x \in Nat /\ y \in Nat /\ z = 0 /\ t = x + y - z /\ n = y
    BY ONLY <2>6, <2>7, <2>8, <2>9, Zenon
  <2>11. t = x + n
    BY ONLY <2>10
  <2> QED BY <2>9, <2>11 DEF K, n
<1> QED BY <1>3, <1>4 DEF TgInv

(* The last filings of the recent days are as many as the days, and have *)
(* the values that the days have.                                        *)
LEMMA LastOfEachDay ==
  ASSUME TgInv, NEW days, days = {facts[i].day : i \in 1..Len(facts)},
         NEW recent, recent = {d \in days : Cardinality({x \in days : x > d}) < Trailing}
  PROVE  Mean([i \in latest_per_day |-> facts[i].rooms]) = Mean([d \in recent |-> _rooms_occupied(d)])
<1> DEFINE N == 1..Len(facts)
           Of(d) == {i \in N : facts[i].day = d}
           k == [d \in recent |-> Max(Of(d))]
           f == [i \in latest_per_day |-> facts[i].rooms]
           g == [d \in recent |-> _rooms_occupied(d)]
           value == [i \in N |-> facts[i].day]
<1>1. N \subseteq Int /\ IsFiniteSet(N) /\ \A i \in N : facts[i].rooms \in Int
  <2> DEFINE Filing == [day : PastDays, rooms : RoomCount]
  <2>1. \A r \in Filing : r.rooms \in Int
    <3>1. \A r \in Filing : r.rooms \in RoomCount
      OBVIOUS
    <3>2. \A r \in RoomCount : r \in Int
      BY TargetsConstants
    <3> HIDE DEF Filing
    <3> QED BY <3>1, <3>2
  <2>2. facts \in Seq(Filing)
    BY DEF TgInv
  <2> HIDE DEF Filing
  <2>3. Len(facts) \in Nat /\ \A i \in N : facts[i] \in Filing
    BY <2>2
  <2>4. IsFiniteSet(N)
    BY <2>3, FS_Interval
  <2>5. ASSUME NEW i \in N PROVE facts[i].rooms \in Int
    <3>1. PICK r \in Filing : r = facts[i]
      BY <2>3
    <3> QED BY <2>1, <3>1
  <2> QED BY ONLY <2>4, <2>5
<1>2. IsFiniteSet(recent)
  <2>1. days = {value[i] : i \in DOMAIN value} /\ DOMAIN value = N
    OBVIOUS
  <2> HIDE DEF value, N
  <2>2. IsFiniteSet(days)
    BY <1>1, <2>1, ImageFinite
  <2>3. recent \in SUBSET days
    OBVIOUS
  <2> QED BY <2>2, <2>3, FS_Subset
<1>3. \A d \in recent : Max(Of(d)) \in N /\ facts[Max(Of(d))].day = d /\ Of(d) # {}
  <2> TAKE d \in recent
  <2> DEFINE S == Of(d)
  <2>1. S # {}
    OBVIOUS
  <2>2. S \in SUBSET N
    OBVIOUS
  <2> HIDE DEF S, N
  <2>3. S \subseteq Int /\ IsFiniteSet(S)
    BY <1>1, <2>2, FS_Subset
  <2>4. Max(S) \in S
    BY <2>1, <2>3, MaxOf
  <2> QED BY <2>1, <2>4 DEF S
<1>4. latest_per_day = {Max(Of(d)) : d \in recent}
  BY DEF latest_per_day
<1>5. \A d \in recent : _rooms_occupied(d) = facts[Max(Of(d))].rooms
  BY <1>3 DEF _rooms_occupied
<1> HIDE DEF N, Of
<1>6. DOMAIN k = recent /\ \A d, e \in recent : k[d] = k[e] => d = e
  BY <1>3
<1>7. /\ DOMAIN f = {k[d] : d \in recent} /\ DOMAIN g = recent
      /\ \A i \in DOMAIN f : f[i] \in Int
      /\ \A d \in recent : g[d] = f[k[d]]
  BY <1>1, <1>3, <1>4, <1>5
<1> HIDE DEF k, f, g
<1>8. Total(f) = Total(g) /\ Cardinality(DOMAIN f) = Cardinality(recent)
  <2>1. IsFiniteSet(recent)
    BY <1>2
  <2> QED BY ONLY <1>6, <1>7, <2>1, TotalRenamed
<1>9. Mean(f) = Mean(g)
  BY <1>7, <1>8 DEF Mean, Total
<1> QED BY <1>9 DEF f, g

LEMMA TgInvSafe == ASSUME TgInv PROVE HintsCountDays
<1> DEFINE days == {facts[i].day : i \in 1..Len(facts)}
           recent == {d \in days : Cardinality({x \in days : x > d}) < Trailing}
<1>1. Mean([i \in latest_per_day |-> facts[i].rooms]) = Mean([d \in recent |-> _rooms_occupied(d)])
  BY LastOfEachDay
<1>2. ASSUME days # {} PROVE hint_trailing_avg = Mean([i \in latest_per_day |-> facts[i].rooms])
  <2>1. facts # <<>>
    BY <1>2
  <2> QED BY <2>1 DEF hint_trailing_avg
<1> QED BY <1>1, <1>2, DaysAccounted DEF HintsCountDays

(* The week's targets account for every day, and the hints of the forecast  *)
(* count days and their last value, not filings (forecast_hints and         *)
(* targets of schedule_api.py): for any days, values and number of filings. *)
THEOREM DaysNotFilings == TgSpec => []HintsCountDays
<1>1. TgInit => TgInv
  BY TgInitInv
<1>2. TgInv /\ [TgNext]_tgVars => TgInv'
  BY TgInvStep
<1>3. TgInv => HintsCountDays
  BY TgInvSafe
<1> QED BY <1>1, <1>2, <1>3, PTL DEF TgSpec
=============================================================================
