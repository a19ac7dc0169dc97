----------------------------- MODULE SickLeave -----------------------------
(***************************************************************************)
(* One employee's sick-leave ledger: accruals written by timecard          *)
(* promotion, usage, voids and adjustments recorded by payroll, and the    *)
(* balance and the year's use derived from it (usali/sick_leave.py,        *)
(* sick_leave_api.py).                                                     *)
(*                                                                         *)
(* Entries of one kind and day matter only through their sum and their     *)
(* caps, so the ledger is kept that way; usage is a set because a second   *)
(* identical usage breaks the unique index.                                *)
(***************************************************************************)
EXTENDS Integers, FiniteSets, FiniteSetsExt

CONSTANTS LastDay,   \* days 1..LastDay
          YearDays,  \* days of a calendar year
          Card,      \* timecards
          CardDay,   \* a card's period_end
          Hour,      \* lengths of an absence or accrual
          Cap,       \* accrual caps a day length may give
          UsageCap   \* calendar-year usage caps a day length may give

NoCap == 1000  \* no cap is in force: no rules, or no day length to compute it from

ASSUME SickLeaveConstants ==
    /\ LastDay \in Nat /\ YearDays \in Nat \ {0} /\ IsFiniteSet(Card)
    /\ CardDay \in [Card -> 1..LastDay]
    /\ Hour \subseteq Nat \ {0} /\ Cap \subseteq Nat \ {0} /\ UsageCap \subseteq 0..NoCap - 1

VARIABLES accrual,  \* per card, its accrual entry
          usage,    \* usage entries: <<day, hours>>
          voided,   \* usage_void hours per day
          adjusted, \* adjustment hours per day, signed
          adjCap,   \* least cap recorded by the day's adjustments
          pending,  \* a usage that passed its checks and holds the employee's lock
          crossed,  \* a promotion committed since those checks
          entitled  \* per year, the greatest cap one of its usages was held to

slVars == <<accrual, usage, voided, adjusted, adjCap, pending, crossed, entitled>>

Day == 1..LastDay
NoEntry == [hours |-> 0, cap |-> NoCap]
NoUsage == <<0, 0>>
YearOf(d) == (d - 1) \div YearDays
Year == {YearOf(d) : d \in Day}

SlInit ==
    /\ accrual = [c \in Card |-> NoEntry]
    /\ usage = {}
    /\ voided = [d \in Day |-> 0]
    /\ adjusted = [d \in Day |-> 0]
    /\ adjCap = [d \in Day |-> NoCap]
    /\ pending = NoUsage
    /\ crossed = FALSE
    /\ entitled = [y \in Year |-> 0]

-----------------------------------------------------------------------------
(* The derivations *)

SumOver(f) == MapThenSumSet(LAMBDA k : f[k], DOMAIN f)
Used(u, d) == SumOver([e \in {e \in u : e[1] = d} |-> e[2]])
CardsOf(d) == {c \in Card : CardDay[c] = d}

DaySum(acc, u, d) ==
    SumOver([c \in CardsOf(d) |-> acc[c].hours]) - Used(u, d) + voided[d] + adjusted[d]

DayCap(acc, d) == Min({acc[c].cap : c \in CardsOf(d)} \cup {adjCap[d]})

(* _fold: the running balance at the end of each day; a day's entries are   *)
(* summed before the day's least recorded cap clamps the whole balance.     *)
_fold(acc, u) ==
    LET running[d \in 0..LastDay] ==
            IF d = 0 THEN 0
            ELSE Min({running[d - 1] + DaySum(acc, u, d), DayCap(acc, d)})
    IN  running

(* balance_on *)
balance_on(d) == _fold(accrual, usage)[d]

(* The least end-of-day balance, 0 included. *)
Lowest(acc, u) == LET balance == _fold(acc, u) IN Min({balance[d] : d \in 0..LastDay})

(* Faulty: only the balance on the day itself is looked at. *)
would_overdraw_OnTheDay(d, h) == _fold(accrual, usage \cup {<<d, h>>})[d] < 0

(* would_overdraw folds the whole timeline, days after the usage included. *)
would_overdraw(d, h) == Lowest(accrual, usage \cup {<<d, h>>}) < 0

YearDaysOf(y) == {d \in Day : YearOf(d) = y}

(* _used_in_year: usage less voids. *)
_used_in_year(y) == SumOver([d \in YearDaysOf(y) |-> Used(usage, d) - voided[d]])

-----------------------------------------------------------------------------
(* The writers.  record_usage, void_usage and record_adjustment hold the    *)
(* employee's row FOR UPDATE; promotion does not.                           *)

(* The cap is that of the day length on the day taken.  Without rules or a  *)
(* day length the code skips it, and the usage is held to the balance alone.*)
record_usage(d, h, cap) ==
    /\ pending = NoUsage
    /\ <<d, h>> \notin usage
    /\ ~would_overdraw(d, h)
    /\ cap # NoCap => _used_in_year(YearOf(d)) + h <= cap
    /\ entitled' = [entitled EXCEPT ![YearOf(d)] = Max({@, cap})]
    /\ pending' = <<d, h>>
    /\ crossed' = FALSE
    /\ UNCHANGED <<accrual, usage, voided, adjusted, adjCap>>

UsageCommit ==
    /\ pending # NoUsage
    /\ usage' = usage \cup {pending}
    /\ pending' = NoUsage
    /\ crossed' = FALSE
    /\ UNCHANGED <<accrual, voided, adjusted, adjCap, entitled>>

(* Faulty: the void is compared with nothing. *)
Voidable_Always(d, h) == TRUE

(* A void may not exceed the year's net usage. *)
Voidable(d, h) == h <= _used_in_year(YearOf(d))

void_usage(d, h) ==
    /\ pending = NoUsage
    /\ Voidable(d, h)
    /\ voided' = [voided EXCEPT ![d] = @ + h]
    /\ UNCHANGED <<accrual, usage, adjusted, adjCap, pending, crossed, entitled>>

(* A positive adjustment records the cap in force on its date. *)
record_adjustment(d, h, cap) ==
    /\ pending = NoUsage
    /\ adjusted[d] = 0
    /\ adjusted' = [adjusted EXCEPT ![d] = h]
    /\ adjCap' = IF h > 0 THEN [adjCap EXCEPT ![d] = Min({@, cap})] ELSE adjCap
    /\ UNCHANGED <<accrual, usage, voided, pending, crossed, entitled>>

(* accrue_for_card, on approval, re-approval and backfill: the card's entry *)
(* is deleted and rewritten from the hours and the day length of now.       *)
accrue_for_card(c, h, cap) ==
    /\ accrual' = [accrual EXCEPT ![c] = IF h = 0 THEN NoEntry ELSE [hours |-> h, cap |-> cap]]
    /\ crossed' = (pending # NoUsage)
    /\ UNCHANGED <<usage, voided, adjusted, adjCap, pending, entitled>>

SlNext ==
    \/ \E d \in Day, h \in Hour, cap \in UsageCap \cup {NoCap} : record_usage(d, h, cap)
    \/ \E d \in Day, h \in Hour : void_usage(d, h)
    \/ \E d \in Day, h \in Hour \cup {-h : h \in Hour}, cap \in Cap \cup {NoCap} :
           record_adjustment(d, h, cap)
    \/ \E c \in Card, h \in Hour \cup {0}, cap \in Cap \cup {NoCap} : accrue_for_card(c, h, cap)
    \/ UsageCommit

SlSpec == SlInit /\ [][SlNext]_slVars

-----------------------------------------------------------------------------
(* Properties *)

SlTypeOK ==
    /\ accrual \in [Card -> [hours : Hour \cup {0}, cap : Cap \cup {NoCap}]]
    /\ usage \subseteq Day \X Hour
    /\ voided \in [Day -> Nat]
    /\ adjusted \in [Day -> Int]
    /\ adjCap \in [Day -> Cap \cup {NoCap}]
    /\ pending \in (Day \X Hour) \cup {NoUsage}
    /\ crossed \in BOOLEAN
    /\ entitled \in [Year -> UsageCap \cup {0, NoCap}]

(* "sick leave cannot be overdrawn": recording or voiding usage never takes a *)
(* day's balance, that day's or a later one's, below zero (record_usage,      *)
(* would_overdraw).  The employee's lock makes this hold against every writer *)
(* that takes it; promotion does not, and a usage it crosses is excepted.     *)
UsageNeverOverdraws ==
    [][(usage' # usage \/ voided' # voided) /\ ~crossed /\ Lowest(accrual, usage) >= 0
         => Lowest(accrual, usage)' >= 0]_slVars

(* The year's entitlement is neither exceeded nor conjured up: in every year  *)
(* net use stays between zero and the greatest cap one of its usages was held *)
(* to, over any sequence of usage and voids ("a void of hours never taken     *)
(* would mint cap headroom").  A usage with no rules or no day length to      *)
(* compute a cap from is held to none, and neither is its year from then on.  *)
UnderCap(hours, y) == entitled[y] = NoCap \/ hours <= entitled[y]

YearUseWithinCap ==
    /\ SlTypeOK
    /\ \A y \in Year : 0 <= _used_in_year(y) /\ UnderCap(_used_in_year(y), y)

(* Promotion only ever adds hours.  Recording the cap "is what makes the fold *)
(* non-retroactive", where clamping history "extinguishes lawfully banked     *)
(* hours whenever an employee's day length decays (an unlawful denial)":      *)
(* a card's first accrual lowers no day's balance (accrue_for_card, _fold).   *)
AccrualNeverCosts ==
    [][\A c \in Card : accrual[c] = NoEntry /\ accrual'[c] # NoEntry
         => \A d \in Day : balance_on(d)' >= balance_on(d)]_slVars
=============================================================================
