----------------------------- MODULE MCAccounts -----------------------------
(***************************************************************************)
(* The accounting connection with two pushes at once and two QuickBooks    *)
(* companies, the statements, and the calculations behind the reports and  *)
(* the paychecks.  They share no state: a behaviour moves the one in       *)
(* focus, and the others rest in one of their initial states.              *)
(***************************************************************************)
EXTENDS QboTokens, Statements, Fiscal, WorkedHours, Paychecks

CONSTANTS c1, c2, oldCompany, newCompany

VARIABLE focus

-----------------------------------------------------------------------------
(* One code per way a fact can be read: two operated schedules, one schedule *)
(* under two sub-categories, miscellaneous income, the three unscheduled     *)
(* kinds, a code without an account, one on a schedule the statement does    *)
(* not know, and one of a second source.                                     *)

Mapped(source, sched, maj, sub, acct) ==
    [source |-> source, schedule |-> sched, major |-> maj, sub |-> sub, line |-> sub, account |-> acct]

MCAmount == {1, -1}

MCCode == {"room", "spa", "cafe", "park", "tax", "visa", "loss", "new", "odd", "alien"}

MCClass == [c \in MCCode |->
    CASE c = "room"  -> Mapped("opera", 1, "rev", "rooms", "a40")
      [] c = "spa"   -> Mapped("opera", 1, "rev", "wellness", "a40")
      [] c = "cafe"  -> Mapped("opera", 2, "rev", "food", "a41")
      [] c = "park"  -> Mapped("opera", 4, "rev", "parking", "a42")
      [] c = "tax"   -> Mapped("opera", 0, "taxes", "city", "a21")
      [] c = "visa"  -> Mapped("opera", 0, "settlements", "cards", "a11")
      [] c = "loss"  -> Mapped("opera", 0, "nonop", "loss", "a61")
      [] c = "new"   -> Mapped("opera", 2, "rev", "food", "none")
      [] c = "odd"   -> Mapped("opera", 9, "rev", "odd", "a43")
      [] OTHER       -> Mapped("clerk", 1, "rev", "rooms", "a40")]

(* Federal law, and a state with daily overtime, double time and the        *)
(* seventh day.                                                             *)
FLSA == [weekly |-> 5, ot |-> Never, dt |-> Never, seventh |-> Never, pays_double |-> FALSE]
California == [weekly |-> 3, ot |-> 2, dt |-> 4, seventh |-> 2, pays_double |-> TRUE]
Laws == {FLSA, California}

-----------------------------------------------------------------------------
AccountsInit ==
    /\ focus \in {"tokens", "statements", "fiscal", "overtime", "paychecks"}
    /\ QtInit /\ StInit /\ FcInit /\ OtInit /\ CkInit
    /\ focus # "statements" => ~notice
    /\ focus # "fiscal" => calendar = [kind |-> "calendar_month", month |-> 1, weekday |-> 0]
    /\ focus # "overtime" => rule = FLSA

AccountsNext ==
    /\ \/ /\ focus = "tokens" /\ QtNext
          /\ UNCHANGED <<stVars, fcVars, otVars, ckVars>>
       \/ /\ focus = "statements" /\ StNext
          /\ UNCHANGED <<qtVars, fcVars, otVars, ckVars>>
       \/ /\ focus = "fiscal" /\ FcNext
          /\ UNCHANGED <<qtVars, stVars, otVars, ckVars>>
       \/ /\ focus = "overtime" /\ OtNext
          /\ UNCHANGED <<qtVars, stVars, fcVars, ckVars>>
       \/ /\ focus = "paychecks" /\ CkNext
          /\ UNCHANGED <<qtVars, stVars, fcVars, otVars>>
    /\ UNCHANGED focus

AccountsSpec ==
    /\ AccountsInit
    /\ [][AccountsNext]_<<focus, qtVars, stVars, fcVars, otVars, ckVars>>
    /\ \A c \in Client : WF_qtVars(Push(c))
=============================================================================
