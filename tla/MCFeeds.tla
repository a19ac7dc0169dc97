------------------------------ MODULE MCFeeds ------------------------------
(***************************************************************************)
(* What the property's systems report: the exports of a property that      *)
(* audits day 1 after a close on day 0, and the demand of its CRM.  They   *)
(* share no state: a behaviour moves the one in focus and the other rests  *)
(* in one of its initial states.                                           *)
(***************************************************************************)
EXTENDS NightAudit, CrmDemand, TLC

VARIABLE focus

(* The trial balance of day 1 comes in three exports: one that follows from *)
(* day 0, one without a rooms line that follows once day 0 is corrected,    *)
(* and one whose sub-ledgers do not add up.  Its market statistics come in  *)
(* one export or in two.                                                    *)
Blank == [type |-> "", prop |-> "h1", day |-> 1, codes |-> {}, ar |-> 0, rest |-> 0, hotel |-> 0, act |-> 0,
           occupied |-> None, table |-> NoTable]
TrialBalance(day, codes, ar, act) ==
    [Blank EXCEPT !.type = "tb", !.day = day, !.codes = codes, !.ar = ar, !.hotel = ar, !.act = act]
Statistics(rooms) ==
    [Blank EXCEPT !.type = "ms", !.table = [ROOMS |-> rooms, ROOM_REVENUE |-> 1]]

Exports ==
    [tb0 |-> TrialBalance(0, {"a"}, 2, 0),
     tb1 |-> TrialBalance(1, {"a", "b"}, 3, 1),
     tb1b |-> TrialBalance(1, {"b"}, 2, 1),
     tb1c |-> [TrialBalance(1, {}, 3, 1) EXCEPT !.rest = 1],
     mf1 |-> [Blank EXCEPT !.type = "mf", !.occupied = 1],
     ms1 |-> Statistics(2)]
Reexports == Exports @@ [ms1b |-> Statistics(1)]

OneSegmentExport == Exports
TwoSegmentExports == Reexports
FilesOne == DOMAIN OneSegmentExport
FilesTwo == DOMAIN TwoSegmentExports

(* Two bookings share a night and a third spans two days. *)
MCStay == [b \in {"b1", "b2", "b3"} |->
    IF b = "b1" THEN [date |-> 2, night |-> 2]
    ELSE IF b = "b2" THEN [date |-> 1, night |-> 2] ELSE [date |-> 3, night |-> 3]]

-----------------------------------------------------------------------------
(* One component moves in a behaviour, so the pullers may be the workers. *)
FeedsAlike == Permutations(Worker)

FeedsInit ==
    /\ focus \in {"audit", "demand"}
    /\ NaInit /\ CrmInit
    /\ focus # "demand" => provider = "" /\ \A c \in Crm : listed[c] = <<>>

FeedsNext ==
    /\ \/ focus = "audit" /\ NaNext /\ UNCHANGED crmVars
       \/ focus = "demand" /\ CrmNext /\ UNCHANGED naVars
    /\ UNCHANGED focus

FeedsSpec == FeedsInit /\ [][FeedsNext]_<<focus, naVars, crmVars>>
=============================================================================
