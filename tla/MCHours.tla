------------------------------ MODULE MCHours ------------------------------
(***************************************************************************)
(* An employee's hours: two punches and an adjustment of one timecard with *)
(* two requests at once; the kiosk's clock over two business days of eight *)
(* ticks with a shift that expires after five; and a sick-leave ledger of  *)
(* three days, the last of them in a second calendar year, with two cards. *)
(* The three share no state: a behaviour moves the one in focus and the    *)
(* others rest.  A timecard's behaviours are cut in two: those without a   *)
(* purge, and those with one, of matched punches without an adjustment.    *)
(***************************************************************************)
EXTENDS SickLeave, Timecards, Timeclock, TLC

CONSTANTS s1, s2, p1, p2, a1, k1, k2, c1, c2

CardDays == c1 :> 1 @@ c2 :> 2

VARIABLE focus

HoursAlike == Permutations({s1, s2}) \cup Permutations({p1, p2}) \cup Permutations({k1, k2})

HoursInit ==
    /\ focus \in {"approval", "photos", "clock", "sick"}
    /\ TcInit /\ TkInit /\ SlInit
    /\ focus \in {"clock", "sick"} => ~overlap
    /\ focus # "clock" => ~atOnce

HoursNext ==
    /\ \/ focus = "approval" /\ UNCHANGED <<oldPunch, tkVars, slVars>> /\ TcNext
          /\ \A s \in Session : ~Purging(s)'
       \/ focus = "photos" /\ UNCHANGED <<unverified, adj, tkVars, slVars>> /\ TcNext
       \/ focus = "clock" /\ TkNext /\ UNCHANGED <<tcVars, slVars>>
       \/ focus = "sick" /\ SlNext /\ UNCHANGED <<tcVars, tkVars>>
          /\ Cardinality({d \in Day : adjusted[d] # 0})' <= 2
    /\ UNCHANGED focus

HoursSpec == HoursInit /\ [][HoursNext]_<<focus, tcVars, tkVars, slVars>>
=============================================================================
