---------------------------- MODULE HoursProofs -----------------------------
(***************************************************************************)
(* A timecard, its labor facts, its acknowledgments and its photos agree,  *)
(* for any number of punches, adjustments and concurrent requests; and the *)
(* sick leave of an employee is neither overdrawn nor taken beyond a       *)
(* year's cap, for any number of days, cards and entries; and no report of *)
(* the labor promoted tells one person's pay, whatever windows are asked;  *)
(* and the reports of a scheduled week are complete and agree; and a day   *)
(* punched one by one is paid as it was worked, or warned about.           *)
(***************************************************************************)
EXTENDS Timecards, SickLeave, LaborReports, Projection, Timeclock, SumTheorems

-----------------------------------------------------------------------------
(* Timecards *)

Purges == {"purging", "deleting", "stamping", "clearing"}
Removing == {"deleting", "stamping", "clearing"}
Unwinding == {"demoting", "demoted"}
Holding == {"promoted", "demoting", "demoted", "stamping"}

(* What a request knows that stays true whoever commits beside it: rows are *)
(* never deleted, an image is stored only for a punch not on record, what   *)
(* prices a card is decided with the pay type, and facts a request did not  *)
(* see are a backfill's.                                                    *)
Remembers(k) ==
    /\ k.pc \in {"punched", "linking"} => k.p \in Punch
    /\ k.pc = "linking" => k.links \subseteq rows \cup {k.p}
    /\ k.pc \in {"approving", "promoted"} => k.ack \subseteq Punch
    /\ k.pc = "promoted" =>
         /\ k.paid \in BOOLEAN /\ k.events \subseteq Event /\ (k.events # {} => k.paid)
         /\ k.paid \/ facts = {} \/ stray
    /\ k.pc = "demoting" => k \in [pc : {"demoting"}, deletes : BOOLEAN]
    /\ k.pc = "demoted" => k \in [pc : {"demoted"}, deletes : BOOLEAN, links : SUBSET rows]
    /\ k.pc \in Unwinding => k.deletes \/ facts = {} \/ stray
    /\ k.pc = "adjusting" => k.a \in Adj
    /\ k.pc = "filed" => k.paid \in BOOLEAN /\ k.events \subseteq Event
    /\ k.pc = "purging" => k \in [pc : {"purging"}, card : BOOLEAN, crossed : BOOLEAN]
    /\ k.pc \in Removing =>
         /\ k \in [pc : Removing, todo : SUBSET rows, gone : SUBSET rows, stamp : BOOLEAN,
                   crossed : BOOLEAN]
         /\ k.gone \cap images = {}

(* What a purge that nothing crossed has chosen may still go. *)
Chosen(k) ==
    /\ k.pc = "purging" /\ ~k.crossed /\ k.card => card.status = "approved" /\ card.old
    /\ k.pc = "deleting" /\ ~k.crossed /\ k.todo # {} =>
         card.status = "approved" /\ card.old /\ k.todo \subseteq linked
    /\ k.pc \in {"stamping", "clearing"} /\ ~k.crossed => k.todo \subseteq oldPunch \ linked

(* What a request knows besides as long as nobody else commits. *)
StillTrue(k) ==
    /\ k.pc \in {"punched", "linking"} => k.p \notin rows
    /\ k.pc = "linking" =>
         (k.creates => card.status = "none") /\ (card.status = "approved" => k.links = {})
    /\ k.pc \in {"approving", "promoted"} =>
         card.status = "open" /\ k.ack = linked \cap unverified
    /\ k.pc = "promoted" /\ k.paid => k.events = linked \cup adj
    /\ k.pc \in {"backfilling", "filed"} => card.status = "approved"
    /\ k.pc = "filed" /\ k.paid => k.events = linked \cup adj
    /\ k.pc = "adjusting" => card.status = "open"
    /\ k.pc = "purging" /\ k.card => card.status = "approved"
    /\ k.pc \in Removing /\ k.stamp =>
         /\ card.status = "approved"
         /\ linked \cap pointer \subseteq k.gone \cup (IF k.pc = "deleting" THEN k.todo ELSE {})

ByItself == \A s, q \in Session : s # q => Pc(s, "idle") \/ Pc(q, "idle")

(* Two requests never hold the card's row. *)
OneHolds == \A s, q \in Session : sess[s].pc \in Holding /\ sess[q].pc \in Holding => s = q

RequestsOK ==
    /\ \A s \in Session : Remembers(sess[s]) /\ Chosen(sess[s])
    /\ OneHolds
    /\ ~overlap => ByItself /\ \A s \in Session : StillTrue(sess[s])

TcInv == CardAgrees /\ PaidIsReviewed /\ RequestsOK

(* No card, no request: everything agrees. *)
LEMMA TcInitInv == ASSUME TcInit PROVE TcInv
<1>1. \A s \in Session : sess[s].pc = "idle"
  BY DEF TcInit, Idle
<1>2. ended \in BOOLEAN /\ payable \in BOOLEAN /\ overlap \in BOOLEAN
  BY Zenon DEF TcInit
<1>3. card \in [status : {"none", "open", "approved"}, old : BOOLEAN, stamped : BOOLEAN,
                acked : SUBSET Punch, paid : BOOLEAN]
  BY DEF TcInit, NoCard
<1>4. TcTypeOK
  BY <1>2, <1>3 DEF TcInit, TcTypeOK
<1>5. card.status = "none" /\ ~card.stamped
  BY DEF TcInit, NoCard
<1>6. RequestsOK
  BY <1>1 DEF RequestsOK, Remembers, Chosen, StillTrue, ByItself, OneHolds, Pc, Purges,
              Removing, Unwinding, Holding
<1> QED BY <1>4, <1>5, <1>6 DEF TcInv, CardAgrees, FactsFollowApproval, StampIsTrue,
           PurgedIsGone, PaidIsReviewed, TcInit

(* A step that only notes something in the request that takes it. *)
LEMMA Notes ==
  ASSUME TcInv, NEW s \in Session, NEW k,
         sess' = [sess EXCEPT ![s] = k],
         UNCHANGED <<card, rows, linked, unverified, pointer, images, adj, facts, accrued,
                     stray, oldPunch, ended, payable, overlap>>,
         Remembers(k), Chosen(k), ~overlap => StillTrue(k),
         k.pc \in Holding => sess[s].pc \in Holding \/ ~Locked,
         ~Pc(s, "idle") \/ Free(s) \/ k.pc = "idle"
  PROVE  TcInv'
<1> USE DEF TcInv
<1>1. /\ \A q \in Session : sess'[q] = IF q = s THEN k ELSE sess[q]
      /\ DOMAIN sess' = Session
  BY DEF CardAgrees, TcTypeOK
<1>2. CardAgrees' /\ PaidIsReviewed'
  <2>1. TcTypeOK'
    BY <1>1 DEF CardAgrees, TcTypeOK, Event
  <2> QED BY <2>1 DEF CardAgrees, FactsFollowApproval, StampIsTrue, PurgedIsGone, PaidIsReviewed
<1>3. \A q \in Session : Remembers(sess[q])' /\ Chosen(sess[q])'
  BY <1>1 DEF RequestsOK, Remembers, Chosen
<1>4. ASSUME ~overlap PROVE ByItself' /\ \A q \in Session : StillTrue(sess[q])'
  <2>1. ByItself'
    BY <1>1, <1>4 DEF RequestsOK, ByItself, Pc, Free
  <2>2. \A q \in Session : StillTrue(sess[q])'
    BY <1>1, <1>4 DEF RequestsOK, StillTrue
  <2> QED BY <2>1, <2>2
<1>5. OneHolds'
  <2>1. ~Locked => \A q \in Session : sess[q].pc \notin Holding
    BY DEF Locked, Flipping, Holding, Pc
  <2> QED BY <1>1, <2>1 DEF RequestsOK, OneHolds
<1> QED BY <1>2, <1>3, <1>4, <1>5 DEF RequestsOK

(* The requests' reads. *)
LEMMA ReadStep ==
  ASSUME TcInv, NEW s \in Session,
         \/ PunchAssemble(s)
         \/ \E ack \in SUBSET Punch : approve_timecard(s, ack)
         \/ promote_timecard(s)
         \/ reopen_timecard(s) \/ ReopenFlush(s) \/ ReopenRelinks(s)
         \/ promote_labor_cmd(s) \/ BackfillFiles(s)
         \/ \E a \in Adj : add_adjustment(s, a)
         \/ Abort(s)
  PROVE  TcInv'
<1> USE DEF Goto, photos, ledger, world
<1>0. TcTypeOK /\ Remembers(sess[s]) /\ (~overlap => StillTrue(sess[s]))
  BY DEF TcInv, CardAgrees, RequestsOK
<1> DEFINE Stands == UNCHANGED <<card, rows, linked, unverified, pointer, images, adj, facts,
                                 accrued, stray, oldPunch, ended, payable, overlap>>
<1>1. CASE PunchAssemble(s)
  <2> DEFINE a == assemble_timecard({sess[s].p})
  <2> DEFINE k == [pc |-> "linking", p |-> sess[s].p, unverified |-> sess[s].unverified,
                   creates |-> a.creates, links |-> a.links]
  <2>1. Pc(s, "punched") /\ sess[s].p \in Punch
    BY <1>0, <1>1 DEF PunchAssemble, Remembers, Pc
  <2>2. /\ k.links \subseteq rows \cup {k.p}
        /\ k.creates => card.status = "none"
        /\ card.status = "approved" => k.links = {}
    BY DEF assemble_timecard
  <2>3. sess' = [sess EXCEPT ![s] = k] /\ k.pc = "linking" /\ k.p = sess[s].p /\ Stands
    BY <1>1 DEF PunchAssemble
  <2> HIDE DEF k
  <2>4. /\ Remembers(k) /\ Chosen(k) /\ (~overlap => StillTrue(k)) /\ ~Pc(s, "idle")
        /\ k.pc \notin Holding
    BY <1>0, <2>1, <2>2, <2>3 DEF Remembers, Chosen, StillTrue, Pc, Purges, Removing, Unwinding,
                                  Holding
  <2> QED BY <2>3, <2>4, Notes
<1>2. ASSUME NEW ack \in SUBSET Punch, approve_timecard(s, ack)
      PROVE  TcInv'
  <2> DEFINE k == [pc |-> "approving", ack |-> ack]
  <2>1. Remembers(k) /\ Chosen(k) /\ StillTrue(k) /\ k.pc \notin Holding
    BY <1>2 DEF Remembers, Chosen, StillTrue, Purges, Removing, Unwinding, Holding,
                approve_timecard, Acknowledges
  <2>2. sess' = [sess EXCEPT ![s] = k] /\ Free(s) /\ Stands
    BY <1>2 DEF approve_timecard
  <2> HIDE DEF k
  <2> QED BY <2>1, <2>2, Notes
<1>3. CASE promote_timecard(s)
  <2> DEFINE k == [pc |-> "promoted", ack |-> sess[s].ack, paid |-> payable, events |-> Priced]
  <2>1. /\ sess[s].pc = "approving" /\ payable \in BOOLEAN /\ Priced \subseteq Event
        /\ payable => Priced = linked \cup adj
        /\ ~payable => Priced = {} /\ facts = {}
    BY <1>0, <1>3 DEF promote_timecard, Promotable, Priced, Pc, TcTypeOK, Event
  <2>2. k.pc = "promoted" /\ k.ack = sess[s].ack /\ k.paid = payable /\ k.events = Priced
    OBVIOUS
  <2>3. sess' = [sess EXCEPT ![s] = k] /\ ~Pc(s, "idle") /\ ~Locked /\ Stands
    BY <1>3 DEF promote_timecard, Pc
  <2> HIDE DEF k
  <2>4. Remembers(k) /\ Chosen(k) /\ (~overlap => StillTrue(k))
    BY <1>0, <2>1, <2>2 DEF Remembers, Chosen, StillTrue, Purges, Removing, Unwinding
  <2> QED BY <2>3, <2>4, Notes
<1>4. CASE reopen_timecard(s)
  <2> DEFINE k == [pc |-> "reopening"]
  <2>1. Remembers(k) /\ Chosen(k) /\ StillTrue(k) /\ k.pc \notin Holding
    BY DEF Remembers, Chosen, StillTrue, Purges, Removing, Unwinding, Holding
  <2>2. sess' = [sess EXCEPT ![s] = k] /\ Free(s) /\ Stands
    BY <1>4 DEF reopen_timecard
  <2> HIDE DEF k
  <2> QED BY <2>1, <2>2, Notes
<1>5. CASE ReopenFlush(s)
  <2> DEFINE k == demote_timecard(s)
  <2>1. Remembers(k) /\ Chosen(k) /\ StillTrue(k)
    BY DEF Remembers, Chosen, StillTrue, Purges, Removing, Unwinding, demote_timecard
  <2>2. sess' = [sess EXCEPT ![s] = k] /\ ~Pc(s, "idle") /\ ~Locked /\ Stands
    BY <1>5 DEF ReopenFlush, Pc
  <2> HIDE DEF k
  <2> QED BY <2>1, <2>2, Notes
<1>6. CASE ReopenRelinks(s)
  <2> DEFINE k == [pc |-> "demoted", deletes |-> sess[s].deletes, links |-> rows]
  <2>1. /\ sess[s].pc = "demoting" /\ sess[s].deletes \in BOOLEAN
        /\ sess[s].deletes \/ facts = {} \/ stray
    BY <1>0, <1>6 DEF ReopenRelinks, Pc, Remembers, Unwinding
  <2>2. /\ k \in [pc : {"demoted"}, deletes : BOOLEAN, links : SUBSET rows]
        /\ k.pc = "demoted" /\ k.deletes = sess[s].deletes
    BY <2>1
  <2>3. sess' = [sess EXCEPT ![s] = k] /\ ~Pc(s, "idle") /\ sess[s].pc \in Holding /\ Stands
    BY <1>6, <2>1 DEF ReopenRelinks, Pc, Holding
  <2> HIDE DEF k
  <2>4. Remembers(k) /\ Chosen(k) /\ StillTrue(k)
    BY <2>1, <2>2 DEF Remembers, Chosen, StillTrue, Purges, Removing, Unwinding
  <2> QED BY <2>3, <2>4, Notes
<1>7. CASE promote_labor_cmd(s)
  <2> DEFINE k == [pc |-> "backfilling"]
  <2>1. Remembers(k) /\ Chosen(k) /\ StillTrue(k) /\ k.pc \notin Holding
    BY <1>7 DEF Remembers, Chosen, StillTrue, Purges, Removing, Unwinding, Holding,
                promote_labor_cmd
  <2>2. sess' = [sess EXCEPT ![s] = k] /\ Free(s) /\ Stands
    BY <1>7 DEF promote_labor_cmd
  <2> HIDE DEF k
  <2> QED BY <2>1, <2>2, Notes
<1>8. CASE BackfillFiles(s)
  <2> DEFINE k == [pc |-> "filed", paid |-> payable, events |-> Priced]
  <2>1. /\ sess[s].pc = "backfilling" /\ payable \in BOOLEAN /\ Priced \subseteq Event
        /\ payable => Priced = linked \cup adj
    BY <1>0, <1>8 DEF BackfillFiles, Priced, Pc, TcTypeOK, Event
  <2>2. k.pc = "filed" /\ k.paid = payable /\ k.events = Priced
    OBVIOUS
  <2>3. sess' = [sess EXCEPT ![s] = k] /\ ~Pc(s, "idle") /\ Stands
    BY <1>8 DEF BackfillFiles, Pc
  <2> HIDE DEF k
  <2>4. Remembers(k) /\ Chosen(k) /\ (~overlap => StillTrue(k)) /\ k.pc \notin Holding
    BY <1>0, <2>1, <2>2 DEF Remembers, Chosen, StillTrue, Purges, Removing, Unwinding, Holding
  <2> QED BY <2>3, <2>4, Notes
<1>9. ASSUME NEW a \in Adj, add_adjustment(s, a)
      PROVE  TcInv'
  <2> DEFINE k == [pc |-> "adjusting", a |-> a]
  <2>1. Remembers(k) /\ Chosen(k) /\ StillTrue(k) /\ k.pc \notin Holding
    BY <1>9 DEF Remembers, Chosen, StillTrue, Purges, Removing, Unwinding, Holding,
                add_adjustment
  <2>2. sess' = [sess EXCEPT ![s] = k] /\ Free(s) /\ Stands
    BY <1>9 DEF add_adjustment
  <2> HIDE DEF k
  <2> QED BY <2>1, <2>2, Notes
<1>10. CASE Abort(s)
  <2>1. Remembers(Idle) /\ Chosen(Idle) /\ StillTrue(Idle) /\ Idle.pc = "idle"
        /\ Idle.pc \notin Holding
    BY DEF Remembers, Chosen, StillTrue, Purges, Removing, Unwinding, Holding, Idle
  <2>2. sess' = [sess EXCEPT ![s] = Idle] /\ Stands
    BY <1>10 DEF Abort
  <2> QED BY <2>1, <2>2, Notes
<1> QED BY <1>1, <1>2, <1>3, <1>4, <1>5, <1>6, <1>7, <1>8, <1>9, <1>10

CardType ==
    [status : {"none", "open", "approved"}, old : BOOLEAN, stamped : BOOLEAN,
     acked : SUBSET Punch, paid : BOOLEAN]

(* A request beside a commit: as it was, or it was crossed, or the facts it *)
(* deletes are gone already.                                                *)
Beside(new, old) ==
    \/ new = old
    \/ old.pc \in Purges /\ new = [old EXCEPT !.crossed = TRUE]
    \/ old.pc \in Unwinding /\ new = [old EXCEPT !.deletes = FALSE]

(* A request that was crossed is still the request it was. *)
LEMMA BesideKeeps ==
  ASSUME NEW old, NEW new, Remembers(old), Beside(new, old)
  PROVE  /\ new.pc = old.pc
         /\ old.pc \in Unwinding => new.deletes = old.deletes \/ ~new.deletes
         /\ old.pc \in Purges => new.crossed \/ new = old
         /\ old.pc \notin Purges \cup Unwinding => new = old
<1>1. CASE new = old
  BY <1>1
<1>2. CASE old.pc \in Purges /\ new = [old EXCEPT !.crossed = TRUE]
  BY <1>2 DEF Remembers, Purges, Removing, Unwinding
<1>3. CASE old.pc \in Unwinding /\ new = [old EXCEPT !.deletes = FALSE]
  BY <1>3 DEF Remembers, Purges, Removing, Unwinding
<1> QED BY <1>1, <1>2, <1>3 DEF Beside

(* What is left in a request's record is what it was. *)
LEMMA BesideRemembers ==
  ASSUME NEW q \in Session, Remembers(sess[q]), Beside(sess'[q], sess[q]),
         rows \subseteq rows', images' = images,
         sess[q].pc = "promoted" /\ ~sess[q].paid => facts' = {} \/ stray',
         sess[q].pc \in Unwinding /\ ~sess'[q].deletes => facts' = {} \/ stray'
  PROVE  Remembers(sess[q])'
<1> DEFINE old == sess[q]
           new == sess'[q]
<1>1. new.pc = old.pc
  BY BesideKeeps
<1>2. CASE old.pc \in Removing
  <2>1. /\ old \in [pc : Removing, todo : SUBSET rows, gone : SUBSET rows, stamp : BOOLEAN,
                    crossed : BOOLEAN]
        /\ old.gone \cap images = {}
    BY <1>2 DEF Remembers
  <2>2. new = old \/ new = [old EXCEPT !.crossed = TRUE]
    BY <1>2 DEF Beside, Removing, Unwinding
  <2>3. /\ new \in [pc : Removing, todo : SUBSET rows', gone : SUBSET rows', stamp : BOOLEAN,
                    crossed : BOOLEAN]
        /\ new.gone = old.gone
    BY <2>1, <2>2
  <2> QED BY <1>1, <1>2, <2>1, <2>3 DEF Remembers, Removing, Unwinding
<1>3. CASE old.pc = "purging"
  BY <1>1, <1>3 DEF Remembers, Beside, Removing, Unwinding, Purges
<1>4. CASE old.pc \in Unwinding
  <2>1. \/ old.pc = "demoting" /\ old \in [pc : {"demoting"}, deletes : BOOLEAN]
        \/ old.pc = "demoted" /\ old \in [pc : {"demoted"}, deletes : BOOLEAN, links : SUBSET rows]
    BY <1>4 DEF Remembers, Unwinding
  <2>2. new = old \/ new = [old EXCEPT !.deletes = FALSE]
    BY <1>4 DEF Beside, Purges, Unwinding
  <2>3. /\ old.pc = "demoting" => new \in [pc : {"demoting"}, deletes : BOOLEAN]
        /\ old.pc = "demoted" => new \in [pc : {"demoted"}, deletes : BOOLEAN, links : SUBSET rows']
    BY <2>1, <2>2
  <2> QED BY <1>1, <1>4, <2>3 DEF Remembers, Removing, Unwinding
<1>5. CASE old.pc \notin Purges \cup Unwinding
  <2>1. new = old
    BY <1>5, BesideKeeps
  <2> QED BY <1>5, <2>1 DEF Remembers, Purges, Removing, Unwinding
<1> QED BY <1>2, <1>3, <1>4, <1>5 DEF Purges, Removing

(* A request that ends leaves the others with what they know, and, where    *)
(* requests do not overlap, nobody else in flight.                          *)
LEMMA SessionEnds ==
  ASSUME TcInv, NEW s \in Session, ~Pc(s, "idle"),
         DOMAIN sess' = Session, sess'[s] = Idle,
         \A q \in Session \ {s} : Beside(sess'[q], sess[q]),
         rows \subseteq rows', images' = images, overlap' = overlap, oldPunch' = oldPunch,
         \A q \in Session \ {s} : sess[q].pc = "promoted" /\ ~sess[q].paid => facts' = {} \/ stray',
         \A q \in Session \ {s} : sess[q].pc \in Unwinding /\ ~sess'[q].deletes
                                    => facts' = {} \/ stray',
         \A q \in Session \ {s} : sess[q].pc \in Purges =>
             \/ sess'[q].crossed
             \/ linked' = linked /\ (card.status = "approved" => card'.status = "approved"
                                                                /\ card'.old = card.old)
  PROVE  RequestsOK'
<1>1. Idle.pc = "idle"
  BY DEF Idle
<1>2. \A q \in Session : Remembers(sess[q]) /\ Chosen(sess[q])
  BY DEF TcInv, RequestsOK
<1>3. \A q \in Session : Remembers(sess[q])'
  <2>1. Remembers(Idle)'
    BY <1>1 DEF Remembers, Purges, Removing, Unwinding
  <2>2. ASSUME NEW q \in Session, q # s PROVE Remembers(sess[q])'
    <3>1. /\ Remembers(sess[q]) /\ Beside(sess'[q], sess[q])
          /\ sess[q].pc = "promoted" /\ ~sess[q].paid => facts' = {} \/ stray'
          /\ sess[q].pc \in Unwinding /\ ~sess'[q].deletes => facts' = {} \/ stray'
      BY <1>2, <2>2
    <3> QED BY <3>1, BesideRemembers
  <2> QED BY <2>1, <2>2 DEF Remembers
<1>4. \A q \in Session \ {s} : sess'[q].pc = sess[q].pc
  BY <1>2, BesideKeeps
<1>5. \A q \in Session : Chosen(sess[q])'
  <2>1. ASSUME NEW q \in Session, q # s PROVE Chosen(sess[q])'
    <3>1. CASE sess[q].pc \in Purges
      <4>1. sess'[q].crossed \/ sess'[q] = sess[q]
        BY <1>2, <2>1, <3>1, BesideKeeps
      <4>2. Chosen(sess[q]) /\ sess'[q].pc = sess[q].pc
        BY <1>2, <1>4, <2>1
      <4>3. \/ sess'[q].crossed
            \/ linked' = linked /\ (card.status = "approved" => card'.status = "approved"
                                                               /\ card'.old = card.old)
        BY <2>1, <3>1
      <4> QED BY <4>1, <4>2, <4>3 DEF Chosen
    <3>2. CASE sess[q].pc \notin Purges
      BY <1>4, <2>1, <3>2 DEF Chosen, Purges
    <3> QED BY <3>1, <3>2
  <2> QED BY <1>1, <2>1 DEF Chosen
<1>6. OneHolds'
  BY <1>1, <1>4 DEF TcInv, RequestsOK, OneHolds, Holding
<1>7. ASSUME ~overlap PROVE \A q \in Session : sess'[q].pc = "idle"
  BY <1>1, <1>4, <1>7 DEF TcInv, RequestsOK, ByItself, Pc
<1> QED BY <1>3, <1>5, <1>6, <1>7 DEF RequestsOK, ByItself, StillTrue, Pc, Purges, Removing

(* The same, where the others stand still. *)
LEMMA SessionEndsAlone ==
  ASSUME TcInv, NEW s \in Session, ~Pc(s, "idle"), sess' = [sess EXCEPT ![s] = Idle],
         rows \subseteq rows', images' = images, oldPunch' = oldPunch, overlap' = overlap,
         linked' = linked, facts' = facts, stray' = stray,
         card.status = "approved" => card'.status = "approved" /\ card'.old = card.old
  PROVE  RequestsOK' /\ DOMAIN sess' = Session
<1>1. DOMAIN sess' = Session /\ sess'[s] = Idle /\ \A q \in Session \ {s} : sess'[q] = sess[q]
  BY DEF TcInv, CardAgrees, TcTypeOK
<1>2. \A q \in Session : Remembers(sess[q])
  BY DEF TcInv, RequestsOK
<1>3. \A q \in Session \ {s} : Beside(sess'[q], sess[q])
  BY <1>1 DEF Beside
<1>4. \A q \in Session \ {s} :
         /\ sess[q].pc = "promoted" /\ ~sess[q].paid => facts' = {} \/ stray'
         /\ sess[q].pc \in Unwinding /\ ~sess'[q].deletes => facts' = {} \/ stray'
  BY <1>1, <1>2 DEF Remembers
<1> QED BY <1>1, <1>3, <1>4, SessionEnds

(* The same, where the purges in flight are crossed. *)
LEMMA SessionEndsAcross ==
  ASSUME TcInv, NEW s \in Session, ~Pc(s, "idle"), DoneAcrossPurges(s),
         rows \subseteq rows', images' = images, oldPunch' = oldPunch, overlap' = overlap,
         (facts' = facts /\ stray' = stray) \/ sess[s].pc \in Holding
  PROVE  RequestsOK' /\ DOMAIN sess' = Session
<1>1. /\ DOMAIN sess' = Session /\ sess'[s] = Idle
      /\ \A q \in Session \ {s} :
            sess'[q] = IF sess[q].pc \in Purges THEN [sess[q] EXCEPT !.crossed = TRUE] ELSE sess[q]
  BY DEF DoneAcrossPurges, Purging, Purges
<1>2. \A q \in Session : Remembers(sess[q])
  BY DEF TcInv, RequestsOK
<1>3. \A q \in Session \ {s} : Beside(sess'[q], sess[q])
  BY <1>1 DEF Beside
<1>4. \A q \in Session \ {s} :
         /\ sess[q].pc = "promoted" /\ ~sess[q].paid => facts' = {} \/ stray'
         /\ sess[q].pc \in Unwinding /\ ~sess'[q].deletes => facts' = {} \/ stray'
  <2>1. CASE sess[s].pc \in Holding
    BY <2>1 DEF TcInv, RequestsOK, OneHolds, Holding, Unwinding
  <2>2. CASE facts' = facts /\ stray' = stray
    BY <1>1, <1>2, <2>2 DEF Remembers, Unwinding, Purges
  <2> QED BY <2>1, <2>2
<1>5. \A q \in Session \ {s} : sess[q].pc \in Purges => sess'[q].crossed
  <2>1. ASSUME NEW q \in Session \ {s}, sess[q].pc \in Purges PROVE sess'[q].crossed
    <3>1. sess'[q] = [sess[q] EXCEPT !.crossed = TRUE] /\ Remembers(sess[q])
      BY <1>1, <1>2, <2>1
    <3> QED BY <2>1, <3>1 DEF Remembers, Purges, Removing
  <2> QED BY <2>1
<1> QED BY <1>1, <1>3, <1>4, <1>5, SessionEnds

(* A punch stores its photo, and links itself to a card that is not approved. *)
LEMMA PunchStep ==
  ASSUME TcInv, NEW s \in Session,
         \/ \E p \in Punch, unv \in BOOLEAN : punch(s, p, unv)
         \/ PunchCommit(s)
  PROVE  TcInv'
<1> USE DEF ledger, world
<1>0. /\ TcTypeOK /\ Remembers(sess[s]) /\ (~overlap => StillTrue(sess[s]))
      /\ FactsFollowApproval /\ StampIsTrue /\ PurgedIsGone /\ PaidIsReviewed
  BY DEF TcInv, CardAgrees, RequestsOK
<1>1. ASSUME NEW p \in Punch, NEW unv \in BOOLEAN, punch(s, p, unv)
      PROVE  TcInv'
  <2> DEFINE k == [pc |-> "punched", p |-> p, unverified |-> unv]
  <2>1. /\ sess' = [sess EXCEPT ![s] = k] /\ k.pc = "punched" /\ k.p = p
        /\ images' = images \cup {p} /\ p \notin rows /\ Free(s)
        /\ UNCHANGED <<card, rows, linked, unverified, pointer, adj, facts, accrued, stray,
                       oldPunch, ended, payable, overlap>>
    BY <1>1 DEF punch, Goto
  <2> HIDE DEF k
  <2>2. /\ \A q \in Session : sess'[q] = IF q = s THEN k ELSE sess[q]
        /\ DOMAIN sess' = Session
    BY <1>0, <2>1 DEF TcTypeOK
  <2>3. TcTypeOK'
    BY <1>0, <2>1, <2>2 DEF TcTypeOK, Event
  <2>4. FactsFollowApproval' /\ StampIsTrue' /\ PurgedIsGone' /\ PaidIsReviewed'
    BY <1>0, <2>1 DEF FactsFollowApproval, StampIsTrue, PurgedIsGone, PaidIsReviewed
  <2>5. \A q \in Session : Remembers(sess[q])'
    <3>1. Remembers(k)'
      BY <2>1 DEF Remembers, Removing, Unwinding
    <3>2. ASSUME NEW q \in Session, Remembers(sess[q]) PROVE Remembers(sess[q])' \/ q = s
      <4>1. CASE sess[q].pc \in Removing /\ q # s
        <5>1. /\ sess[q] \in [pc : Removing, todo : SUBSET rows, gone : SUBSET rows,
                              stamp : BOOLEAN, crossed : BOOLEAN]
              /\ sess[q].gone \cap images = {} /\ sess[q].gone \subseteq rows
          BY <3>2, <4>1 DEF Remembers
        <5>2. sess[q].gone \cap images' = {} /\ rows' = rows /\ sess'[q] = sess[q]
          BY <2>1, <2>2, <4>1, <5>1
        <5> QED BY <4>1, <5>1, <5>2 DEF Remembers, Removing, Unwinding
      <4>2. CASE sess[q].pc \notin Removing /\ q # s
        BY <2>1, <2>2, <3>2, <4>2 DEF Remembers
      <4> QED BY <4>1, <4>2
    <3>3. Remembers(sess[s])'
      BY <2>2, <3>1 DEF Remembers
    <3> QED BY <3>2, <3>3 DEF TcInv, RequestsOK
  <2>6. ~overlap => ByItself' /\ \A q \in Session : StillTrue(sess[q])'
    BY <2>1, <2>2 DEF TcInv, RequestsOK, ByItself, StillTrue, Removing, Pc, Free
  <2>7. OneHolds' /\ \A q \in Session : Chosen(sess[q])'
    BY <2>1, <2>2 DEF TcInv, RequestsOK, OneHolds, Holding, Chosen
  <2> QED BY <2>1, <2>3, <2>4, <2>5, <2>6, <2>7 DEF TcInv, CardAgrees, RequestsOK
<1>2. CASE PunchCommit(s)
  <2> DEFINE p == sess[s].p
  <2>1. Pc(s, "linking") /\ p \in Punch /\ sess[s].links \subseteq rows \cup {p}
    BY <1>0, <1>2 DEF PunchCommit, Remembers, Pc
  <2>2. /\ ~Pc(s, "idle")
        /\ UNCHANGED <<images, oldPunch, adj, facts, accrued, stray, ended, payable, overlap>>
    BY <1>2 DEF PunchCommit, Pc
  <2>3. CASE sess[s].creates /\ card.status # "none"
    <3>1. sess' = [sess EXCEPT ![s] = Idle] /\ UNCHANGED <<card, rows, linked, unverified, pointer>>
      BY <1>2, <2>3 DEF PunchCommit, Goto
    <3>2. RequestsOK' /\ DOMAIN sess' = Session
      BY <2>2, <3>1, SessionEndsAlone
    <3>3. TcTypeOK'
      BY <1>0, <2>2, <3>1, <3>2 DEF TcTypeOK, Event
    <3>4. FactsFollowApproval' /\ StampIsTrue' /\ PurgedIsGone' /\ PaidIsReviewed'
      BY <1>0, <2>2, <3>1 DEF FactsFollowApproval, StampIsTrue, PurgedIsGone, PaidIsReviewed
    <3> QED BY <3>2, <3>3, <3>4 DEF TcInv, CardAgrees
  <2>4. CASE ~(sess[s].creates /\ card.status # "none")
    <3>1. /\ card' = IF sess[s].creates THEN [card EXCEPT !.status = "open"] ELSE card
          /\ rows' = rows \cup {p}
          /\ linked' = linked \cup sess[s].links
          /\ unverified' = unverified \/ unverified' = unverified \cup {p}
          /\ pointer' = pointer \cup {p}
          /\ IF sess[s].links \subseteq linked THEN Goto(s, Idle) ELSE DoneAcrossPurges(s)
      BY <1>2, <2>4 DEF PunchCommit
    <3>3. /\ card' \in CardType
          /\ \/ card' = card
             \/ card.status = "none" /\ card'.status = "open" /\ card'.stamped = card.stamped
                /\ card'.paid = card.paid
      BY <1>0, <2>4, <3>1 DEF CardType, TcTypeOK
    <3>2. RequestsOK' /\ DOMAIN sess' = Session
      <4>1. CASE sess[s].links \subseteq linked
        <5>1. linked' = linked /\ sess' = [sess EXCEPT ![s] = Idle]
          BY <3>1, <4>1 DEF Goto
        <5> QED BY <2>2, <3>1, <3>3, <5>1, SessionEndsAlone
      <4>2. CASE ~(sess[s].links \subseteq linked)
        BY <2>2, <3>1, <4>2, SessionEndsAcross
      <4> QED BY <4>1, <4>2
    <3>4. TcTypeOK'
      BY <1>0, <2>1, <2>2, <3>1, <3>2, <3>3 DEF TcTypeOK, Event, CardType
    <3>5. FactsFollowApproval'
      BY <1>0, <2>2, <3>3 DEF FactsFollowApproval
    <3>6. PurgedIsGone'
      BY <1>0, <2>2, <3>1 DEF PurgedIsGone
    <3>7. ASSUME ~overlap, card'.status = "approved"
          PROVE  card' = card /\ linked' = linked /\ p \notin rows /\ p \notin linked
      BY <1>0, <2>1, <3>1, <3>3, <3>7 DEF StillTrue, Pc, TcTypeOK
    <3>8. StampIsTrue'
      BY <1>0, <2>2, <3>1, <3>3, <3>7 DEF StampIsTrue
    <3>9. PaidIsReviewed'
      BY <1>0, <2>2, <3>1, <3>7 DEF PaidIsReviewed
    <3> QED BY <3>2, <3>4, <3>5, <3>6, <3>8, <3>9 DEF TcInv, CardAgrees
  <2> QED BY <2>3, <2>4
<1> QED BY <1>1, <1>2

(* Approval and reopening flip the status and the facts in one commit. *)
LEMMA ReviewStep ==
  ASSUME TcInv, NEW s \in Session,
         ApproveCommit(s) \/ ReopenCommit(s) \/ BackfillCommit(s) \/ AdjustCommit(s)
  PROVE  TcInv'
<1> USE DEF photos, ledger, world
<1>0. /\ TcTypeOK /\ Remembers(sess[s]) /\ (~overlap => StillTrue(sess[s]))
      /\ FactsFollowApproval /\ StampIsTrue /\ PurgedIsGone /\ PaidIsReviewed
  BY DEF TcInv, CardAgrees, RequestsOK
<1>1. /\ ~Pc(s, "idle")
      /\ UNCHANGED <<rows, unverified, pointer, images, oldPunch, ended, payable, overlap>>
  BY DEF ApproveCommit, ReopenCommit, BackfillCommit, AdjustCommit, Pc
<1>2. PurgedIsGone'
  BY <1>0, <1>1 DEF PurgedIsGone
<1>3. SUFFICES RequestsOK' /\ TcTypeOK' /\ FactsFollowApproval' /\ StampIsTrue' /\ PaidIsReviewed'
  BY <1>2 DEF TcInv, CardAgrees
<1>4. CASE ApproveCommit(s)
  <2>1. /\ sess[s].pc = "promoted" /\ sess[s].ack \subseteq Punch /\ sess[s].paid \in BOOLEAN
        /\ sess[s].events \subseteq Event /\ (sess[s].events # {} => sess[s].paid)
        /\ sess[s].paid \/ facts = {} \/ stray
    BY <1>0, <1>4 DEF ApproveCommit, Pc, Remembers
  <2>2. /\ card' = [card EXCEPT !.status = "approved", !.old = FALSE,
                                !.acked = sess[s].ack, !.paid = sess[s].paid]
        /\ IF sess[s].paid
           THEN facts' = sess[s].events /\ accrued' = sess[s].events /\ stray' = FALSE
           ELSE facts' = facts /\ accrued' = accrued /\ stray' = stray
        /\ UNCHANGED <<linked, adj>>
    BY <1>4 DEF ApproveCommit
  <2>3. /\ card' \in CardType /\ card'.status = "approved" /\ card'.stamped = card.stamped
        /\ card'.acked = sess[s].ack /\ card'.paid = sess[s].paid
    BY <1>0, <2>1, <2>2 DEF CardType, TcTypeOK
  <2>4. RequestsOK' /\ DOMAIN sess' = Session
    <3>1. DoneAcrossPurges(s) /\ sess[s].pc \in Holding
      BY <1>4, <2>1 DEF ApproveCommit, Holding
    <3> QED BY <1>1, <3>1, SessionEndsAcross
  <2>5. TcTypeOK'
    BY <1>0, <1>1, <2>1, <2>2, <2>3, <2>4 DEF TcTypeOK, CardType, Event
  <2>6. FactsFollowApproval'
    BY <2>1, <2>2, <2>3 DEF FactsFollowApproval
  <2>7. StampIsTrue'
    BY <1>0, <1>1, <2>1, <2>2, <2>3 DEF StampIsTrue, StillTrue
  <2>8. PaidIsReviewed'
    BY <1>0, <1>1, <2>1, <2>2, <2>3 DEF PaidIsReviewed, StillTrue
  <2> QED BY <2>4, <2>5, <2>6, <2>7, <2>8
<1>5. CASE ReopenCommit(s)
  <2>1. /\ sess[s].pc = "demoted" /\ sess[s].links \subseteq rows /\ sess[s].deletes \in BOOLEAN
        /\ sess[s].deletes \/ facts = {} \/ stray
    BY <1>0, <1>5 DEF ReopenCommit, Pc, Remembers, Unwinding
  <2>2. /\ card' \in CardType /\ card'.status = "open" /\ ~card'.stamped
        /\ IF sess[s].deletes THEN facts' = {} /\ stray' = FALSE ELSE facts' = facts /\ stray' = stray
        /\ linked' = linked \cup sess[s].links /\ UNCHANGED <<adj, accrued>>
    BY <1>5, <2>1 DEF ReopenCommit, Reopened, NoCard, CardType
  <2>3. RequestsOK' /\ DOMAIN sess' = Session
    <3>1. DoneAcrossPurges(s) /\ sess[s].pc \in Holding
      BY <1>5, <2>1 DEF ReopenCommit, Holding
    <3> QED BY <1>1, <3>1, SessionEndsAcross
  <2>4. TcTypeOK'
    BY <1>0, <1>1, <2>1, <2>2, <2>3 DEF TcTypeOK, CardType, Event
  <2>5. facts' = {} \/ stray'
    BY <2>1, <2>2
  <2> QED BY <2>2, <2>3, <2>4, <2>5 DEF FactsFollowApproval, StampIsTrue, PaidIsReviewed
<1>6. CASE BackfillCommit(s)
  <2> DEFINE k == sess[s]
  <2>1. /\ k.pc = "filed" /\ k.paid \in BOOLEAN /\ k.events \subseteq Event
        /\ ~overlap => card.status = "approved" /\ (k.paid => k.events = linked \cup adj)
    BY <1>0, <1>6 DEF BackfillCommit, Pc, Remembers, StillTrue
  <2>2. /\ UNCHANGED <<linked, adj>>
        /\ k.paid => /\ facts' = k.events /\ accrued' = k.events
                     /\ stray' = (card.status # "approved" \/ Flipping)
                     /\ card' = [card EXCEPT !.paid = TRUE]
        /\ ~k.paid => UNCHANGED <<card, facts, accrued, stray>>
    BY <1>6 DEF BackfillCommit
  <2>3. /\ card' \in CardType /\ card'.status = card.status /\ card'.stamped = card.stamped
        /\ card'.old = card.old /\ card'.acked = card.acked /\ (k.paid => card'.paid)
        /\ (~k.paid => card' = card)
    BY <1>0, <2>1, <2>2 DEF CardType, TcTypeOK
  <2>4. RequestsOK' /\ DOMAIN sess' = Session
    <3>1. /\ DOMAIN sess' = Session /\ sess'[s] = Idle
          /\ \A q \in Session \ {s} :
                sess'[q] = IF k.paid /\ sess[q].pc \in Unwinding
                           THEN [sess[q] EXCEPT !.deletes = FALSE] ELSE sess[q]
      BY <1>6 DEF BackfillCommit, Unwinding
    <3>2. \A q \in Session : Remembers(sess[q])
      BY DEF TcInv, RequestsOK
    <3>3. \A q \in Session \ {s} : Beside(sess'[q], sess[q])
      BY <3>1 DEF Beside
    <3>4. k.paid => \A q \in Session : sess[q].pc \in {"promoted", "demoting", "demoted"} => stray'
      BY <2>2 DEF Flipping
    <3>5. \A q \in Session \ {s} :
             /\ sess[q].pc = "promoted" /\ ~sess[q].paid => facts' = {} \/ stray'
             /\ sess[q].pc \in Unwinding /\ ~sess'[q].deletes => facts' = {} \/ stray'
      BY <2>1, <2>2, <3>1, <3>2, <3>4 DEF Remembers, Unwinding
    <3> QED BY <1>1, <2>2, <2>3, <3>1, <3>3, <3>5, SessionEnds
  <2>5. TcTypeOK'
    <3>1. stray' \in BOOLEAN
      BY <1>0, <2>1, <2>2 DEF TcTypeOK, Flipping
    <3> QED BY <1>0, <1>1, <2>1, <2>2, <2>3, <2>4, <3>1 DEF TcTypeOK, CardType, Event
  <2>6. FactsFollowApproval' /\ StampIsTrue'
    BY <1>0, <1>1, <2>1, <2>2, <2>3 DEF FactsFollowApproval, StampIsTrue
  <2>7. PaidIsReviewed'
    BY <1>0, <1>1, <2>1, <2>2, <2>3 DEF PaidIsReviewed
  <2> QED BY <2>4, <2>5, <2>6, <2>7
<1>7. CASE AdjustCommit(s)
  <2>1. sess[s].a \in Adj /\ (~overlap => card.status = "open")
    BY <1>0, <1>7 DEF AdjustCommit, Pc, Remembers, StillTrue
  <2>2. /\ adj' = adj \cup {sess[s].a} /\ sess' = [sess EXCEPT ![s] = Idle]
        /\ UNCHANGED <<card, linked, facts, accrued, stray>>
    BY <1>7 DEF AdjustCommit, Goto
  <2>3. RequestsOK' /\ DOMAIN sess' = Session
    BY <1>1, <2>2, SessionEndsAlone
  <2>4. TcTypeOK'
    BY <1>0, <1>1, <2>1, <2>2, <2>3 DEF TcTypeOK, Event
  <2> QED BY <1>0, <1>1, <2>1, <2>2, <2>3, <2>4 DEF FactsFollowApproval, StampIsTrue, PaidIsReviewed
<1> QED BY <1>4, <1>5, <1>6, <1>7

(* The purge: images first, then the pointers and the stamp. *)
LEMMA PurgeStep ==
  ASSUME TcInv, NEW s \in Session,
         \/ purge_approved_photos(s) \/ PurgePunches(s)
         \/ \E p \in Punch, fails \in BOOLEAN : _delete_photos(s, p, fails)
         \/ PurgeOrphans(s) \/ PurgeCommit(s)
  PROVE  TcInv'
<1> USE DEF Goto, photos, ledger, world
<1>0. /\ TcTypeOK /\ Remembers(sess[s]) /\ Chosen(sess[s]) /\ (~overlap => StillTrue(sess[s]))
      /\ FactsFollowApproval /\ StampIsTrue /\ PurgedIsGone /\ PaidIsReviewed
  BY DEF TcInv, CardAgrees, RequestsOK
<1> DEFINE Stands == UNCHANGED <<card, rows, linked, unverified, pointer, images, adj, facts,
                                 accrued, stray, oldPunch, ended, payable, overlap>>
<1>1. CASE purge_approved_photos(s)
  <2> DEFINE k == [pc |-> "purging", card |-> Purgeable, crossed |-> FALSE]
  <2>1. /\ k \in [pc : {"purging"}, card : BOOLEAN, crossed : BOOLEAN] /\ k.pc = "purging"
        /\ k.card => card.status = "approved" /\ card.old
    BY <1>0 DEF Purgeable, TcTypeOK
  <2>2. sess' = [sess EXCEPT ![s] = k] /\ Free(s) /\ Stands
    BY <1>1 DEF purge_approved_photos
  <2> HIDE DEF k
  <2>3. Remembers(k) /\ Chosen(k) /\ StillTrue(k) /\ k.pc \notin Holding
    BY <2>1 DEF Remembers, Chosen, StillTrue, Removing, Unwinding, Holding
  <2> QED BY <2>2, <2>3, Notes
<1>2. CASE PurgePunches(s)
  <2> DEFINE k == [pc |-> "deleting", todo |-> IF sess[s].card THEN linked \cap pointer ELSE {},
                   gone |-> {}, stamp |-> sess[s].card, crossed |-> sess[s].crossed]
  <2>1. /\ sess[s].pc = "purging" /\ sess[s].card \in BOOLEAN /\ sess[s].crossed \in BOOLEAN
    BY <1>0, <1>2 DEF PurgePunches, Pc, Remembers
  <2>2. /\ k.pc = "deleting" /\ k.gone = {} /\ k.stamp = sess[s].card /\ k.crossed = sess[s].crossed
        /\ k.todo = IF sess[s].card THEN linked \cap pointer ELSE {}
        /\ k \in [pc : Removing, todo : SUBSET rows, gone : SUBSET rows, stamp : BOOLEAN,
                  crossed : BOOLEAN]
    BY <1>0, <2>1 DEF TcTypeOK, Removing
  <2>3. sess' = [sess EXCEPT ![s] = k] /\ ~Pc(s, "idle") /\ Stands
    BY <1>2 DEF PurgePunches, Pc
  <2> HIDE DEF k
  <2>4. Remembers(k) /\ k.pc \notin Holding
    BY <2>2 DEF Remembers, Removing, Unwinding, Holding
  <2>5. Chosen(k) /\ (~overlap => StillTrue(k))
    BY <1>0, <2>1, <2>2 DEF Chosen, StillTrue, Removing
  <2> QED BY <2>3, <2>4, <2>5, Notes
<1>3. ASSUME NEW p \in Punch, NEW fails \in BOOLEAN, _delete_photos(s, p, fails)
      PROVE  TcInv'
  <2> DEFINE k == [sess[s] EXCEPT !.todo = @ \ {p},
                                  !.gone = IF fails THEN @ ELSE @ \cup {p},
                                  !.stamp = @ /\ ~(fails /\ sess[s].pc = "deleting")]
  <2>1. /\ sess[s].pc \in Removing /\ p \in sess[s].todo /\ p \in rows
        /\ sess[s] \in [pc : Removing, todo : SUBSET rows, gone : SUBSET rows, stamp : BOOLEAN,
                        crossed : BOOLEAN]
        /\ sess[s].gone \cap images = {}
    BY <1>0, <1>3 DEF _delete_photos, Remembers, Removing
  <2>2. /\ sess' = [sess EXCEPT ![s] = k] /\ ~Pc(s, "idle")
        /\ images' = IF fails THEN images ELSE images \ {p}
        /\ UNCHANGED <<card, rows, linked, unverified, pointer, adj, facts, accrued, stray,
                       oldPunch, ended, payable, overlap>>
    BY <1>3 DEF _delete_photos, Pc
  <2>3. /\ k.pc = sess[s].pc /\ k.crossed = sess[s].crossed /\ k.todo = sess[s].todo \ {p}
        /\ k.gone = (IF fails THEN sess[s].gone ELSE sess[s].gone \cup {p})
        /\ k.stamp => sess[s].stamp /\ ~(fails /\ sess[s].pc = "deleting")
        /\ k \in [pc : Removing, todo : SUBSET rows, gone : SUBSET rows, stamp : BOOLEAN,
                  crossed : BOOLEAN]
    BY <2>1
  <2> HIDE DEF k
  <2>4. /\ \A q \in Session : sess'[q] = IF q = s THEN k ELSE sess[q]
        /\ DOMAIN sess' = Session
    BY <1>0, <2>2 DEF TcTypeOK
  <2>5. TcTypeOK'
    BY <1>0, <2>2, <2>4 DEF TcTypeOK, Event
  <2>6. FactsFollowApproval' /\ StampIsTrue' /\ PurgedIsGone' /\ PaidIsReviewed'
    BY <1>0, <2>2 DEF FactsFollowApproval, StampIsTrue, PurgedIsGone, PaidIsReviewed
  <2>7. \A q \in Session : Remembers(sess[q])'
    <3>1. k.gone \cap images' = {}
      BY <2>1, <2>2, <2>3
    <3>2. Remembers(sess[s])'
      <4>1. sess'[s] = k /\ rows' = rows /\ k.pc \in Removing
        BY <2>1, <2>2, <2>3, <2>4
      <4> QED BY <2>3, <3>1, <4>1 DEF Remembers, Removing, Unwinding
    <3>3. ASSUME NEW q \in Session, q # s PROVE Remembers(sess[q])'
      <4>1. Remembers(sess[q]) /\ sess'[q] = sess[q] /\ images' \subseteq images
        BY <2>2, <2>4, <3>3 DEF TcInv, RequestsOK
      <4> QED BY <2>2, <4>1 DEF Remembers
    <3> QED BY <3>2, <3>3
  <2>8. \A q \in Session : Chosen(sess[q])'
    <3>1. Chosen(sess[s])'
      <4>1. sess'[s] = k
        BY <2>4
      <4>2. Chosen(sess[s]) /\ UNCHANGED <<card, linked, oldPunch>>
        BY <1>0, <2>2
      <4>3. /\ k.pc = sess[s].pc /\ k.crossed = sess[s].crossed
            /\ k.todo \subseteq sess[s].todo /\ (k.todo # {} => sess[s].todo # {})
            /\ k.pc # "purging"
        BY <2>1, <2>3 DEF Removing
      <4> QED BY ONLY <4>1, <4>2, <4>3 DEF Chosen
    <3>2. ASSUME NEW q \in Session, q # s PROVE Chosen(sess[q])'
      BY <2>2, <2>4, <3>2 DEF TcInv, RequestsOK, Chosen
    <3> QED BY <3>1, <3>2
  <2>9. OneHolds'
    BY <2>3, <2>4 DEF TcInv, RequestsOK, OneHolds
  <2>10. ASSUME ~overlap PROVE ByItself' /\ \A q \in Session : StillTrue(sess[q])'
    <3>1. StillTrue(sess[s])'
      <4>1. sess'[s] = k
        BY <2>4
      <4> QED BY <1>0, <2>1, <2>2, <2>3, <2>10, <4>1 DEF StillTrue, Removing
    <3>2. ASSUME NEW q \in Session, q # s PROVE StillTrue(sess[q])'
      BY <2>2, <2>4, <2>10, <3>2 DEF TcInv, RequestsOK, StillTrue
    <3>3. ByItself'
      BY <2>2, <2>4, <2>10 DEF TcInv, RequestsOK, ByItself, Pc
    <3> QED BY <3>1, <3>2, <3>3
  <2> QED BY <2>2, <2>5, <2>6, <2>7, <2>8, <2>9, <2>10 DEF TcInv, CardAgrees, RequestsOK
<1>4. CASE PurgeOrphans(s)
  <2> DEFINE k == [sess[s] EXCEPT !.pc = IF sess[s].stamp THEN "stamping" ELSE "clearing",
                                  !.todo = Orphans]
  <2>1. /\ sess[s].pc = "deleting" /\ sess[s].todo = {} /\ Orphans \subseteq rows
        /\ sess[s] \in [pc : Removing, todo : SUBSET rows, gone : SUBSET rows, stamp : BOOLEAN,
                        crossed : BOOLEAN]
        /\ sess[s].gone \cap images = {} /\ (sess[s].stamp => ~Locked)
    BY <1>0, <1>4 DEF PurgeOrphans, Pc, Remembers, Removing, Orphans
  <2>2. /\ k.pc = (IF sess[s].stamp THEN "stamping" ELSE "clearing") /\ k.stamp = sess[s].stamp
        /\ k.gone = sess[s].gone /\ k.crossed = sess[s].crossed /\ k.todo = Orphans
        /\ k \in [pc : Removing, todo : SUBSET rows, gone : SUBSET rows, stamp : BOOLEAN,
                  crossed : BOOLEAN]
    BY <2>1 DEF Removing
  <2>3. sess' = [sess EXCEPT ![s] = k] /\ ~Pc(s, "idle") /\ Stands
    BY <1>4, <2>1 DEF PurgeOrphans, Pc
  <2> HIDE DEF k
  <2>4. Remembers(k) /\ Chosen(k) /\ (k.pc \in Holding => ~Locked)
    BY <2>1, <2>2 DEF Remembers, Chosen, Removing, Unwinding, Holding, Orphans
  <2>5. ~overlap => StillTrue(k)
    BY <1>0, <2>1, <2>2 DEF StillTrue, Removing
  <2> QED BY <2>3, <2>4, <2>5, Notes
<1>5. CASE PurgeCommit(s)
  <2>1. /\ sess[s].pc \in {"stamping", "clearing"} /\ sess[s].stamp \in BOOLEAN
        /\ sess[s].gone \cap images = {}
    BY <1>0, <1>5 DEF PurgeCommit, Remembers, Removing
  <2>2. /\ pointer' = pointer \ sess[s].gone
        /\ card' = [card EXCEPT !.stamped = @ \/ sess[s].stamp]
        /\ sess' = [sess EXCEPT ![s] = Idle] /\ ~Pc(s, "idle")
        /\ UNCHANGED <<rows, linked, unverified, images, oldPunch, adj, facts, accrued, stray,
                       ended, payable, overlap>>
    BY <1>5, <2>1 DEF PurgeCommit, Pc
  <2>3. /\ card' \in CardType /\ card'.status = card.status /\ card'.acked = card.acked
        /\ card'.paid = card.paid /\ card'.old = card.old
        /\ (card'.stamped => card.stamped \/ sess[s].stamp)
    BY <1>0, <2>1, <2>2 DEF CardType, TcTypeOK
  <2>4. RequestsOK' /\ DOMAIN sess' = Session
    BY <2>2, <2>3, SessionEndsAlone
  <2>5. TcTypeOK'
    BY <1>0, <2>2, <2>3, <2>4 DEF TcTypeOK, CardType, Event
  <2>6. FactsFollowApproval' /\ PaidIsReviewed'
    BY <1>0, <2>2, <2>3 DEF FactsFollowApproval, PaidIsReviewed
  <2>7. PurgedIsGone'
    BY <1>0, <2>1, <2>2 DEF PurgedIsGone
  <2>8. StampIsTrue'
    BY <1>0, <2>1, <2>2, <2>3 DEF StampIsTrue, StillTrue, Removing
  <2> QED BY <2>4, <2>5, <2>6, <2>7, <2>8 DEF TcInv, CardAgrees
<1> QED BY <1>1, <1>2, <1>3, <1>4, <1>5

(* Time passes and pay types change around the card. *)
LEMMA WorldStep ==
  ASSUME TcInv, PeriodEnds \/ WindowPasses \/ SetPayType \/ UNCHANGED tcVars
  PROVE  TcInv'
<1> USE DEF photos, ledger, world, tcVars
<1>0. TcTypeOK /\ FactsFollowApproval /\ StampIsTrue /\ PurgedIsGone /\ PaidIsReviewed
  BY DEF TcInv, CardAgrees
<1>1. UNCHANGED <<rows, linked, unverified, pointer, images, adj, facts, accrued, stray, overlap,
                  sess>>
  BY DEF PeriodEnds, WindowPasses, SetPayType
<1>2. /\ card' \in CardType /\ card'.status = card.status /\ card'.acked = card.acked
      /\ card'.paid = card.paid /\ card'.stamped = card.stamped
      /\ card.status = "approved" /\ card.old => card'.old
      /\ oldPunch \subseteq oldPunch' /\ oldPunch' \subseteq rows
  BY <1>0 DEF PeriodEnds, WindowPasses, SetPayType, CardType, TcTypeOK
<1>3. ended' \in BOOLEAN /\ payable' \in BOOLEAN
  <2>1. ended \in BOOLEAN /\ payable \in BOOLEAN
    BY <1>0 DEF TcTypeOK
  <2>2. (ended' = ended \/ ended' = TRUE) /\ (payable' = payable \/ payable' = ~payable)
    BY DEF PeriodEnds, WindowPasses, SetPayType
  <2> QED BY <2>1, <2>2, Zenon
<1>4. TcTypeOK'
  BY <1>0, <1>1, <1>2, <1>3 DEF TcTypeOK, CardType, Event
<1>5. FactsFollowApproval' /\ StampIsTrue' /\ PurgedIsGone' /\ PaidIsReviewed'
  BY <1>0, <1>1, <1>2 DEF FactsFollowApproval, StampIsTrue, PurgedIsGone, PaidIsReviewed
<1>6. RequestsOK'
  <2>1. \A q \in Session : Remembers(sess[q])' /\ Chosen(sess[q])'
    BY <1>1, <1>2 DEF TcInv, RequestsOK, Remembers, Chosen
  <2>2. OneHolds' /\ (~overlap' => ByItself' /\ \A q \in Session : StillTrue(sess[q])')
    BY <1>1, <1>2 DEF TcInv, RequestsOK, OneHolds, StillTrue, ByItself, Pc
  <2> QED BY <2>1, <2>2 DEF RequestsOK
<1> QED BY <1>4, <1>5, <1>6 DEF TcInv, CardAgrees

(* Every step keeps the invariant. *)
LEMMA TcStep == TcInv /\ [TcNext]_tcVars => TcInv'
BY ReadStep, PunchStep, ReviewStep, PurgeStep, WorldStep DEF TcNext

(* Whatever punches, approvals, reopens, backfills and purges cross, on any   *)
(* number of sessions: labor facts exist only under an approved card that was *)
(* priced, those of a backfill that crossed a flip excepted; a cleared pointer *)
(* means the image is gone; and without overlap a purge stamp is true         *)
(* (approve_timecard, reopen_timecard, promote_labor_cmd,                     *)
(* purge_approved_photos).                                                    *)
THEOREM CardsAgree == TcSpec => []CardAgrees
<1>1. TcInv => CardAgrees
  BY DEF TcInv
<1> QED BY <1>1, TcInitInv, TcStep, PTL DEF TcSpec

(* Where requests do not overlap, an approved, payable card is priced and     *)
(* accrued from exactly what is on it, every unverified punch of it           *)
(* acknowledged in that approval (approve_timecard, promote_timecard).        *)
THEOREM PaidWasReviewed == TcSpec => []PaidIsReviewed
<1>1. TcInv => PaidIsReviewed
  BY DEF TcInv
<1> QED BY <1>1, TcInitInv, TcStep, PTL DEF TcSpec

(* An image leaves the store only by a purge, and only when it is past review *)
(* at that moment, some steps after the queries that chose it; unless an      *)
(* approval, a reopen or a linking committed across that purge.               *)
THEOREM EvidenceKept == TcSpec => EvidenceIsKept
<1> DEFINE Kept ==
             \A p \in images \ images' :
                PastReview(p) \/ \E s \in Session : Purging(s) /\ sess[s].crossed /\ sess'[s] # sess[s]
<1>1. ASSUME TcInv, TcNext PROVE Kept
  <2> USE DEF photos, world
  <2>1. ASSUME NEW s \in Session, NEW p \in Punch, NEW fails \in BOOLEAN, _delete_photos(s, p, fails)
        PROVE  Kept
    <3>1. /\ sess[s].pc \in Removing /\ p \in sess[s].todo /\ images \ images' \subseteq {p}
          /\ sess[s] \in [pc : Removing, todo : SUBSET rows, gone : SUBSET rows, stamp : BOOLEAN,
                          crossed : BOOLEAN]
          /\ Chosen(sess[s]) /\ DOMAIN sess = Session
      <4>1. Remembers(sess[s]) /\ Chosen(sess[s]) /\ DOMAIN sess = Session
        BY <1>1 DEF TcInv, RequestsOK, CardAgrees, TcTypeOK
      <4> QED BY <2>1, <4>1 DEF _delete_photos, Removing, Remembers
    <3>2. sess'[s].todo = sess[s].todo \ {p}
      BY <2>1, <3>1 DEF _delete_photos, Goto
    <3>3. sess[s].crossed \/ PastReview(p)
      BY <3>1 DEF Chosen, PastReview, Removing
    <3> QED BY <3>1, <3>2, <3>3 DEF Purging, Removing
  <2>2. ASSUME NEW s \in Session, NEW p \in Punch, NEW unv \in BOOLEAN, punch(s, p, unv)
        PROVE  images \subseteq images'
    BY <2>2 DEF punch
  <2>3. ASSUME NEW s \in Session,
               \/ PunchAssemble(s) \/ PunchCommit(s)
               \/ \E ack \in SUBSET Punch : approve_timecard(s, ack)
               \/ promote_timecard(s) \/ ApproveCommit(s)
               \/ reopen_timecard(s) \/ ReopenFlush(s) \/ ReopenRelinks(s) \/ ReopenCommit(s)
               \/ promote_labor_cmd(s) \/ BackfillFiles(s) \/ BackfillCommit(s)
               \/ \E a \in Adj : add_adjustment(s, a)
               \/ AdjustCommit(s)
               \/ purge_approved_photos(s) \/ PurgePunches(s) \/ PurgeOrphans(s) \/ PurgeCommit(s)
               \/ Abort(s)
        PROVE  images' = images
    BY <2>3 DEF PunchAssemble, PunchCommit, approve_timecard, promote_timecard, ApproveCommit,
                reopen_timecard, ReopenFlush, ReopenRelinks, ReopenCommit, promote_labor_cmd,
                BackfillFiles, BackfillCommit, add_adjustment, AdjustCommit,
                purge_approved_photos, PurgePunches, PurgeOrphans, PurgeCommit, Abort
  <2>4. ASSUME PeriodEnds \/ WindowPasses \/ SetPayType
        PROVE  images' = images
    BY <2>4 DEF PeriodEnds, WindowPasses, SetPayType
  <2> QED BY <1>1, <2>1, <2>2, <2>3, <2>4 DEF TcNext
<1>2. TcInv /\ [TcNext]_tcVars => [Kept]_tcVars
  BY <1>1
<1> QED BY <1>2, TcInitInv, TcStep, PTL DEF TcSpec, EvidenceIsKept

-----------------------------------------------------------------------------
(* The sick-leave ledger *)

(* What a sum of the ledger is. *)
LEMMA SumOverIsTotal == \A f : SumOver(f) = Total(f)
BY DEF SumOver, Total

(* Usage of a day is a number of hours, and grows by what is taken. *)
LEMMA UsedGrows ==
  ASSUME NEW u, u \subseteq Day \X Hour, IsFiniteSet(u)
  PROVE  /\ \A d \in Day : Used(u, d) \in Nat
         /\ \A x \in (Day \X Hour) \ u : \A d \in Day :
              Used(u \cup {x}, d) = Used(u, d) + (IF x[1] = d THEN x[2] ELSE 0)
<1> DEFINE On(v, d) == [e \in {e \in v : e[1] = d} |-> e[2]]
<1>1. ASSUME NEW v, v \subseteq Day \X Hour, IsFiniteSet(v), NEW d \in Day
      PROVE  Used(v, d) = Total(On(v, d)) /\ IsFiniteSet(DOMAIN On(v, d)) /\ \A e \in DOMAIN On(v, d) : On(v, d)[e] \in Nat
  <2>1. Used(v, d) = Total(On(v, d))
    BY SumOverIsTotal, Zenon DEF Used
  <2>2. {e \in v : e[1] = d} \in SUBSET v
    OBVIOUS
  <2>3. IsFiniteSet({e \in v : e[1] = d})
    BY <1>1, <2>2, FS_Subset, Zenon
  <2>4. \A e \in v : e[2] \in Nat
    BY <1>1, SickLeaveConstants
  <2> QED BY <2>1, <2>3, <2>4
<1>2. ASSUME NEW d \in Day PROVE Used(u, d) \in Nat
  <2>1. PICK f : f = On(u, d)
    OBVIOUS
  <2>2. Used(u, d) = Total(f) /\ IsFiniteSet(DOMAIN f) /\ \A e \in DOMAIN f : f[e] \in Nat
    BY <1>1, <2>1
  <2>3. 0 \in Nat /\ \A x, y \in Nat : x + y \in Nat
    OBVIOUS
  <2> QED BY <2>2, <2>3, TotalClosed
<1>3. ASSUME NEW x \in (Day \X Hour) \ u, NEW d \in Day
      PROVE  Used(u \cup {x}, d) = Used(u, d) + (IF x[1] = d THEN x[2] ELSE 0)
  <2>1. PICK v : v = u \cup {x}
    OBVIOUS
  <2>2. v \subseteq Day \X Hour /\ IsFiniteSet(v)
    <3>1. IsFiniteSet(u \cup {x})
      BY FS_AddElement
    <3> QED BY <2>1, <3>1
  <2>3. PICK f : f = On(v, d)
    OBVIOUS
  <2>4. PICK h : h = On(u, d)
    OBVIOUS
  <2>5. Used(v, d) = Total(f) /\ IsFiniteSet(DOMAIN f) /\ \A e \in DOMAIN f : f[e] \in Nat
    BY <1>1, <2>2, <2>3
  <2>6. Used(u, d) = Total(h)
    BY <1>1, <2>4
  <2>7. CASE x[1] = d
    <3>1. x \in DOMAIN f /\ f[x] = x[2] /\ DOMAIN h = DOMAIN f \ {x} /\ \A e \in DOMAIN h : h[e] = f[e]
      BY <2>1, <2>3, <2>4, <2>7
    <3>2. Total(f) = f[x] + Total(h)
      <4>1. IsFiniteSet(DOMAIN f) /\ \A e \in DOMAIN f : f[e] \in Int
        BY <2>5
      <4> QED BY ONLY <3>1, <4>1, TotalGrows
    <3>3. Total(h) \in Nat /\ f[x] \in Nat
      BY <1>2, <2>5, <2>6, <3>1
    <3> QED BY <2>1, <2>5, <2>6, <2>7, <3>1, <3>2, <3>3
  <2>8. CASE x[1] # d
    <3>1. {e \in v : e[1] = d} = {e \in u : e[1] = d}
      BY <2>1, <2>8
    <3>2. f = h
      BY <2>3, <2>4, <3>1
    <3> QED BY <1>2, <2>1, <2>5, <2>6, <2>8, <3>2
  <2> QED BY <2>7, <2>8
<1> QED BY <1>2, <1>3

(* g is f but for c more at x, when f has it. *)
MovesAt(f, g, x, c) ==
    /\ IsFiniteSet(DOMAIN f) /\ DOMAIN g = DOMAIN f /\ c \in Int
    /\ \A k \in DOMAIN f : f[k] \in Int /\ g[k] = f[k] + (IF k = x THEN c ELSE 0)

(* The year's use follows what one day's use does. *)
LEMMA YearMoves ==
  ASSUME NEW f, NEW g, NEW x, NEW c, MovesAt(f, g, x, c)
  PROVE  Total(f) \in Int /\ Total(g) = Total(f) + (IF x \in DOMAIN f THEN c ELSE 0)
<1> USE DEF MovesAt
<1>1. Total(f) \in Int
  BY PartInt
<1>2. CASE x \in DOMAIN f
  <2>1. (\A k \in DOMAIN f \ {x} : g[k] = f[k]) /\ g[x] = f[x] + c
    BY <1>2
  <2>2. Total(g) = Total(f) + c
    BY <1>2, <2>1, TotalMoves
  <2> QED BY <1>1, <1>2, <2>2
<1>3. CASE x \notin DOMAIN f
  <2>1. \A k \in DOMAIN f : f[k] = g[k]
    BY <1>3
  <2>2. Total(f) = Total(g)
    BY <2>1, TotalSame
  <2> QED BY <1>1, <1>3, <2>2
<1> QED BY <1>1, <1>2, <1>3

(* What a usage that passed its checks knows until it is written: it fits    *)
(* its year's cap, and no promotion since took what it draws on.             *)
PendingOK ==
    pending # NoUsage =>
        /\ pending \in (Day \X Hour) \ usage
        /\ UnderCap(_used_in_year(YearOf(pending[1])) + pending[2], YearOf(pending[1]))
        /\ ~crossed => ~would_overdraw(pending[1], pending[2])

SlInv ==
    /\ SlTypeOK /\ IsFiniteSet(usage) /\ PendingOK
    /\ \A y \in Year : _used_in_year(y) \in Nat /\ UnderCap(_used_in_year(y), y)

(* Use of a day, less what was voided of it. *)
NetUse(u, v, y) == [d \in YearDaysOf(y) |-> Used(u, d) - v[d]]

(* The sums of the year. *)
LEMMA NetUseOK ==
  ASSUME NEW u, u \subseteq Day \X Hour, IsFiniteSet(u), NEW v \in [Day -> Nat], NEW y
  PROVE  /\ IsFiniteSet(DOMAIN NetUse(u, v, y)) /\ DOMAIN NetUse(u, v, y) = YearDaysOf(y) /\ YearDaysOf(y) \subseteq Day
         /\ \A d \in YearDaysOf(y) : NetUse(u, v, y)[d] \in Int /\ NetUse(u, v, y)[d] = Used(u, d) - v[d]
<1>1. IsFiniteSet(Day)
  <2>1. 1 \in Int /\ LastDay \in Int
    BY SickLeaveConstants
  <2>2. IsFiniteSet(1..LastDay)
    BY ONLY <2>1, FS_Interval, Zenon
  <2> QED BY <2>2 DEF Day
<1>2. YearDaysOf(y) \in SUBSET Day
  BY DEF YearDaysOf
<1>3. IsFiniteSet(YearDaysOf(y))
  BY <1>1, <1>2, FS_Subset
<1>4. \A d \in Day : Used(u, d) \in Nat
  BY UsedGrows
<1> QED BY <1>2, <1>3, <1>4 DEF NetUse

(* What the code derives is that sum. *)
LEMMA UsedInYear ==
  /\ \A y : _used_in_year(y) = Total(NetUse(usage, voided, y))
  /\ \A y : _used_in_year(y)' = Total(NetUse(usage', voided', y))
<1>1. \A y : _used_in_year(y) = SumOver(NetUse(usage, voided, y))
  BY Zenon DEF _used_in_year, NetUse
<1>2. \A y : _used_in_year(y)' = SumOver(NetUse(usage', voided', y))
  BY Zenon DEF _used_in_year, NetUse, Used, YearDaysOf, Day, YearOf
<1> QED BY <1>1, <1>2, SumOverIsTotal

(* A year's greatest cap is a number, and only grows. *)
LEMMA Entitled ==
  ASSUME SlInv
  PROVE  /\ \A y \in Year : entitled[y] \in Nat
         /\ UsageCap \cup {0, NoCap} \subseteq 0..NoCap
<1>1. UsageCap \cup {0, NoCap} \subseteq 0..NoCap
  BY SickLeaveConstants DEF NoCap
<1>2. entitled \in [Year -> UsageCap \cup {0, NoCap}]
  BY DEF SlInv, SlTypeOK
<1> QED BY <1>1, <1>2

(* Where neither the use nor the greatest cap moved. *)
LEMMA SameFits ==
  ASSUME SlInv, UNCHANGED <<usage, voided, entitled>>
  PROVE  \A y \in Year : _used_in_year(y)' \in Nat /\ UnderCap(_used_in_year(y), y)'
<1>1. \A y : _used_in_year(y)' = _used_in_year(y)
  BY UsedInYear
<1> QED BY <1>1 DEF SlInv, UnderCap

(* Nothing was used and nothing voided. *)
LEMMA SameYear ==
  ASSUME UNCHANGED <<usage, voided>>
  PROVE  \A y : _used_in_year(y)' = _used_in_year(y)
<1>1. usage' = usage /\ voided' = voided
  OBVIOUS
<1> QED BY ONLY <1>1, UsedInYear

(* An empty ledger. *)
LEMMA SlInitInv == ASSUME SlInit PROVE SlInv
<1>1. SlTypeOK
  <2>1. crossed \in BOOLEAN
    BY Zenon DEF SlInit
  <2> QED BY <2>1 DEF SlInit, SlTypeOK, NoEntry, NoCap, NoUsage, Year
<1>2. usage = {} /\ voided = [d \in Day |-> 0] /\ pending = NoUsage
  BY DEF SlInit
<1>3. IsFiniteSet(usage)
  BY <1>2, FS_EmptySet
<1>4. \A f : DOMAIN f = {} => Total(f) = 0
  <2> SUFFICES ASSUME NEW f, DOMAIN f = {} PROVE Total(f) = 0
    OBVIOUS
  <2>1. IsFiniteSet(DOMAIN f)
    BY FS_EmptySet
  <2> QED BY <2>1, PartSteps
<1>5. \A d : Used({}, d) = 0
  <2> SUFFICES ASSUME NEW d PROVE Used({}, d) = 0
    OBVIOUS
  <2>1. PICK f : f = [e \in {e \in {} : e[1] = d} |-> e[2]]
    OBVIOUS
  <2>2. Used({}, d) = Total(f)
    BY <2>1, SumOverIsTotal, Zenon DEF Used
  <2>3. DOMAIN f = {}
    BY <2>1
  <2> QED BY <1>4, <2>2, <2>3
<1>6. ASSUME NEW y PROVE _used_in_year(y) = 0
  <2>1. PICK f : f = NetUse({}, voided, y)
    OBVIOUS
  <2>2. _used_in_year(y) = Total(f)
    BY <1>2, <2>1, UsedInYear
  <2>3. IsFiniteSet(DOMAIN f) /\ DOMAIN f \subseteq Day
    BY <1>1, <1>2, <1>3, <2>1, NetUseOK DEF SlTypeOK
  <2>4. \A d \in DOMAIN f : f[d] \in {0}
    BY <1>2, <1>5, <2>1, <2>3 DEF NetUse
  <2>5. 0 \in {0} /\ \A x, z \in {0} : x + z \in {0}
    OBVIOUS
  <2>6. Total(f) \in {0}
    BY <2>3, <2>4, <2>5, TotalClosed
  <2> QED BY <2>2, <2>6
<1>7. \A y \in Year : _used_in_year(y) \in Nat /\ UnderCap(_used_in_year(y), y)
  BY <1>6 DEF SlInit, UnderCap
<1> QED BY <1>1, <1>2, <1>3, <1>7 DEF SlInv, PendingOK

(* The greater of two caps. *)
LEMMA MoreOfTwo ==
  ASSUME NEW a \in Int, NEW b \in Int
  PROVE  Max({a, b}) = IF a >= b THEN a ELSE b
BY DEF Max

(* A usage that passes its checks is held; what it drew on stays until a    *)
(* promotion crosses it, and its year's greatest cap covers it.             *)
LEMMA RecordStep ==
  ASSUME SlInv, NEW d \in Day, NEW h \in Hour, NEW cap \in UsageCap \cup {NoCap}, record_usage(d, h, cap)
  PROVE  SlInv'
<1>1. pending' = <<d, h>> /\ crossed' = FALSE /\ UNCHANGED <<accrual, usage, voided, adjusted, adjCap>>
      /\ entitled' = [entitled EXCEPT ![YearOf(d)] = Max({@, cap})]
  BY DEF record_usage
<1>2. \A y : _used_in_year(y)' = _used_in_year(y)
  BY <1>1, SameYear
<1>y. YearOf(d) \in Year
  BY DEF Year
<1>e. PICK e : e = entitled'
  OBVIOUS
<1>3. /\ e \in [Year -> UsageCap \cup {0, NoCap}]
      /\ \A y \in Year : entitled[y] <= e[y] /\ e[y] \in 0..NoCap /\ entitled[y] \in 0..NoCap
      /\ cap <= e[YearOf(d)] /\ cap \in 0..NoCap
  <2>1. entitled \in [Year -> UsageCap \cup {0, NoCap}] /\ UsageCap \cup {0, NoCap} \subseteq 0..NoCap
    BY Entitled DEF SlInv, SlTypeOK
  <2>2. PICK a : a = entitled[YearOf(d)]
    OBVIOUS
  <2>3. a \in UsageCap \cup {0, NoCap} /\ a \in 0..NoCap /\ cap \in 0..NoCap
    BY <1>y, <2>1, <2>2
  <2>4. Max({a, cap}) = IF a >= cap THEN a ELSE cap
    BY <2>3, MoreOfTwo DEF NoCap
  <2>5. Max({a, cap}) \in UsageCap \cup {0, NoCap} /\ a <= Max({a, cap}) /\ cap <= Max({a, cap})
    BY <2>3, <2>4 DEF NoCap
  <2>6. PICK m, x : m = Max({a, cap}) /\ x = YearOf(d)
    OBVIOUS
  <2>7. e = [entitled EXCEPT ![x] = m]
    BY <1>1, <1>e, <2>2, <2>6
  <2>8. x \in Year /\ m \in UsageCap \cup {0, NoCap} /\ a <= m /\ cap <= m /\ a = entitled[x]
    BY <1>y, <2>2, <2>5, <2>6
  <2>9. e \in [Year -> UsageCap \cup {0, NoCap}] /\ e[x] = m /\ \A y \in Year : y # x => e[y] = entitled[y]
    BY ONLY <2>1, <2>7, <2>8
  <2>10. ASSUME NEW y \in Year PROVE entitled[y] <= e[y] /\ e[y] \in 0..NoCap /\ entitled[y] \in 0..NoCap
    <3>1. e[y] \in 0..NoCap /\ entitled[y] \in 0..NoCap
      BY ONLY <2>1, <2>9, <2>10
    <3> QED BY <2>8, <2>9, <3>1 DEF NoCap
  <2> QED BY <2>3, <2>6, <2>8, <2>9, <2>10
<1>4. SlTypeOK'
  <2>1. crossed' \in BOOLEAN
    BY <1>1, Zenon
  <2>2. Year' = Year
    BY DEF Year, Day, YearOf
  <2> QED BY <1>1, <1>e, <1>3, <2>1, <2>2 DEF SlInv, SlTypeOK
<1>5. \A y \in Year : _used_in_year(y)' \in Nat /\ UnderCap(_used_in_year(y), y)'
  <2> SUFFICES ASSUME NEW y \in Year PROVE _used_in_year(y)' \in Nat /\ UnderCap(_used_in_year(y), y)'
    OBVIOUS
  <2>1. _used_in_year(y) \in Nat /\ (entitled[y] = NoCap \/ _used_in_year(y) <= entitled[y])
    BY DEF SlInv, UnderCap
  <2>2. e[y] = NoCap \/ _used_in_year(y) <= e[y]
    <3>1. entitled[y] <= e[y] /\ e[y] \in 0..NoCap /\ entitled[y] \in 0..NoCap
      BY <1>3
    <3>2. PICK a, b, n : a = entitled[y] /\ b = e[y] /\ n = _used_in_year(y)
      OBVIOUS
    <3>3. a \in 0..1000 /\ b \in 0..1000 /\ n \in Nat /\ a <= b /\ (a = 1000 \/ n <= a)
      BY <2>1, <3>1, <3>2 DEF NoCap
    <3>4. b = 1000 \/ n <= b
      BY ONLY <3>3
    <3> QED BY <3>2, <3>4 DEF NoCap
  <2> QED BY <1>2, <1>e, <2>1, <2>2 DEF UnderCap
<1>6. ~would_overdraw(d, h)'
  <2>1. ~would_overdraw(d, h)
    BY DEF record_usage
  <2> QED BY <1>1, <2>1 DEF would_overdraw, Lowest, _fold, DaySum, DayCap
<1>7. PendingOK'
  <2>1. pending'[1] = d /\ pending'[2] = h
    BY <1>1
  <2>2. (cap # NoCap => _used_in_year(YearOf(d)) + h <= cap) /\ <<d, h>> \notin usage
    BY DEF record_usage
  <2>3. pending' \in (Day \X Hour) \ usage'
    BY <1>1, <2>2
  <2>4. e[YearOf(d)] = NoCap \/ _used_in_year(YearOf(d)) + h <= e[YearOf(d)]
    <3>1. _used_in_year(YearOf(d)) \in Nat /\ h \in Nat
      BY <1>y, SickLeaveConstants DEF SlInv
    <3>2. e[YearOf(d)] \in 0..NoCap /\ cap \in 0..NoCap /\ cap <= e[YearOf(d)]
      BY <1>y, <1>3
    <3>3. PICK b, n : b = e[YearOf(d)] /\ n = _used_in_year(YearOf(d)) + h
      OBVIOUS
    <3>4. b \in 0..1000 /\ cap \in 0..1000 /\ n \in Nat /\ cap <= b /\ (cap # 1000 => n <= cap)
      BY <2>2, <3>1, <3>2, <3>3 DEF NoCap
    <3>5. b = 1000 \/ n <= b
      BY ONLY <3>4
    <3> QED BY <3>3, <3>5 DEF NoCap
  <2>5. UnderCap(_used_in_year(YearOf(pending[1])) + pending[2], YearOf(pending[1]))'
    BY <1>2, <1>e, <2>1, <2>4 DEF UnderCap, YearOf
  <2>6. would_overdraw(pending[1], pending[2])' <=> would_overdraw(d, h)'
    BY <2>1 DEF would_overdraw, Lowest
  <2> QED BY <1>6, <2>3, <2>5, <2>6 DEF PendingOK
<1> QED BY <1>1, <1>4, <1>5, <1>7 DEF SlInv, Year, Day, YearOf

(* The hours of a usage are its year's. *)
LEMMA CommitStep ==
  ASSUME SlInv, UsageCommit
  PROVE  SlInv'
<1>1. pending' = NoUsage /\ crossed' = FALSE /\ usage' = usage \cup {pending}
      /\ UNCHANGED <<accrual, voided, adjusted, adjCap, entitled>>
  BY DEF UsageCommit
<1>2. PICK x : x = pending
  OBVIOUS
<1>3. x \in (Day \X Hour) \ usage /\ UnderCap(_used_in_year(YearOf(x[1])) + x[2], YearOf(x[1]))
  BY <1>2 DEF UsageCommit, SlInv, PendingOK
<1>4. usage \subseteq Day \X Hour /\ IsFiniteSet(usage) /\ voided \in [Day -> Nat]
  BY DEF SlInv, SlTypeOK
<1>5. PICK v : v = usage \cup {x}
  OBVIOUS
<1>6. usage' = v /\ v \subseteq Day \X Hour /\ IsFiniteSet(v)
  <2>1. IsFiniteSet(usage \cup {x})
    BY <1>4, FS_AddElement
  <2> QED BY <1>1, <1>2, <1>3, <1>4, <1>5, <2>1
<1>7. x[1] \in Day /\ x[2] \in Hour /\ x[2] \in Nat
  BY <1>3, SickLeaveConstants
<1>8. \A k \in Day : Used(usage, k) \in Nat /\ Used(v, k) = Used(usage, k) + (IF x[1] = k THEN x[2] ELSE 0)
  BY <1>3, <1>4, <1>5, UsedGrows
<1>9. ASSUME NEW y \in Year PROVE _used_in_year(y)' \in Nat /\ UnderCap(_used_in_year(y), y)'
  <2>1. PICK f, g : f = NetUse(usage, voided, y) /\ g = NetUse(v, voided, y)
    OBVIOUS
  <2>2. IsFiniteSet(DOMAIN f) /\ DOMAIN f = YearDaysOf(y) /\ YearDaysOf(y) \subseteq Day
        /\ \A k \in YearDaysOf(y) : f[k] \in Int /\ f[k] = Used(usage, k) - voided[k]
    BY <1>4, <2>1, NetUseOK
  <2>3. DOMAIN g = YearDaysOf(y) /\ \A k \in YearDaysOf(y) : g[k] = Used(v, k) - voided[k]
    BY <1>4, <1>6, <2>1, NetUseOK
  <2>4. \A k \in DOMAIN f : f[k] \in Int /\ g[k] = f[k] + (IF k = x[1] THEN x[2] ELSE 0)
    <3> SUFFICES ASSUME NEW k \in DOMAIN f PROVE f[k] \in Int /\ g[k] = f[k] + (IF k = x[1] THEN x[2] ELSE 0)
      OBVIOUS
    <3>1. f[k] \in Int /\ f[k] = Used(usage, k) - voided[k] /\ g[k] = Used(v, k) - voided[k]
          /\ voided[k] \in Nat /\ Used(usage, k) \in Nat /\ Used(v, k) = Used(usage, k) + (IF x[1] = k THEN x[2] ELSE 0)
      BY <1>4, <1>8, <2>2, <2>3
    <3> QED BY <1>7, <3>1
  <2>5. Total(f) \in Int /\ Total(g) = Total(f) + (IF x[1] \in DOMAIN f THEN x[2] ELSE 0)
    <3>1. MovesAt(f, g, x[1], x[2])
      BY <1>7, <2>2, <2>3, <2>4 DEF MovesAt
    <3> QED BY <3>1, YearMoves
  <2>6. _used_in_year(y) = Total(f) /\ _used_in_year(y)' = Total(g)
        /\ _used_in_year(y) \in Nat /\ UnderCap(_used_in_year(y), y)
    BY <1>1, <1>6, <2>1, UsedInYear DEF SlInv
  <2>7. x[1] \in DOMAIN f => YearOf(x[1]) = y
    BY <2>2 DEF YearDaysOf
  <2>8. entitled' = entitled /\ entitled[y] \in Nat
    BY <1>1, Entitled
  <2>9. Total(f) + x[2] \in Nat /\ (x[1] \in DOMAIN f => UnderCap(Total(f) + x[2], y))
    BY <1>3, <1>7, <2>6, <2>7
  <2>10. Total(g) \in Nat /\ UnderCap(Total(g), y)
    BY <1>7, <2>5, <2>6, <2>9
  <2> QED BY <2>6, <2>8, <2>10 DEF UnderCap
<1>10. SlTypeOK'
  <2>1. crossed' \in BOOLEAN
    BY <1>1, Zenon
  <2> QED BY <1>1, <1>6, <2>1 DEF SlInv, SlTypeOK
<1>11. PendingOK'
  BY <1>1 DEF PendingOK, NoUsage
<1>12. Year' = Year
  BY DEF Year, YearOf, Day
<1> QED BY <1>6, <1>9, <1>10, <1>11, <1>12 DEF SlInv

(* A void gives back no more than the year's use. *)
LEMMA VoidStep ==
  ASSUME SlInv, NEW d \in Day, NEW h \in Hour, void_usage(d, h)
  PROVE  SlInv'
<1>1. pending = NoUsage /\ voided' = [voided EXCEPT ![d] = @ + h] /\ h <= _used_in_year(YearOf(d))
      /\ UNCHANGED <<accrual, usage, adjusted, adjCap, pending, crossed, entitled>>
  BY DEF void_usage, Voidable
<1>2. usage \subseteq Day \X Hour /\ IsFiniteSet(usage) /\ voided \in [Day -> Nat] /\ h \in Nat
  BY SickLeaveConstants DEF SlInv, SlTypeOK
<1>3. PICK w : w = voided'
  OBVIOUS
<1>4. w \in [Day -> Nat] /\ \A k \in Day : w[k] = voided[k] + (IF k = d THEN h ELSE 0)
  BY <1>1, <1>2, <1>3
<1>5. ASSUME NEW y \in Year PROVE _used_in_year(y)' \in Nat /\ UnderCap(_used_in_year(y), y)'
  <2>1. PICK f, g : f = NetUse(usage, voided, y) /\ g = NetUse(usage, w, y)
    OBVIOUS
  <2>2. IsFiniteSet(DOMAIN f) /\ DOMAIN f = YearDaysOf(y) /\ YearDaysOf(y) \subseteq Day
        /\ \A k \in YearDaysOf(y) : f[k] \in Int /\ f[k] = Used(usage, k) - voided[k]
    BY <1>2, <2>1, NetUseOK
  <2>3. DOMAIN g = YearDaysOf(y) /\ \A k \in YearDaysOf(y) : g[k] = Used(usage, k) - w[k]
    BY <1>2, <1>4, <2>1, NetUseOK
  <2>4. \A k \in DOMAIN f : f[k] \in Int /\ g[k] = f[k] + (IF k = d THEN -h ELSE 0)
    <3> SUFFICES ASSUME NEW k \in DOMAIN f PROVE f[k] \in Int /\ g[k] = f[k] + (IF k = d THEN -h ELSE 0)
      OBVIOUS
    <3>1. Used(usage, k) \in Nat
      BY <1>2, <2>2, UsedGrows
    <3>2. f[k] \in Int /\ f[k] = Used(usage, k) - voided[k] /\ g[k] = Used(usage, k) - w[k]
          /\ voided[k] \in Nat /\ w[k] = voided[k] + (IF k = d THEN h ELSE 0)
      BY <1>2, <1>4, <2>2, <2>3
    <3> QED BY <1>2, <3>1, <3>2
  <2>5. Total(f) \in Int /\ Total(g) = Total(f) + (IF d \in DOMAIN f THEN -h ELSE 0)
    <3>1. PICK c : c = -h
      OBVIOUS
    <3>2. c \in Int /\ \A k \in DOMAIN f : f[k] \in Int /\ g[k] = f[k] + (IF k = d THEN c ELSE 0)
      BY <1>2, <2>4, <3>1
    <3>3. Total(f) \in Int /\ Total(g) = Total(f) + (IF d \in DOMAIN f THEN c ELSE 0)
      <4>1. MovesAt(f, g, d, c)
        BY <2>2, <2>3, <3>2 DEF MovesAt
      <4> QED BY <4>1, YearMoves
    <3> QED BY <3>1, <3>3
  <2>6. _used_in_year(y) = Total(f) /\ _used_in_year(y)' = Total(g)
        /\ _used_in_year(y) \in Nat /\ UnderCap(_used_in_year(y), y)
    BY <1>1, <1>3, <2>1, UsedInYear DEF SlInv
  <2>7. d \in DOMAIN f => YearOf(d) = y
    BY <2>2 DEF YearDaysOf
  <2>8. entitled' = entitled /\ entitled[y] \in Nat
    BY <1>1, Entitled
  <2>9. Total(g) \in Nat /\ Total(g) <= Total(f) /\ Total(f) \in Nat
    BY <1>1, <1>2, <2>5, <2>6, <2>7
  <2>10. UnderCap(Total(g), y)
    BY <2>6, <2>8, <2>9 DEF UnderCap
  <2> QED BY <2>6, <2>8, <2>9, <2>10 DEF UnderCap
<1>6. SlTypeOK'
  BY <1>1, <1>3, <1>4 DEF SlInv, SlTypeOK
<1>7. PendingOK'
  BY <1>1 DEF PendingOK, NoUsage
<1>8. Year' = Year
  BY DEF Year, YearOf, Day
<1> QED BY <1>1, <1>5, <1>6, <1>7, <1>8 DEF SlInv

(* The least of two numbers. *)
LEMMA LessOfTwo ==
  ASSUME NEW a \in Int, NEW b \in Int
  PROVE  Min({a, b}) = IF a <= b THEN a ELSE b
BY DEF Min

(* An adjustment is beside the year's use, and waits for the lock. *)
LEMMA AdjustStep ==
  ASSUME SlInv, NEW d \in Day, NEW h \in Int, NEW cap \in Cap \cup {NoCap}, record_adjustment(d, h, cap)
  PROVE  SlInv'
<1>1. pending = NoUsage /\ adjusted' = [adjusted EXCEPT ![d] = h]
      /\ adjCap' = (IF h > 0 THEN [adjCap EXCEPT ![d] = Min({@, cap})] ELSE adjCap)
      /\ UNCHANGED <<accrual, usage, voided, pending, crossed, entitled>>
  BY DEF record_adjustment
<1>2. \A y \in Year : _used_in_year(y)' \in Nat /\ UnderCap(_used_in_year(y), y)'
  BY <1>1, SameFits
<1>3. adjCap[d] \in Cap \cup {NoCap} /\ Cap \cup {NoCap} \subseteq Int
  BY SickLeaveConstants DEF SlInv, SlTypeOK, NoCap
<1>4. Min({adjCap[d], cap}) \in Cap \cup {NoCap}
  BY <1>3, LessOfTwo
<1>5. SlTypeOK'
  BY <1>1, <1>4 DEF SlInv, SlTypeOK
<1>6. PendingOK'
  BY <1>1 DEF PendingOK, NoUsage
<1> QED BY <1>1, <1>2, <1>5, <1>6 DEF SlInv, Year, Day, YearOf

(* Promotion does not wait, and says that it crossed a usage. *)
LEMMA AccrueStep ==
  ASSUME SlInv, NEW c \in Card, NEW h \in Hour \cup {0}, NEW cap \in Cap \cup {NoCap}, accrue_for_card(c, h, cap)
  PROVE  SlInv'
<1>1. accrual' = [accrual EXCEPT ![c] = IF h = 0 THEN NoEntry ELSE [hours |-> h, cap |-> cap]]
      /\ UNCHANGED <<usage, voided, adjusted, adjCap, pending, entitled>>
  BY DEF accrue_for_card
<1>2. \A y \in Year : _used_in_year(y)' \in Nat /\ UnderCap(_used_in_year(y), y)'
  BY <1>1, SameFits
<1>3. crossed' \in BOOLEAN
  BY Zenon DEF accrue_for_card
<1>4. crossed' <=> pending # NoUsage
  BY Zenon DEF accrue_for_card
<1>5. SlTypeOK'
  BY <1>1, <1>3 DEF SlInv, SlTypeOK, NoEntry, NoCap
<1>6. PendingOK'
  <2> SUFFICES ASSUME pending # NoUsage PROVE PendingOK'
    BY <1>1 DEF PendingOK, NoUsage
  <2>1. pending' \in (Day \X Hour) \ usage'
    BY <1>1 DEF SlInv, PendingOK
  <2>2. PICK x : x = pending
    OBVIOUS
  <2>3. UnderCap(_used_in_year(YearOf(x[1])) + x[2], YearOf(x[1]))
    BY <2>2 DEF SlInv, PendingOK
  <2>5. \A y : _used_in_year(y)' = _used_in_year(y)
    BY <1>1, SameYear
  <2>4. UnderCap(_used_in_year(YearOf(pending[1])) + pending[2], YearOf(pending[1]))'
    BY <1>1, <2>2, <2>3, <2>5 DEF UnderCap, YearOf
  <2> QED BY <1>4, <2>1, <2>4 DEF PendingOK
<1> QED BY <1>1, <1>2, <1>5, <1>6 DEF SlInv, Year, Day, YearOf

(* Every step. *)
LEMMA SlInvStep ==
  ASSUME SlInv, [SlNext]_slVars
  PROVE  SlInv'
<1>1. CASE \E d \in Day, h \in Hour, cap \in UsageCap \cup {NoCap} : record_usage(d, h, cap)
  BY <1>1, RecordStep
<1>2. CASE \E d \in Day, h \in Hour : void_usage(d, h)
  BY <1>2, VoidStep
<1>3. CASE \E d \in Day, h \in Hour \cup {-h : h \in Hour}, cap \in Cap \cup {NoCap} : record_adjustment(d, h, cap)
  <2>1. \A h \in Hour : h \in Int /\ -h \in Int
    BY SickLeaveConstants
  <2> QED BY <1>3, <2>1, AdjustStep
<1>4. CASE \E c \in Card, h \in Hour \cup {0}, cap \in Cap \cup {NoCap} : accrue_for_card(c, h, cap)
  BY <1>4, AccrueStep
<1>5. CASE UsageCommit
  BY <1>5, CommitStep
<1>6. CASE UNCHANGED slVars
  <2>1. UNCHANGED <<accrual, usage, voided, adjusted, adjCap, pending, crossed, entitled>>
    BY <1>6 DEF slVars
  <2>2. \A y \in Year : _used_in_year(y)' \in Nat /\ UnderCap(_used_in_year(y), y)'
    BY <2>1, SameFits
  <2>3. SlTypeOK'
    BY <2>1 DEF SlInv, SlTypeOK, Year, Day, YearOf
  <2>4. PendingOK'
    BY <2>1 DEF SlInv, PendingOK, would_overdraw, Lowest, _fold, DaySum, DayCap, _used_in_year, UnderCap
  <2> QED BY <2>1, <2>2, <2>3, <2>4 DEF SlInv, Year, Day, YearOf
<1> QED BY <1>1, <1>2, <1>3, <1>4, <1>5, <1>6 DEF SlNext

(* In every year net use stays between zero and the greatest cap a usage of *)
(* it was held to, over any sequence of usage, voids, adjustments and       *)
(* accruals, with and without a day length (record_usage, void_usage).      *)
THEOREM YearUseBounded == SlSpec => []YearUseWithinCap
<1>1. SlInit => SlInv
  BY SlInitInv
<1>2. SlInv /\ [SlNext]_slVars => SlInv'
  BY SlInvStep
<1>3. SlInv => YearUseWithinCap
  BY DEF SlInv, YearUseWithinCap
<1> QED BY <1>1, <1>2, <1>3, PTL DEF SlSpec

-----------------------------------------------------------------------------
(* The running balance *)

(* A day's balance from the day before, the day's sum and its cap. *)
Balance(s, c, b, d) == IF d = 0 THEN 0 ELSE Min({b[d - 1] + s[d], c[d]})
FoldOf(s, c, b) == b = [d \in 0..LastDay |-> Balance(s, c, b, d)]

(* Sums and caps determine a balance of every day. *)
LEMMA FoldExists ==
  ASSUME NEW s, NEW c
  PROVE  \E b : FoldOf(s, c, b)
<1> DEFINE N == 0..LastDay
           Upto(b, n) == \A d \in N : d <= n => b[d] = Balance(s, c, b, d)
           T == {n \in Nat : ~\E b : Upto(b, n)}
<1>1. \A d \in N : d = 0 \/ (d - 1 \in N /\ d - 1 < d)
  BY SickLeaveConstants
<1>2. 0 \notin T
  <2> DEFINE b == [d \in N |-> 0]
  <2>1. Upto(b, 0)
    BY SickLeaveConstants DEF Balance
  <2> QED BY <2>1
<1>3. ASSUME NEW m \in Nat, m # 0, m - 1 \notin T PROVE m \notin T
  <2>1. PICK b : Upto(b, m - 1)
    BY <1>3
  <2> DEFINE h == [d \in N |-> Balance(s, c, b, d)]
  <2>2. ASSUME NEW d \in N, d <= m
        PROVE  h[d] = Balance(s, c, h, d)
    <3>1. CASE d = 0
      BY <3>1 DEF Balance
    <3>2. CASE d # 0
      <4>1. d - 1 \in N /\ d - 1 <= m - 1
        BY <1>1, <1>3, <2>2, <3>2, SickLeaveConstants
      <4>2. h[d - 1] = b[d - 1]
        BY <2>1, <4>1
      <4> QED BY <3>2, <4>2 DEF Balance
    <3> QED BY <3>1, <3>2
  <2> HIDE DEF h
  <2> QED BY <2>2
<1> HIDE DEF T
<1>4. T = {}
  <2> SUFFICES ASSUME T # {} PROVE FALSE
    OBVIOUS
  <2>1. T \in SUBSET Nat
    BY DEF T
  <2>2. PICK m \in T : \A k \in T : m <= k
    BY <2>1, LeastElement
  <2>3. m \in Nat /\ m # 0 /\ m - 1 \in Nat /\ m - 1 \notin T
    BY <1>2, <2>1, <2>2
  <2> QED BY <1>3, <2>2, <2>3
<1>5. PICK b : Upto(b, LastDay)
  BY <1>4, SickLeaveConstants DEF T
<1> DEFINE h == [d \in N |-> b[d]]
<1>6. \A d \in N : h[d] = b[d] /\ b[d] = Balance(s, c, b, d)
  BY <1>5, SickLeaveConstants
<1>7. ASSUME NEW d \in N PROVE h[d] = Balance(s, c, h, d)
  <2>1. CASE d = 0
    BY <1>6, <2>1 DEF Balance
  <2>2. CASE d # 0
    <3>1. h[d - 1] = b[d - 1]
      BY <1>1, <1>6, <2>2
    <3> HIDE DEF h
    <3> QED BY <1>6, <2>2, <3>1 DEF Balance
  <2> QED BY <2>1, <2>2
<1>8. h = [d \in N |-> h[d]]
  OBVIOUS
<1> HIDE DEF h
<1>9. h = [d \in N |-> Balance(s, c, h, d)]
  BY <1>7, <1>8
<1> QED BY <1>9 DEF FoldOf

(* Sums and caps of a ledger. *)
Sums == [Day -> Int]

(* Balances are whole hours; more of a day lowers the balance of none. *)
LEMMA FoldGrows ==
  ASSUME NEW s \in Sums, NEW t \in Sums, NEW c \in Sums, \A d \in Day : s[d] <= t[d],
         NEW a, FoldOf(s, c, a), NEW b, FoldOf(t, c, b)
  PROVE  \A d \in 0..LastDay : a[d] \in Int /\ b[d] \in Int /\ a[d] <= b[d]
<1> DEFINE OK(d) == a[d] \in Int /\ b[d] \in Int /\ a[d] <= b[d]
           T == {n \in 0..LastDay : ~OK(n)}
<1>1. \A d \in 0..LastDay : a[d] = Balance(s, c, a, d) /\ b[d] = Balance(t, c, b, d)
  BY DEF FoldOf
<1>2. ASSUME NEW d \in 0..LastDay, d = 0 \/ OK(d - 1)
      PROVE  OK(d)
  <2>1. CASE d = 0
    <3>1. a[d] = 0 /\ b[d] = 0
      BY <1>1, <2>1, Zenon DEF Balance
    <3> QED BY <3>1
  <2>2. CASE d # 0
    <3>1. d \in Day /\ OK(d - 1)
      BY <1>2, <2>2 DEF Day
    <3>2. s[d] \in Int /\ t[d] \in Int /\ c[d] \in Int /\ s[d] <= t[d]
      BY <3>1 DEF Sums
    <3>3. a[d] = Min({a[d - 1] + s[d], c[d]}) /\ b[d] = Min({b[d - 1] + t[d], c[d]})
      BY <1>1, <2>2 DEF Balance
    <3>4. a[d] = (IF a[d - 1] + s[d] <= c[d] THEN a[d - 1] + s[d] ELSE c[d])
      BY <3>1, <3>2, <3>3, LessOfTwo
    <3>5. b[d] = (IF b[d - 1] + t[d] <= c[d] THEN b[d - 1] + t[d] ELSE c[d])
      BY <3>1, <3>2, <3>3, LessOfTwo
    <3> QED BY <3>1, <3>2, <3>4, <3>5
  <2> QED BY <2>1, <2>2
<1> HIDE DEF OK
<1>3. T = {}
  <2> SUFFICES ASSUME T # {} PROVE FALSE
    OBVIOUS
  <2>1. T \in SUBSET Nat
    BY SickLeaveConstants
  <2>2. PICK m \in T : \A k \in T : m <= k
    <3> HIDE DEF T
    <3> QED BY <2>1, LeastElement
  <2>3. m \in 0..LastDay /\ ~OK(m)
    BY <2>2
  <2>4. m # 0 => m - 1 \in 0..LastDay /\ m - 1 \notin T
    BY <2>2, <2>3, SickLeaveConstants
  <2> QED BY <1>2, <2>3, <2>4
<1> QED BY <1>3 DEF OK

(* Finitely many numbers have a least. *)
LEMMA LeastOfMany ==
  ASSUME NEW n \in Nat, NEW b, \A d \in 0..n : b[d] \in Int
  PROVE  LET S == {b[d] : d \in 0..n} IN Min(S) \in S /\ \A x \in S : Min(S) <= x
<1> DEFINE P(k) == \E m \in 0..k : \A d \in 0..k : b[m] <= b[d]
           T == {k \in 0..n : ~P(k)}
<1>1. P(0)
  OBVIOUS
<1>2. ASSUME NEW k \in 1..n, P(k - 1) PROVE P(k)
  <2>1. PICK m \in 0..(k - 1) : \A d \in 0..(k - 1) : b[m] <= b[d]
    BY <1>2
  <2>2. \A d \in 0..k : d = k \/ d \in 0..(k - 1)
    OBVIOUS
  <2>3. CASE b[m] <= b[k]
    BY <2>1, <2>2, <2>3
  <2>4. CASE ~(b[m] <= b[k])
    <3>1. \A d \in 0..k : b[k] <= b[d]
      BY <2>1, <2>2, <2>4
    <3> QED BY <3>1
  <2> QED BY <2>3, <2>4
<1> HIDE DEF P
<1>3. T = {}
  <2> SUFFICES ASSUME T # {} PROVE FALSE
    OBVIOUS
  <2>1. T \in SUBSET Nat
    OBVIOUS
  <2>2. PICK m \in T : \A k \in T : m <= k
    <3> HIDE DEF T
    <3> QED BY <2>1, LeastElement
  <2>3. m \in 0..n /\ ~P(m)
    BY <2>2
  <2>4. m \in 1..n /\ m - 1 \notin T /\ m - 1 \in 0..n
    BY <1>1, <2>2, <2>3
  <2> QED BY <1>2, <2>3, <2>4
<1>4. PICK m \in 0..n : \A d \in 0..n : b[m] <= b[d]
  <2>1. P(n)
    BY <1>3
  <2> QED BY <2>1 DEF P
<1>5. PICK S : S = {b[d] : d \in 0..n}
  OBVIOUS
<1>6. b[m] \in S /\ \A x \in S : b[m] <= x
  BY <1>4, <1>5
<1>7. Min(S) \in S /\ \A x \in S : Min(S) <= x
  BY <1>6, Zenon DEF Min
<1> QED BY <1>5, <1>7

(* The least balance of the fold of some sums and caps. *)
LowestOf(s, c) == LET b == CHOOSE b : FoldOf(s, c, b) IN Min({b[d] : d \in 0..LastDay})

(* More of a day lowers no balance. *)
LEMMA LowestGrows ==
  ASSUME NEW s \in Sums, NEW t \in Sums, NEW c \in Sums, \A d \in Day : s[d] <= t[d]
  PROVE  LowestOf(s, c) \in Int /\ LowestOf(t, c) \in Int /\ LowestOf(s, c) <= LowestOf(t, c)
<1>1. PICK a : a = CHOOSE b : FoldOf(s, c, b)
  OBVIOUS
<1>2. PICK b : b = CHOOSE x : FoldOf(t, c, x)
  OBVIOUS
<1>3. FoldOf(s, c, a) /\ FoldOf(t, c, b)
  BY <1>1, <1>2, FoldExists, Zenon
<1>4. \A d \in 0..LastDay : a[d] \in Int /\ b[d] \in Int /\ a[d] <= b[d]
  BY <1>3, FoldGrows
<1>5. PICK A, B : A = {a[d] : d \in 0..LastDay} /\ B = {b[d] : d \in 0..LastDay}
  OBVIOUS
<1>6. Min(A) \in A /\ \A x \in A : Min(A) <= x
  BY <1>4, <1>5, LeastOfMany, SickLeaveConstants
<1>7. Min(B) \in B
  BY <1>4, <1>5, LeastOfMany, SickLeaveConstants
<1>8. LowestOf(s, c) = Min(A) /\ LowestOf(t, c) = Min(B)
  BY <1>1, <1>2, <1>5, Zenon DEF LowestOf
<1>9. PICK d \in 0..LastDay : Min(B) = b[d]
  BY <1>5, <1>7
<1>10. Min(A) <= a[d] /\ Min(A) \in Int
  BY <1>4, <1>5, <1>6
<1> QED BY <1>4, <1>8, <1>9, <1>10

(* What the code sums and caps, day by day, over days that are in the ledger. *)
SumsOf(acc, u) == [d \in Day |-> DaySum(acc, u, d)]
CapsOf(acc) == [d \in Day |-> DayCap(acc, d)]

(* The least balance the code derives. *)
LEMMA LowestIs ==
  /\ \A acc, u : Lowest(acc, u) = LowestOf(SumsOf(acc, u), CapsOf(acc))
  /\ \A acc, u : Lowest(acc, u)' = LowestOf(SumsOf(acc, u)', CapsOf(acc)')
<1> DEFINE A(acc, u, b) == b = [d \in 0..LastDay |-> IF d = 0 THEN 0 ELSE Min({b[d - 1] + DaySum(acc, u, d), DayCap(acc, d)})]
<1>1. ASSUME NEW acc, NEW u PROVE Lowest(acc, u) = LowestOf(SumsOf(acc, u), CapsOf(acc))
  <2>1. \A b : A(acc, u, b) <=> FoldOf(SumsOf(acc, u), CapsOf(acc), b)
    <3> SUFFICES ASSUME NEW b, NEW d \in 0..LastDay
                 PROVE  (IF d = 0 THEN 0 ELSE Min({b[d - 1] + DaySum(acc, u, d), DayCap(acc, d)}))
                          = Balance(SumsOf(acc, u), CapsOf(acc), b, d)
      BY DEF FoldOf
    <3>1. d # 0 => SumsOf(acc, u)[d] = DaySum(acc, u, d) /\ CapsOf(acc)[d] = DayCap(acc, d)
      BY SickLeaveConstants DEF SumsOf, CapsOf, Day
    <3> QED BY <3>1, Zenon DEF Balance
  <2>2. (CHOOSE b : A(acc, u, b)) = CHOOSE b : FoldOf(SumsOf(acc, u), CapsOf(acc), b)
    <3> HIDE DEF A
    <3> QED BY <2>1, Zenon
  <2>3. _fold(acc, u) = CHOOSE b : A(acc, u, b)
    BY Zenon DEF _fold
  <2> HIDE DEF A
  <2> QED BY <2>2, <2>3, Zenon DEF Lowest, LowestOf
<1>2. ASSUME NEW acc, NEW u PROVE Lowest(acc, u)' = LowestOf(SumsOf(acc, u)', CapsOf(acc)')
  <2>1. \A b : A(acc, u, b)' <=> FoldOf(SumsOf(acc, u)', CapsOf(acc)', b)
    <3> SUFFICES ASSUME NEW b, NEW d \in 0..LastDay
                 PROVE  (IF d = 0 THEN 0 ELSE Min({b[d - 1] + DaySum(acc, u, d)', DayCap(acc, d)'}))
                          = Balance(SumsOf(acc, u)', CapsOf(acc)', b, d)
      BY DEF FoldOf
    <3>1. d # 0 => SumsOf(acc, u)'[d] = DaySum(acc, u, d)' /\ CapsOf(acc)'[d] = DayCap(acc, d)'
      BY SickLeaveConstants DEF SumsOf, CapsOf, Day
    <3> QED BY <3>1, Zenon DEF Balance
  <2>2. (CHOOSE b : A(acc, u, b)') = CHOOSE b : FoldOf(SumsOf(acc, u)', CapsOf(acc)', b)
    <3> HIDE DEF A
    <3> QED BY <2>1, Zenon
  <2>3. _fold(acc, u)' = CHOOSE b : A(acc, u, b)'
    BY Zenon DEF _fold
  <2> HIDE DEF A
  <2> QED BY <2>2, <2>3, Zenon DEF Lowest, LowestOf
<1> QED BY <1>1, <1>2

(* A set of naturals that is not empty has a minimum. *)
LEMMA MinOfNats ==
  ASSUME NEW S \in SUBSET Nat, S # {}
  PROVE  Min(S) \in S
<1>1. PICK m \in S : \A x \in S : m <= x
  BY LeastElement
<1> QED BY <1>1, Zenon DEF Min

(* Hours and caps are numbers. *)
LEMMA EntriesOK ==
  ASSUME SlInv
  PROVE  /\ \A c \in Card : accrual[c].hours \in Nat /\ accrual[c].cap \in Nat
         /\ \A d \in Day : adjCap[d] \in Nat
<1>1. accrual \in [Card -> [hours : Hour \cup {0}, cap : Cap \cup {NoCap}]] /\ adjCap \in [Day -> Cap \cup {NoCap}]
  BY DEF SlInv, SlTypeOK
<1>2. Hour \cup {0} \subseteq Nat /\ Cap \cup {NoCap} \subseteq Nat
  BY SickLeaveConstants DEF NoCap
<1> QED BY <1>1, <1>2

(* Every day has its sum and its cap. *)
LEMMA LedgerOK ==
  ASSUME SlInv, NEW u, u \subseteq Day \X Hour, IsFiniteSet(u)
  PROVE  SumsOf(accrual, u) \in Sums /\ CapsOf(accrual) \in Sums
<1>1. ASSUME NEW d \in Day PROVE DaySum(accrual, u, d) \in Int
  <2>1. PICK f : f = [c \in CardsOf(d) |-> accrual[c].hours]
    OBVIOUS
  <2>2. CardsOf(d) \in SUBSET Card
    BY DEF CardsOf
  <2>3. IsFiniteSet(DOMAIN f) /\ \A c \in DOMAIN f : f[c] \in Int
    <3>1. IsFiniteSet(CardsOf(d))
      BY <2>2, FS_Subset, SickLeaveConstants
    <3>2. \A c \in DOMAIN f : f[c] \in Nat
      BY <2>1, <2>2, EntriesOK
    <3> QED BY <2>1, <3>1, <3>2
  <2>4. Total(f) \in Int
    BY <2>3, PartInt
  <2>5. Used(u, d) \in Nat
    BY UsedGrows
  <2>6. DaySum(accrual, u, d) = Total(f) - Used(u, d) + voided[d] + adjusted[d]
    BY <2>1, SumOverIsTotal, Zenon DEF DaySum
  <2> QED BY <2>4, <2>5, <2>6 DEF SlInv, SlTypeOK
<1>2. ASSUME NEW d \in Day PROVE DayCap(accrual, d) \in Int
  <2>1. PICK S : S = {accrual[c].cap : c \in CardsOf(d)} \cup {adjCap[d]}
    OBVIOUS
  <2>2. S \in SUBSET Nat /\ S # {}
    BY <2>1, EntriesOK DEF CardsOf
  <2>3. Min(S) \in S
    BY <2>2, MinOfNats
  <2>4. DayCap(accrual, d) = Min(S)
    BY <2>1, Zenon DEF DayCap
  <2>5. DayCap(accrual, d) \in Nat
    BY <2>2, <2>3, <2>4
  <2> QED BY <2>5
<1> QED BY <1>1, <1>2 DEF SumsOf, CapsOf, Sums

(* Recording or voiding usage takes no day's balance, of that day or later, *)
(* below zero, whoever else takes the employee's lock (record_usage,        *)
(* void_usage).                                                             *)
THEOREM NeverOverdrawn == SlSpec => UsageNeverOverdraws
<1> DEFINE Kept == (usage' # usage \/ voided' # voided) /\ ~crossed /\ Lowest(accrual, usage) >= 0
                     => Lowest(accrual, usage)' >= 0
<1>1. ASSUME SlInv, UsageCommit PROVE Kept
  <2> SUFFICES ASSUME ~crossed PROVE Lowest(accrual, usage)' >= 0
    OBVIOUS
  <2>1. usage' = usage \cup {pending} /\ UNCHANGED <<accrual, voided, adjusted, adjCap>>
    BY <1>1 DEF UsageCommit
  <2>2. PICK x, a, v : x = pending /\ a = accrual /\ v = usage \cup {x}
    OBVIOUS
  <2>3. x \in Day \X Hour /\ ~would_overdraw(x[1], x[2])
    BY <1>1, <2>2 DEF SlInv, PendingOK, UsageCommit
  <2>4. x = <<x[1], x[2]>>
    BY <2>3
  <2>5. ~(Lowest(a, v) < 0)
    BY <2>2, <2>3, <2>4 DEF would_overdraw
  <2>6. v \subseteq Day \X Hour /\ IsFiniteSet(v)
    <3>1. IsFiniteSet(usage \cup {x})
      BY <1>1, FS_AddElement DEF SlInv
    <3> QED BY <1>1, <2>2, <2>3, <3>1 DEF SlInv, SlTypeOK
  <2>7. SumsOf(a, v) \in Sums /\ CapsOf(a) \in Sums
    BY <1>1, <2>2, <2>6, LedgerOK
  <2>8. Lowest(a, v) \in Int
    <3>1. PICK s, c : s = SumsOf(a, v) /\ c = CapsOf(a)
      OBVIOUS
    <3>2. \A d \in Day : s[d] <= s[d]
      BY <2>7, <3>1 DEF Sums
    <3>3. LowestOf(s, c) \in Int
      BY <2>7, <3>1, <3>2, LowestGrows
    <3> QED BY <3>1, <3>3, LowestIs
  <2>9. Lowest(a, v)' = Lowest(a, v)
    BY <2>1 DEF Lowest, _fold, DaySum, DayCap
  <2>10. accrual' = a /\ usage' = v
    BY <2>1, <2>2
  <2>11. Lowest(accrual, usage)' = Lowest(a, v)'
    BY <2>10 DEF Lowest, _fold, DaySum, DayCap
  <2> QED BY <2>5, <2>8, <2>9, <2>11
<1>2. ASSUME SlInv, NEW d \in Day, NEW h \in Hour, void_usage(d, h) PROVE Kept
  <2> SUFFICES ASSUME Lowest(accrual, usage) >= 0 PROVE Lowest(accrual, usage)' >= 0
    OBVIOUS
  <2>1. voided' = [voided EXCEPT ![d] = @ + h] /\ UNCHANGED <<accrual, usage, adjusted, adjCap>>
    BY <1>2 DEF void_usage
  <2>2. PICK a, u : a = accrual /\ u = usage
    OBVIOUS
  <2>3. PICK s, c, t : s = SumsOf(a, u) /\ c = CapsOf(a) /\ t = SumsOf(a, u)'
    OBVIOUS
  <2>4. s \in Sums /\ c \in Sums
    BY <1>2, <2>2, <2>3, LedgerOK DEF SlInv, SlTypeOK
  <2>5. CapsOf(a)' = c
    BY <2>1, <2>3 DEF CapsOf, DayCap
  <2>6. \A k \in Day : t[k] \in Int /\ s[k] <= t[k]
    <3> SUFFICES ASSUME NEW k \in Day PROVE t[k] \in Int /\ s[k] <= t[k]
      OBVIOUS
    <3>1. PICK n : n = SumOver([e \in CardsOf(k) |-> a[e].hours]) - Used(u, k)
      OBVIOUS
    <3>2. s[k] = n + voided[k] + adjusted[k]
      BY <2>3, <3>1 DEF SumsOf, DaySum
    <3>3. t[k] = n + voided'[k] + adjusted[k]
      BY <2>1, <2>3, <3>1 DEF SumsOf, DaySum
    <3>4. n \in Int
      <4>1. PICK f : f = [e \in CardsOf(k) |-> a[e].hours]
        OBVIOUS
      <4>2. CardsOf(k) \in SUBSET Card
        BY DEF CardsOf
      <4>3. IsFiniteSet(DOMAIN f) /\ \A e \in DOMAIN f : f[e] \in Int
        <5>1. IsFiniteSet(CardsOf(k))
          BY <4>2, FS_Subset, SickLeaveConstants
        <5>2. \A e \in DOMAIN f : f[e] \in Nat
          BY <1>2, <2>2, <4>1, <4>2, EntriesOK
        <5> QED BY <4>1, <5>1, <5>2
      <4>4. Total(f) \in Int /\ Used(u, k) \in Nat
        BY <1>2, <2>2, <4>3, PartInt, UsedGrows DEF SlInv, SlTypeOK
      <4> QED BY <3>1, <4>1, <4>4, SumOverIsTotal
    <3>5. voided[k] \in Nat /\ adjusted[k] \in Int /\ voided'[k] = voided[k] + (IF k = d THEN h ELSE 0) /\ h \in Nat
      BY <1>2, <2>1, SickLeaveConstants DEF SlInv, SlTypeOK
    <3> QED BY <3>2, <3>3, <3>4, <3>5
  <2>7. t \in Sums
    <3>1. t = [k \in Day |-> DaySum(a, u, k)']
      BY <2>3 DEF SumsOf, Day
    <3>2. t = [k \in Day |-> t[k]]
      BY <3>1
    <3> QED BY <2>6, <3>2 DEF Sums
  <2>8. LowestOf(s, c) <= LowestOf(t, c) /\ LowestOf(s, c) \in Int /\ LowestOf(t, c) \in Int
    BY <2>4, <2>6, <2>7, LowestGrows
  <2>9. Lowest(accrual, usage) = LowestOf(s, c)
    BY <2>2, <2>3, LowestIs
  <2>10. Lowest(a, u)' = LowestOf(t, c)
    BY <2>3, <2>5, LowestIs
  <2>11. accrual' = a /\ usage' = u
    BY <2>1, <2>2
  <2>12. Lowest(accrual, usage)' = Lowest(a, u)'
    BY <2>11 DEF Lowest, _fold, DaySum, DayCap
  <2> QED BY <2>8, <2>9, <2>10, <2>12
<1>3. ASSUME SlInv, SlNext PROVE Kept
  <2>1. ASSUME UNCHANGED <<usage, voided>> PROVE Kept
    BY <2>1
  <2>2. CASE \E d \in Day, h \in Hour, cap \in UsageCap \cup {NoCap} : record_usage(d, h, cap)
    BY <2>1, <2>2 DEF record_usage
  <2>3. CASE \E d \in Day, h \in Hour : void_usage(d, h)
    BY <1>2, <1>3, <2>3
  <2>4. CASE \E d \in Day, h \in Hour \cup {-h : h \in Hour}, cap \in Cap \cup {NoCap} : record_adjustment(d, h, cap)
    BY <2>1, <2>4 DEF record_adjustment
  <2>5. CASE \E c \in Card, h \in Hour \cup {0}, cap \in Cap \cup {NoCap} : accrue_for_card(c, h, cap)
    BY <2>1, <2>5 DEF accrue_for_card
  <2>6. CASE UsageCommit
    BY <1>1, <1>3, <2>6
  <2> QED BY <1>3, <2>2, <2>3, <2>4, <2>5, <2>6 DEF SlNext
<1>4. SlInv /\ [SlNext]_slVars => [Kept]_slVars
  BY <1>3
<1>5. SlInit => SlInv
  BY SlInitInv
<1>6. SlInv /\ [SlNext]_slVars => SlInv'
  BY SlInvStep
<1> HIDE DEF Kept
<1>7. SlSpec => [][Kept]_slVars
  BY <1>4, <1>5, <1>6, PTL DEF SlSpec
<1> QED BY <1>7 DEF Kept, UsageNeverOverdraws

-----------------------------------------------------------------------------
(* Labor reports *)

(* Rows are finitely many, and so are the people a pay run names. *)
LrInv ==
    /\ IsFiniteSet(labor) /\ IsFiniteSet(sick)
    /\ \A r \in payruns : IsFiniteSet(r.paid)

LEMMA LrInitInv == ASSUME LrInit PROVE LrInv
  BY FS_EmptySet DEF LrInit, LrInv

(* A row more or less, and the people of finitely many rows. *)
LEMMA LrInvStep == ASSUME LrInv, [LrNext]_lrVars PROVE LrInv'
<1>1. CASE UNCHANGED lrVars
  BY <1>1 DEF LrInv, lrVars
<1>2. ASSUME NEW e \in Staff, NEW u \in Division, NEW d \in ShiftDays, NEW priced \in BOOLEAN,
             PromoteFact(e, u, d, priced)
      PROVE  LrInv'
  <2>1. PICK f : labor' = labor \cup {f} /\ sick' = sick /\ payruns' = payruns
    BY <1>2 DEF PromoteFact
  <2>2. IsFiniteSet(labor \cup {f})
    BY FS_AddElement DEF LrInv
  <2> QED BY <2>1, <2>2 DEF LrInv
<1>3. ASSUME NEW e \in Staff, NEW u \in Division, NEW d \in ShiftDays, NEW priced \in BOOLEAN,
             TakeSickDay(e, u, d, priced)
      PROVE  LrInv'
  <2>1. PICK f : sick' = sick \cup {f} /\ labor' = labor /\ payruns' = payruns
    BY <1>3 DEF TakeSickDay
  <2>2. IsFiniteSet(sick \cup {f})
    BY FS_AddElement DEF LrInv
  <2> QED BY <2>1, <2>2 DEF LrInv
<1>4. ASSUME NEW f \in labor, RetractFact(f) PROVE LrInv'
  <2>1. IsFiniteSet(labor \ {f})
    BY FS_RemoveElement DEF LrInv
  <2> QED BY <1>4, <2>1 DEF RetractFact, LrInv
<1>5. ASSUME NEW f \in sick, VoidSickDay(f) PROVE LrInv'
  <2>1. IsFiniteSet(sick \ {f})
    BY FS_RemoveElement DEF LrInv
  <2> QED BY <1>5, <2>1 DEF VoidSickDay, LrInv
<1>6. ASSUME NEW from \in ShiftDays, NEW to \in ShiftDays, ProcessRun(from, to) PROVE LrInv'
  <2> DEFINE D == {x \in labor \cup sick : x.on \in from..to /\ x.priced}
             P == {<<f.at, f.who>> : f \in D}
             g == [f \in D |-> <<f.at, f.who>>]
  <2>1. IsFiniteSet(D)
    <3>1. IsFiniteSet(labor \cup sick)
      BY FS_Union DEF LrInv
    <3>2. D \in SUBSET (labor \cup sick)
      OBVIOUS
    <3> QED BY <3>1, <3>2, FS_Subset
  <2>2. P = {g[x] : x \in DOMAIN g} /\ DOMAIN g = D
    OBVIOUS
  <2>3. IsFiniteSet(P)
    <3> HIDE DEF D, P, g
    <3> QED BY <2>1, <2>2, ImageFinite
  <2>4. payruns' = payruns \cup {[from |-> from, to |-> to, paid |-> P]} /\ labor' = labor /\ sick' = sick
    BY <1>6 DEF ProcessRun
  <2> HIDE DEF P
  <2> QED BY <2>3, <2>4 DEF LrInv
<1> QED BY <1>1, <1>2, <1>3, <1>4, <1>5, <1>6 DEF LrNext

-----------------------------------------------------------------------------
(* What a shown figure promises *)

(* The money of a department. *)
Money(entries, u) == {f \in entries : f.at = u /\ f.priced}

(* Nobody's money stands alone on a day. *)
WithPartner(entries) == \A f \in entries : \E g, h \in entries : g.on = f.on /\ h.on = f.on /\ g.who # h.who

(* Two elements count two, and a count of two has two. *)
LEMMA TwoOf ==
  ASSUME NEW S, IsFiniteSet(S)
  PROVE  /\ Cardinality(S) \in Nat
         /\ Cardinality(S) >= 2 <=> \E x, y \in S : x # y
         /\ (\E x, y \in S : x # y) => Cardinality(S) # 1
<1>1. Cardinality(S) \in Nat
  BY FS_CardinalityType
<1>2. Cardinality(S) = 0 <=> S = {}
  BY FS_EmptySet
<1>3. Cardinality(S) = 1 <=> \E x : S = {x}
  BY FS_Singleton
<1>4. (\E x, y \in S : x # y) <=> S # {} /\ ~\E x : S = {x}
  OBVIOUS
<1> QED BY <1>1, <1>2, <1>3, <1>4

(* The people of finitely many rows. *)
LEMMA PeopleFinite ==
  ASSUME NEW entries, IsFiniteSet(entries)
  PROVE  IsFiniteSet({f.who : f \in entries})
<1> DEFINE g == [f \in entries |-> f.who]
           T == {f.who : f \in entries}
<1>1. T = {g[x] : x \in DOMAIN g} /\ DOMAIN g = entries
  OBVIOUS
<1> HIDE DEF g, T
<1>2. IsFiniteSet(T)
  BY <1>1, ImageFinite
<1> QED BY <1>2 DEF T

(* Rows of two people are not of one. *)
LEMMA NotAlone ==
  ASSUME NEW entries, IsFiniteSet(entries), NEW g \in entries, NEW h \in entries, g.who # h.who
  PROVE  ~Alone(entries)
<1> DEFINE P == {f.who : f \in entries}
<1>1. IsFiniteSet(P)
  BY PeopleFinite
<1>2. g.who \in P /\ h.who \in P
  OBVIOUS
<1> HIDE DEF P
<1>3. Cardinality(P) # 1
  BY <1>1, <1>2, TwoOf
<1> QED BY <1>3 DEF P, Alone

(* What the day rule lets through is money with two people on each day. *)
LEMMA DayRule ==
  ASSUME NEW entries, IsFiniteSet(entries), NEW u
  PROVE  _discloses(ByDay(entries, u)) <=> Money(entries, u) # {} /\ WithPartner(Money(entries, u))
<1> DEFINE M == Money(entries, u)
           B == ByDay(entries, u)
           On(d) == {x \in M : x.on = d}
<1>1. DOMAIN B = {f.on : f \in M} /\ \A d \in DOMAIN B : B[d] = {f.who : f \in On(d)}
  BY DEF ByDay, Money
<1>2. \A d : IsFiniteSet({f.who : f \in On(d)})
  <2> TAKE d
  <2>1. On(d) \in SUBSET entries
    BY DEF Money
  <2>2. IsFiniteSet(On(d))
    BY <2>1, FS_Subset
  <2> HIDE DEF On
  <2> QED BY <2>2, PeopleFinite
<1>3. \A d \in DOMAIN B : Cardinality(B[d]) >= 2 <=> \E x, y \in B[d] : x # y
  <2> TAKE d \in DOMAIN B
  <2>1. B[d] = {f.who : f \in On(d)}
    BY <1>1
  <2>2. IsFiniteSet({f.who : f \in On(d)})
    BY <1>2
  <2> HIDE DEF B, On
  <2>3. IsFiniteSet(B[d])
    BY ONLY <2>1, <2>2
  <2> QED BY ONLY <2>3, TwoOf
<1>4. \A d \in DOMAIN B : (\E x, y \in B[d] : x # y) <=>
          \E g, h \in M : g.on = d /\ h.on = d /\ g.who # h.who
  <2> TAKE d \in DOMAIN B
  <2>1. B[d] = {f.who : f \in On(d)}
    BY <1>1
  <2> QED BY <2>1
<1> HIDE DEF M, B
<1>5. DOMAIN B # {} <=> M # {}
  BY <1>1
<1>6. (\A d \in DOMAIN B : \E g, h \in M : g.on = d /\ h.on = d /\ g.who # h.who) <=> WithPartner(M)
  <2>1. DOMAIN B = {f.on : f \in M}
    BY <1>1
  <2>2. \A d : d \in DOMAIN B <=> \E f \in M : f.on = d
    BY ONLY <2>1
  <2>3. ASSUME \A d \in DOMAIN B : \E g, h \in M : g.on = d /\ h.on = d /\ g.who # h.who,
               NEW f \in M
        PROVE  \E g, h \in M : g.on = f.on /\ h.on = f.on /\ g.who # h.who
    <3>1. f.on \in DOMAIN B
      BY ONLY <2>2, f \in M
    <3> QED BY ONLY <2>3, <3>1
  <2>4. ASSUME WithPartner(M), NEW d \in DOMAIN B
        PROVE  \E g, h \in M : g.on = d /\ h.on = d /\ g.who # h.who
    <3>1. PICK f \in M : f.on = d
      BY ONLY <2>2, d \in DOMAIN B
    <3> QED BY ONLY <2>4, <3>1 DEF WithPartner
  <2> QED BY ONLY <2>3, <2>4 DEF WithPartner
<1>7. (\A d \in DOMAIN B : Cardinality(B[d]) >= 2) <=> WithPartner(M)
  BY <1>3, <1>4, <1>6
<1>8. _discloses(B) <=> M # {} /\ WithPartner(M)
  BY <1>5, <1>7 DEF _discloses
<1> QED BY <1>8 DEF M, B

(* A column shows, of a department with rows, the money the day rule lets *)
(* through, and otherwise nothing.                                        *)
ColumnIs(column, entries) ==
    /\ DOMAIN column = {f.at : f \in entries}
    /\ \A u \in DOMAIN column :
          IF Money(entries, u) # {} /\ WithPartner(Money(entries, u))
          THEN column[u] = Shown(Money(entries, u)) ELSE column[u] = Hidden

LEMMA Columns ==
  ASSUME NEW entries, IsFiniteSet(entries)
  PROVE  ColumnIs(Column(entries), entries)
<1>1. \A u : _discloses(ByDay(entries, u)) <=> Money(entries, u) # {} /\ WithPartner(Money(entries, u))
  BY DayRule
<1>2. DOMAIN Column(entries) = {f.at : f \in entries}
  BY DEF Column
<1>3. \A u \in DOMAIN Column(entries) :
          Column(entries)[u] = IF _discloses(ByDay(entries, u)) THEN Shown(Money(entries, u)) ELSE Hidden
  BY DEF Column, Money
<1> QED BY <1>1, <1>2, <1>3 DEF ColumnIs

(* Of two sets of rows with two people behind each day, the one more by *)
(* whole days is more by two people.                                    *)
LEMMA MoreByTwo ==
  ASSUME NEW X, NEW Y, IsFiniteSet(Y), WithPartner(Y), Y \ X # {},
         \A g \in Y, f \in Y \ X : g.on = f.on => g \notin X
  PROVE  ~Alone(Y \ X)
<1>1. PICK f \in Y \ X : TRUE
  OBVIOUS
<1>2. PICK g \in Y, h \in Y : g.on = f.on /\ h.on = f.on /\ g.who # h.who
  BY <1>1 DEF WithPartner
<1>3. g \in Y \ X /\ h \in Y \ X
  BY <1>1, <1>2
<1>4. Y \ X \in SUBSET Y
  OBVIOUS
<1>5. IsFiniteSet(Y \ X)
  BY <1>4, FS_Subset
<1> QED BY <1>2, <1>3, <1>5, NotAlone

(* Nobody is not one person. *)
LEMMA NoneNotAlone == ~Alone({})
<1>1. {f.who : f \in {}} = {}
  OBVIOUS
<1> QED BY <1>1, FS_EmptySet DEF Alone

-----------------------------------------------------------------------------
(* Differences *)

(* One answer sums one person's pay more than another. *)
Solo(a, b) == a.shown /\ b.shown /\ a.sum \subseteq b.sum /\ Alone(b.sum \ a.sum)

(* Two windows differ by whole days. *)
LEMMA WindowGap ==
  ASSUME NEW entries, IsFiniteSet(entries), NEW i, NEW j, NEW k, NEW l, NEW u,
         u \in DOMAIN Column(Within(entries, i, j)), u \in DOMAIN Column(Within(entries, k, l))
  PROVE  ~Solo(Column(Within(entries, i, j))[u], Column(Within(entries, k, l))[u])
<1> DEFINE R == Within(entries, i, j)
           S == Within(entries, k, l)
           X == Money(R, u)
           Y == Money(S, u)
           p == Column(R)
           q == Column(S)
<1>1. IsFiniteSet(R) /\ IsFiniteSet(S) /\ IsFiniteSet(Y)
  <2>1. R \in SUBSET entries /\ S \in SUBSET entries /\ Y \in SUBSET entries
    BY DEF Within, Money
  <2> HIDE DEF R, S, Y
  <2> QED BY <2>1, FS_Subset
<1>2. ColumnIs(p, R) /\ ColumnIs(q, S)
  <2> HIDE DEF R, S
  <2> QED BY <1>1, Columns
<1>3. \A g \in Y, f \in Y \ X : g.on = f.on => g \notin X
  BY DEF Money, Within
<1>4. u \in DOMAIN p /\ u \in DOMAIN q
  OBVIOUS
<1> HIDE DEF R, S, p, q
<1>5. SUFFICES ASSUME Solo(p[u], q[u]) PROVE FALSE
  BY DEF p, q, R, S
<1>6. p[u] = Shown(X) /\ q[u] = Shown(Y) /\ WithPartner(Y)
  <2>1. p[u].shown /\ q[u].shown
    BY <1>5 DEF Solo
  <2>2. p[u] # Hidden /\ q[u] # Hidden
    BY <2>1 DEF Hidden
  <2> QED BY <1>2, <1>4, <2>2 DEF ColumnIs
<1>7. Alone(Y \ X)
  BY <1>5, <1>6 DEF Solo, Shown
<1> HIDE DEF X, Y
<1>8. Y \ X # {}
  BY <1>7, NoneNotAlone
<1> QED BY <1>1, <1>3, <1>6, <1>7, <1>8, MoreByTwo

(* The money of a department in the full periods of some runs. *)
RunMoney(runs, u) == {f \in labor \cup sick : f.at = u /\ f.priced /\ \E r \in runs : f.on \in r.from..r.to}

(* The money without whether it was worked or sick. *)
MoneyOnly(c) == [c EXCEPT !.sum = {t[2] : t \in c.sum}]

(* A part of an estimate that is not hidden has two people on each day. *)
LEMMA PartPaired ==
  ASSUME NEW entries, IsFiniteSet(entries), NEW u, \A f \in entries : f.at = u /\ f.priced,
         ~(entries # {} /\ ~_discloses(ByDay(entries, u)))
  PROVE  WithPartner(entries)
<1>1. Money(entries, u) = entries
  BY DEF Money
<1>2. CASE entries = {}
  BY <1>2 DEF WithPartner
<1>3. CASE _discloses(ByDay(entries, u))
  BY <1>1, <1>3, DayRule
<1> QED BY <1>2, <1>3

(* A shown estimate sums the money of its runs, of two people each day. *)
LEMMA EstimateIs ==
  ASSUME LrInv, NEW runs, NEW u, EstimateOf(runs, u).shown
  PROVE  /\ WithPartner(RunMoney(runs, u)) /\ IsFiniteSet(RunMoney(runs, u))
         /\ MoneyOnly(EstimateOf(runs, u)) = Shown(RunMoney(runs, u))
         /\ {t[2] : t \in EstimateOf(runs, u).sum} = RunMoney(runs, u)
<1> DEFINE worked == {f \in Covered(labor, runs) : f.at = u /\ f.priced}
           away == {f \in Covered(sick, runs) : f.at = u /\ f.priced}
           hides(entries) == entries # {} /\ ~_discloses(ByDay(entries, u))
           both == {<<"worked", f>> : f \in worked} \cup {<<"sick", f>> : f \in away}
           e == EstimateOf(runs, u)
           M == RunMoney(runs, u)
<1>1. e = IF hides(worked) \/ hides(away) THEN Hidden ELSE Shown(both)
  BY DEF EstimateOf
<1>2. ~hides(worked) /\ ~hides(away) /\ e = Shown(both)
  <2> HIDE DEF worked, away, hides, both
  <2>1. e.shown
    OBVIOUS
  <2> HIDE DEF e
  <2> QED BY <1>1, <2>1 DEF Hidden
<1>3. IsFiniteSet(worked) /\ IsFiniteSet(away)
  <2>1. worked \in SUBSET labor /\ away \in SUBSET sick
    BY DEF Covered
  <2>2. IsFiniteSet(labor) /\ IsFiniteSet(sick)
    BY DEF LrInv
  <2> HIDE DEF worked, away
  <2> QED BY <2>1, <2>2, FS_Subset
<1>4. (\A f \in worked : f.at = u /\ f.priced) /\ (\A f \in away : f.at = u /\ f.priced)
  OBVIOUS
<1>5. M = worked \cup away
  BY DEF RunMoney, Covered
<1>6. WithPartner(worked) /\ WithPartner(away)
  <2> HIDE DEF worked, away
  <2> QED BY <1>2, <1>3, <1>4, PartPaired
<1> HIDE DEF worked, away, M, hides, e
<1>7. {t[2] : t \in both} = M
  <2>1. \A f \in worked : f \in {t[2] : t \in both}
    <3> TAKE f \in worked
    <3>1. <<"worked", f>> \in both /\ <<"worked", f>>[2] = f
      OBVIOUS
    <3> HIDE DEF both
    <3> QED BY <3>1
  <2>2. \A f \in away : f \in {t[2] : t \in both}
    <3> TAKE f \in away
    <3>1. <<"sick", f>> \in both /\ <<"sick", f>>[2] = f
      OBVIOUS
    <3> HIDE DEF both
    <3> QED BY <3>1
  <2>3. \A t \in both : t[2] \in worked \cup away
    OBVIOUS
  <2> HIDE DEF both
  <2> QED BY <1>5, <2>1, <2>2, <2>3
<1> HIDE DEF both
<1>8. WithPartner(M)
  BY <1>5, <1>6 DEF WithPartner
<1>9. IsFiniteSet(M)
  BY <1>3, <1>5, FS_Union
<1>10. e.sum = both
  BY <1>2 DEF Shown
<1>11. MoneyOnly(e) = Shown(M)
  <2>1. {t[2] : t \in e.sum} = M
    BY <1>7, <1>10
  <2>2. MoneyOnly(e) = [e EXCEPT !.sum = M]
    BY ONLY <2>1 DEF MoneyOnly
  <2> QED BY ONLY <1>2, <2>2 DEF Shown
<1> QED BY <1>7, <1>8, <1>9, <1>10, <1>11 DEF e, M

(* The estimates of two windows differ by whole days. *)
LEMMA EstimateGap ==
  ASSUME LrInv, NEW P, NEW Q, NEW u
  PROVE  ~Solo(MoneyOnly(EstimateOf(P, u)), MoneyOnly(EstimateOf(Q, u)))
<1> DEFINE X == RunMoney(P, u)
           Y == RunMoney(Q, u)
           a == EstimateOf(P, u)
           b == EstimateOf(Q, u)
<1>1. SUFFICES ASSUME Solo(MoneyOnly(a), MoneyOnly(b)) PROVE FALSE
  OBVIOUS
<1>2. a.shown /\ b.shown
  <2>1. \A c : c \in {a, b} => c = Hidden \/ \E s : c = Shown(s)
    BY DEF EstimateOf
  <2> HIDE DEF a, b
  <2>2. MoneyOnly(Hidden).shown = FALSE
    BY DEF MoneyOnly, Hidden
  <2>3. a # Hidden /\ b # Hidden
    BY <1>1, <2>2 DEF Solo
  <2> QED BY <2>1, <2>3 DEF Shown
<1>3. MoneyOnly(a) = Shown(X) /\ MoneyOnly(b) = Shown(Y) /\ WithPartner(Y) /\ IsFiniteSet(Y)
  BY <1>2, EstimateIs
<1>4. \A g \in Y, f \in Y \ X : g.on = f.on => g \notin X
  BY DEF RunMoney
<1> HIDE DEF a, b, X, Y
<1>5. Alone(Y \ X)
  BY <1>1, <1>3 DEF Solo, Shown
<1>6. Y \ X # {}
  BY <1>5, NoneNotAlone
<1> QED BY <1>3, <1>4, <1>5, <1>6, MoreByTwo

(* A shown gross is of two people in each run. *)
LEMMA GrossOfTwo ==
  ASSUME LrInv, NEW runs, runs \subseteq payruns, NEW u, ActualOf(runs, u).shown,
         NEW t \in ActualOf(runs, u).sum
  PROVE  Cardinality(t.who) > 1
<1> DEFINE people == [r \in {x \in runs : \E p \in x.paid : p[1] = u} |->
                         {p[2] : p \in {q \in r.paid : q[1] = u}}]
           lines == {[run |-> r, who |-> people[r]] : r \in DOMAIN people}
           a == ActualOf(runs, u)
<1>1. a = IF DOMAIN people # {} /\ ~_discloses(people) THEN Hidden ELSE Shown(lines)
  BY DEF ActualOf
<1>2. a.shown /\ t \in a.sum
  OBVIOUS
<1>3. \A r \in DOMAIN people : IsFiniteSet(people[r])
  <2> TAKE r \in DOMAIN people
  <2> DEFINE D == {q \in r.paid : q[1] = u}
             g == [q \in D |-> q[2]]
             T == people[r]
  <2>1. D \in SUBSET r.paid /\ IsFiniteSet(r.paid)
    BY DEF LrInv
  <2>2. T = {g[x] : x \in DOMAIN g} /\ DOMAIN g = D
    OBVIOUS
  <2> HIDE DEF D, g, T
  <2>3. IsFiniteSet(D)
    BY <2>1, FS_Subset
  <2>4. IsFiniteSet(T)
    BY <2>2, <2>3, ImageFinite
  <2> QED BY <2>4 DEF T
<1> HIDE DEF people, a
<1>4. a = Shown(lines) /\ (DOMAIN people = {} \/ _discloses(people))
  <2> HIDE DEF lines
  <2> QED BY <1>1, <1>2 DEF Hidden
<1>5. PICK r \in DOMAIN people : t = [run |-> r, who |-> people[r]]
  BY <1>2, <1>4 DEF Shown
<1>6. Cardinality(people[r]) >= 2
  BY <1>4, <1>5 DEF _discloses
<1>7. Cardinality(people[r]) \in Nat
  BY <1>3, FS_CardinalityType
<1> QED BY <1>5, <1>6, <1>7

LEMMA Differences == ASSUME LrInv PROVE DifferencesAreOfTwo
<1> DEFINE section == [w \in Spans |-> _labor_sections(w[1], w[2]).lines]
           ill == [w \in Spans |-> _sick_pay(w[1], w[2])]
           variance == [w \in Spans |-> _labor_variance(w[1], w[2])]
<1>1. ASSUME NEW a \in Spans, NEW b \in Spans, NEW u \in DOMAIN section[a] \cap DOMAIN section[b]
      PROVE  ~Solo(section[a][u], section[b][u])
  <2>1. /\ section[a] = Column(Within(labor, a[1], a[2]))
        /\ section[b] = Column(Within(labor, b[1], b[2]))
    BY DEF _labor_sections
  <2>2. IsFiniteSet(labor)
    BY DEF LrInv
  <2> QED BY <2>1, <2>2, WindowGap
<1>2. ASSUME NEW a \in Spans, NEW b \in Spans, NEW u \in DOMAIN ill[a] \cap DOMAIN ill[b]
      PROVE  ~Solo(ill[a][u], ill[b][u])
  <2>1. /\ ill[a] = Column(Within(sick, a[1], a[2]))
        /\ ill[b] = Column(Within(sick, b[1], b[2]))
    BY DEF _sick_pay
  <2>2. IsFiniteSet(sick)
    BY DEF LrInv
  <2> QED BY <2>1, <2>2, WindowGap
<1>3. ASSUME NEW a \in Spans, NEW u \in Division
      PROVE  /\ variance[a][u].est = EstimateOf(RunsIn(a[1], a[2]), u)
             /\ variance[a][u].actual = ActualOf(RunsIn(a[1], a[2]), u)
  BY DEF _labor_variance
<1>4. ASSUME NEW a \in Spans, NEW b \in Spans, NEW u \in Division
      PROVE  ~Solo(MoneyOnly(variance[a][u].est), MoneyOnly(variance[b][u].est))
  BY <1>3, EstimateGap
<1>5. ASSUME NEW a \in Spans, NEW b \in Spans, NEW u \in Division,
             variance[b][u].actual.shown, NEW t \in variance[b][u].actual.sum
      PROVE  Cardinality(t.who) > 1
  <2>1. RunsIn(b[1], b[2]) \subseteq payruns
    BY DEF RunsIn
  <2> QED BY <1>3, <1>5, <2>1, GrossOfTwo
<1> HIDE DEF section, ill, variance
<1>6. \A a, b \in Spans :
        /\ \A u \in DOMAIN section[a] \cap DOMAIN section[b] : ~Solo(section[a][u], section[b][u])
        /\ \A u \in DOMAIN ill[a] \cap DOMAIN ill[b] : ~Solo(ill[a][u], ill[b][u])
        /\ \A u \in Division :
              /\ ~Solo(MoneyOnly(variance[a][u].est), MoneyOnly(variance[b][u].est))
              /\ variance[a][u].actual.shown /\ variance[b][u].actual.shown =>
                    \A t \in variance[b][u].actual.sum \ variance[a][u].actual.sum : Cardinality(t.who) > 1
  BY <1>1, <1>2, <1>4, <1>5
<1> QED BY <1>6, Zenon DEF DifferencesAreOfTwo, Solo, MoneyOnly, section, ill, variance

-----------------------------------------------------------------------------
(* Reports that tie *)

(* The days of a window have its rows. *)
LEMMA DaysOfWindow ==
  ASSUME NEW entries, NEW i, NEW j
  PROVE  /\ UNION {Within(entries, d, d) : d \in i..j} = Within(entries, i, j)
         /\ \A d \in i..j : Within(entries, d, d) = {f \in Within(entries, i, j) : f.on = d}
         /\ \A f \in Within(entries, i, j) : f.on \in i..j /\ f \in Within(entries, f.on, f.on)
<1>1. \A d \in i..j : d \in Int /\ \A e : e \in d..d <=> e = d
  OBVIOUS
<1>2. \A d \in i..j : Within(entries, d, d) = {f \in Within(entries, i, j) : f.on = d}
  BY <1>1 DEF Within
<1>3. \A f \in Within(entries, i, j) : f.on \in i..j /\ f \in entries
  BY DEF Within
<1>4. \A f \in Within(entries, i, j) : f \in Within(entries, f.on, f.on)
  BY <1>2, <1>3
<1>5. UNION {Within(entries, d, d) : d \in i..j} = Within(entries, i, j)
  BY <1>2, <1>3, <1>4
<1> QED BY <1>2, <1>3, <1>4, <1>5

(* Each row is counted on its day. *)
LEMMA HoursByDay ==
  ASSUME NEW W, IsFiniteSet(W), NEW i \in Int, NEW j \in Int, \A f \in W : f.on \in i..j,
         NEW hours, DOMAIN hours = i..j,
         \A d \in i..j : hours[d] = Cardinality({f \in W : f.on = d})
  PROVE  Total(hours) = Cardinality(W)
<1> DEFINE D == i..j
           m == [d \in D |-> [f \in W |-> IF f.on = d THEN 1 ELSE 0]]
           c == [f \in W |-> [d \in D |-> IF f.on = d THEN 1 ELSE 0]]
           k == [f \in W |-> Total(c[f])]
<1>1. IsFiniteSet(D)
  BY FS_Interval
<1>2. \A d \in D : hours[d] = Total(m[d])
  <2> TAKE d \in D
  <2> DEFINE A == {f \in W : f.on = d}
             g == m[d]
  <2>1. A \in SUBSET W /\ DOMAIN g = W /\ \A f \in W : g[f] = IF f \in A THEN 1 ELSE 0
    OBVIOUS
  <2>2. hours[d] = Cardinality(A)
    OBVIOUS
  <2> HIDE DEF A, g, m
  <2>3. Total(g) = Cardinality(A)
    BY <2>1, TotalCount
  <2> QED BY <2>2, <2>3 DEF g
<1>3. \A f \in W : k[f] = 1
  <2> TAKE f \in W
  <2> DEFINE A == {f.on}
             g == c[f]
  <2>1. A \in SUBSET D /\ DOMAIN g = D /\ \A d \in D : g[d] = IF d \in A THEN 1 ELSE 0
    OBVIOUS
  <2>2. k[f] = Total(g)
    OBVIOUS
  <2>3. Cardinality(A) = 1
    BY FS_Singleton
  <2> HIDE DEF A, g, c, k, D
  <2>4. Total(g) = Cardinality(A)
    BY <1>1, <2>1, TotalCount
  <2> QED BY <2>2, <2>3, <2>4
<1>4. /\ DOMAIN m = D /\ (\A d \in D : DOMAIN m[d] = W) /\ (\A d \in D, f \in W : m[d][f] \in Int)
      /\ DOMAIN c = W /\ (\A f \in W : DOMAIN c[f] = D) /\ (\A d \in D, f \in W : c[f][d] = m[d][f])
      /\ DOMAIN k = W /\ \A f \in W : k[f] = Total(c[f])
  OBVIOUS
<1>5. DOMAIN hours = D
  OBVIOUS
<1> HIDE DEF D, m, c, k
<1>6. Total(hours) = Total(k)
  BY ONLY <1>1, <1>2, <1>4, <1>5, IsFiniteSet(W), TotalCross
<1>7. Total(k) = Cardinality(W)
  <2>1. W \in SUBSET W /\ \A f \in W : k[f] = IF f \in W THEN 1 ELSE 0
    BY <1>3
  <2> QED BY ONLY <1>4, <2>1, IsFiniteSet(W), TotalCount
<1> QED BY <1>6, <1>7

(* Nothing is counted as withheld when all of a column is shown, and then *)
(* the column sums the money of its rows.                                 *)
LEMMA AllShown ==
  ASSUME NEW entries, IsFiniteSet(entries)
  PROVE  LET column == Column(entries)
             hidden == Cardinality({u \in DOMAIN column : ~column[u].shown})
         IN  /\ hidden \in Nat
             /\ hidden = 0 <=> \A f \in entries : Money(entries, f.at) # {} /\ WithPartner(Money(entries, f.at))
             /\ hidden = 0 => ColumnTotal(column) = {f \in entries : f.priced}
<1> DEFINE column == Column(entries)
           dark == {u \in DOMAIN column : ~column[u].shown}
           Lit(u) == Money(entries, u) # {} /\ WithPartner(Money(entries, u))
<1>1. ColumnIs(column, entries)
  BY Columns
<1>2. DOMAIN column = {f.at : f \in entries}
  BY <1>1 DEF ColumnIs
<1>3. \A u \in DOMAIN column : /\ column[u].shown <=> Lit(u)
                               /\ Lit(u) => column[u].sum = Money(entries, u)
  <2> TAKE u \in DOMAIN column
  <2>1. IF Lit(u) THEN column[u] = Shown(Money(entries, u)) ELSE column[u] = Hidden
    BY <1>1 DEF ColumnIs
  <2> HIDE DEF column, Lit
  <2> QED BY <2>1 DEF Shown, Hidden
<1>4. IsFiniteSet(dark)
  <2> DEFINE g == [f \in entries |-> f.at]
  <2>1. DOMAIN column = {g[x] : x \in DOMAIN g} /\ DOMAIN g = entries
    BY <1>2
  <2>2. dark \in SUBSET DOMAIN column
    OBVIOUS
  <2> HIDE DEF dark, g, column
  <2>3. IsFiniteSet(DOMAIN column)
    BY <2>1, ImageFinite
  <2> QED BY <2>2, <2>3, FS_Subset
<1>5. Cardinality(dark) \in Nat /\ (Cardinality(dark) = 0 <=> dark = {})
  BY <1>4, FS_CardinalityType, FS_EmptySet
<1>6. dark = {} <=> \A u \in DOMAIN column : Lit(u)
  <2> HIDE DEF Lit, column
  <2> QED BY <1>3
<1>7. (\A u \in DOMAIN column : Lit(u)) <=> \A f \in entries : Lit(f.at)
  <2> HIDE DEF Lit, column
  <2> QED BY <1>2
<1>8. ASSUME \A u \in DOMAIN column : Lit(u) PROVE ColumnTotal(column) = {f \in entries : f.priced}
  <2>1. \A u \in DOMAIN column : column[u].sum = {f \in entries : f.at = u /\ f.priced}
    <3> HIDE DEF Lit, column
    <3> QED BY <1>3, <1>8 DEF Money
  <2> HIDE DEF column
  <2> QED BY <1>2, <2>1 DEF ColumnTotal
<1> QED BY <1>5, <1>6, <1>7, <1>8

(* Days that are all shown make a window that is. *)
LEMMA ShownDays ==
  ASSUME NEW entries, NEW i, NEW j,
         \A d \in i..j : \A f \in Within(entries, d, d) :
             Money(Within(entries, d, d), f.at) # {} /\ WithPartner(Money(Within(entries, d, d), f.at)),
         NEW f \in Within(entries, i, j)
  PROVE  Money(Within(entries, i, j), f.at) # {} /\ WithPartner(Money(Within(entries, i, j), f.at))
<1> DEFINE W == Within(entries, i, j)
           OneDay(d) == Within(entries, d, d)
<1>1. /\ \A d \in i..j : OneDay(d) = {x \in W : x.on = d}
      /\ \A x \in W : x.on \in i..j /\ x \in OneDay(x.on)
  BY DaysOfWindow
<1>2. \A d \in i..j : \A x \in OneDay(d) : Money(OneDay(d), x.at) # {} /\ WithPartner(Money(OneDay(d), x.at))
  OBVIOUS
<1>3. f \in W
  OBVIOUS
<1> HIDE DEF W, OneDay
<1>4. \A u : \A d \in i..j : Money(OneDay(d), u) = {x \in Money(W, u) : x.on = d}
  BY <1>1 DEF Money
<1>5. Money(W, f.at) # {}
  BY <1>1, <1>2, <1>3, <1>4
<1>6. ASSUME NEW x \in Money(W, f.at)
      PROVE  \E g, h \in Money(W, f.at) : g.on = x.on /\ h.on = x.on /\ g.who # h.who
  <2>1. x \in W /\ x.at = f.at
    BY <1>6 DEF Money
  <2>2. x.on \in i..j /\ x \in OneDay(x.on)
    BY <1>1, <2>1
  <2>3. WithPartner(Money(OneDay(x.on), f.at))
    BY <1>2, <2>1, <2>2
  <2>4. x \in Money(OneDay(x.on), f.at)
    BY <1>4, <2>2
  <2>5. PICK g, h \in Money(OneDay(x.on), f.at) : g.on = x.on /\ h.on = x.on /\ g.who # h.who
    BY ONLY <2>3, <2>4 DEF WithPartner
  <2>6. g \in Money(W, f.at) /\ h \in Money(W, f.at)
    BY <1>4, <2>2, <2>5
  <2> QED BY <2>5, <2>6
<1>7. WithPartner(Money(W, f.at))
  BY <1>6 DEF WithPartner
<1> QED BY <1>5, <1>7 DEF W

LEMMA Ties == ASSUME LrInv PROVE LaborReportsTie
<1> SUFFICES ASSUME NEW w \in Spans
    PROVE  LET window == _labor_sections(w[1], w[2])
               each == labor_productivity(w[1], w[2])
               daily == labor_analytics(w[1], w[2]).days
               hours == [d \in w[1]..w[2] |-> daily[d].hours]
               variance == _labor_variance(w[1], w[2])
           IN  /\ each.hours = window.hours
               /\ MapThenSumSet(LAMBDA d : hours[d], DOMAIN hours) = window.hours
               /\ each.cost.shown => each.cost.sum = window.cost /\ window.suppressed = 0
               /\ \A u \in Division :
                     variance[u].shown =>
                         {t[2] : t \in variance[u].est.sum} =
                             {f \in labor \cup sick : f.at = u /\ f.priced /\
                                 \E r \in payruns : r.from <= w[2] /\ w[1] <= r.to /\ f.on \in r.from..r.to}
  BY Zenon DEF LaborReportsTie
<1> DEFINE i == w[1]
           j == w[2]
           W == Within(labor, i, j)
           OneDay(d) == Within(labor, d, d)
           window == _labor_sections(i, j)
           each == labor_productivity(i, j)
           daily == labor_analytics(i, j).days
           hours == [d \in i..j |-> daily[d].hours]
           variance == _labor_variance(i, j)
<1>1. i \in Int /\ j \in Int
  BY DEF Spans, ShiftDays
<1>2. /\ UNION {OneDay(d) : d \in i..j} = W
      /\ \A d \in i..j : OneDay(d) = {f \in W : f.on = d}
      /\ \A f \in W : f.on \in i..j /\ f \in OneDay(f.on)
  BY DaysOfWindow
<1>3. IsFiniteSet(W) /\ \A d \in i..j : IsFiniteSet(OneDay(d))
  <2>1. W \in SUBSET labor /\ IsFiniteSet(labor)
    BY DEF Within, LrInv
  <2>2. \A d \in i..j : OneDay(d) \in SUBSET W
    BY <1>2
  <2> HIDE DEF W, OneDay
  <2>3. IsFiniteSet(W)
    BY <2>1, FS_Subset
  <2> QED BY <2>2, <2>3, FS_Subset
<1>4. /\ window.hours = Cardinality(W) /\ window.cost = ColumnTotal(Column(W))
      /\ window.suppressed = Cardinality({u \in DOMAIN Column(W) : ~Column(W)[u].shown})
  BY DEF _labor_sections
<1>5. each.hours = window.hours
  <2>1. each.hours = Cardinality(UNION {OneDay(d) : d \in i..j})
    BY DEF labor_productivity
  <2> HIDE DEF each, window, W, OneDay
  <2> QED BY <1>2, <1>4, <2>1
<1>6. Total(hours) = window.hours
  <2>1. DOMAIN hours = i..j /\ \A d \in i..j : hours[d] = Cardinality(OneDay(d))
    BY DEF labor_analytics, _labor_sections
  <2> HIDE DEF hours, window, W, OneDay
  <2>2. \A d \in i..j : hours[d] = Cardinality({f \in W : f.on = d})
    BY <1>2, <2>1
  <2>3. IsFiniteSet(W) /\ \A f \in W : f.on \in i..j
    BY <1>2, <1>3
  <2> HIDE DEF i, j
  <2>4. Total(hours) = Cardinality(W)
    BY ONLY <1>1, <2>1, <2>2, <2>3, HoursByDay, Z3T(30)
  <2> QED BY ONLY <1>4, <2>4
<1>7. ASSUME each.cost.shown
      PROVE  each.cost.sum = window.cost /\ window.suppressed = 0
  <2>1. /\ each.cost = IF \E d \in i..j : DayWithheld(d) THEN Hidden
                       ELSE Shown(UNION {_labor_sections(d, d).cost : d \in i..j})
        /\ \A d : DayWithheld(d) <=> Cardinality({u \in DOMAIN Column(OneDay(d)) : ~Column(OneDay(d))[u].shown}) > 0
        /\ \A d : _labor_sections(d, d).cost = ColumnTotal(Column(OneDay(d)))
    BY DEF labor_productivity, DayWithheld, _labor_sections
  <2> HIDE DEF each, window, W, OneDay
  <2>2. /\ \A d \in i..j : ~DayWithheld(d)
        /\ each.cost.sum = UNION {ColumnTotal(Column(OneDay(d))) : d \in i..j}
    BY <1>7, <2>1 DEF Shown, Hidden
  <2>3. ASSUME NEW d \in i..j
        PROVE  /\ \A f \in OneDay(d) : Money(OneDay(d), f.at) # {} /\ WithPartner(Money(OneDay(d), f.at))
               /\ ColumnTotal(Column(OneDay(d))) = {f \in OneDay(d) : f.priced}
    <3>1. ~(Cardinality({u \in DOMAIN Column(OneDay(d)) : ~Column(OneDay(d))[u].shown}) > 0)
      BY <2>1, <2>2
    <3>2. IsFiniteSet(OneDay(d))
      BY <1>3
    <3> QED BY ONLY <3>1, <3>2, AllShown
  <2>4. \A f \in W : Money(W, f.at) # {} /\ WithPartner(Money(W, f.at))
    <3>1. \A d \in i..j : \A f \in OneDay(d) : Money(OneDay(d), f.at) # {} /\ WithPartner(Money(OneDay(d), f.at))
      BY <2>3
    <3> QED BY <3>1, ShownDays DEF W, OneDay
  <2>5. /\ Cardinality({u \in DOMAIN Column(W) : ~Column(W)[u].shown}) = 0
        /\ ColumnTotal(Column(W)) = {f \in W : f.priced}
    BY <1>3, <2>4, AllShown
  <2>6. UNION {ColumnTotal(Column(OneDay(d))) : d \in i..j} = {f \in W : f.priced}
    BY <1>2, <2>3
  <2> QED BY <1>4, <2>2, <2>5, <2>6
<1>8. ASSUME NEW u \in Division, variance[u].shown
      PROVE  {t[2] : t \in variance[u].est.sum} =
                 {f \in labor \cup sick : f.at = u /\ f.priced /\
                     \E r \in payruns : r.from <= j /\ i <= r.to /\ f.on \in r.from..r.to}
  <2>1. /\ variance[u].est = EstimateOf(RunsIn(i, j), u)
        /\ variance[u].shown <=> variance[u].est.shown /\ variance[u].actual.shown
    BY DEF _labor_variance
  <2> HIDE DEF variance
  <2>2. {t[2] : t \in variance[u].est.sum} = RunMoney(RunsIn(i, j), u)
    BY <1>8, <2>1, EstimateIs
  <2> QED BY <2>2 DEF RunMoney, RunsIn
<1> QED BY <1>5, <1>6, <1>7, <1>8 DEF Total

(* Whatever windows are asked for, no two answers differ by one person's   *)
(* pay, and the reports of a window tie (_discloses, _labor_sections and    *)
(* _labor_variance of reporting.py, labor_productivity of performance.py):  *)
(* for any staff, departments, days and number of facts and runs.           *)
THEOREM NoOnesPayShows == LrSpec => []LaborReportsHold
<1>1. LrInit => LrInv
  BY LrInitInv
<1>2. LrInv /\ [LrNext]_lrVars => LrInv'
  BY LrInvStep
<1>3. LrInv => LaborReportsHold
  BY Differences, Ties DEF LaborReportsHold
<1> QED BY <1>1, <1>2, <1>3, PTL DEF LrSpec

-----------------------------------------------------------------------------
(* A week as its manager reads it: the invariant *)

Rostered ==
    [date : Int, unit : Unit, start : 0..DayTicks - 1, end : Int, who : Worker \cup {Nobody}]

(* A person's shifts are apart. *)
RotaOK ==
    /\ IsFiniteSet(rota) /\ rota \subseteq Rostered /\ \A s \in rota : s.start < s.end
    /\ \A s, o \in rota : s.who = o.who /\ s.who # Nobody /\ s # o => ~shifts_overlap(s, o)

PjInv ==
    /\ RotaOK
    /\ \A x \in DOMAIN punched : punched[x] \in Nat \ {0}
    /\ as_of \in Int /\ law \in Rulesets

LEMMA PjInitInv == ASSUME PjInit PROVE PjInv
<1>1. rota = {} /\ DOMAIN punched = {} /\ as_of = Anchor /\ law \in Rulesets
  BY DEF PjInit, NoHours
<1>2. Anchor \in Int
  BY OvertimeAssumption
<1>3. RotaOK
  BY <1>1, FS_EmptySet DEF RotaOK
<1> QED BY <1>1, <1>2, <1>3 DEF PjInv

(* The days of the week are numbers. *)
LEMMA WeekIs == Anchor \in Int /\ Week \subseteq Int /\ Around \subseteq Int /\ IsFiniteSet(Week)
<1>1. PICK a, n : a = Anchor /\ n = WeekDays /\ a \in Int /\ n \in Int
  BY OvertimeAssumption
<1>2. Week = a..(a + n - 1) /\ Around = {a - 1} \cup Week
  BY <1>1 DEF Week, Around
<1>3. Week \subseteq Int /\ Around \subseteq Int
  BY <1>1, <1>2
<1>4. IsFiniteSet(Week)
  BY <1>1, <1>2, FS_Interval
<1> QED BY <1>1, <1>3, <1>4

LEMMA RosterStep ==
  ASSUME PjInv, NEW d \in Around, NEW u \in Unit, NEW h \in Hours, NEW who \in Worker \cup {Nobody},
         Roster(d, u, h, who)
  PROVE  PjInv'
<1>1. PICK s : s = [date |-> d, unit |-> u, start |-> h[1], end |-> h[2], who |-> who]
  OBVIOUS
<1>2. /\ rota' = rota \cup {s} /\ UNCHANGED <<punched, as_of, law>>
      /\ who # Nobody => \A o \in Of(rota, who) : ~shifts_overlap(s, o)
  BY <1>1 DEF Roster
<1>3. /\ h[1] \in 0..DayTicks - 1 /\ h[2] \in Int /\ h[1] < h[2] /\ d \in Int
  BY WeekIs, ProjectionConstants
<1>4. s \in Rostered /\ s.start < s.end /\ s.who = who
  BY <1>1, <1>3 DEF Rostered
<1>5. IsFiniteSet(rota')
  <2>1. IsFiniteSet(rota) /\ IsFiniteSet({s})
    BY FS_Singleton DEF PjInv, RotaOK
  <2> QED BY <1>2, <2>1, FS_Union
<1>6. rota' \subseteq Rostered /\ \A x \in rota' : x.start < x.end
  BY <1>2, <1>4 DEF PjInv, RotaOK
<1>7. \A x, y : shifts_overlap(x, y) <=> shifts_overlap(y, x)
  BY DEF shifts_overlap
<1>8. ASSUME NEW x \in rota', NEW y \in rota', x.who = y.who, x.who # Nobody, x # y
      PROVE  ~shifts_overlap(x, y)
  <2>1. CASE x \in rota /\ y \in rota
    BY <1>8, <2>1 DEF PjInv, RotaOK
  <2>2. CASE x = s /\ y \in rota
    <3>1. y \in Of(rota, who) /\ who # Nobody
      BY <1>4, <1>8, <2>2 DEF Of
    <3> QED BY <1>2, <2>2, <3>1
  <2>3. CASE x \in rota /\ y = s
    <3>1. x \in Of(rota, who) /\ who # Nobody
      BY <1>4, <1>8, <2>3 DEF Of
    <3> QED BY <1>2, <1>7, <2>3, <3>1
  <2> QED BY <1>2, <1>8, <2>1, <2>2, <2>3
<1>9. RotaOK'
  BY <1>5, <1>6, <1>8 DEF RotaOK
<1> QED BY <1>2, <1>9 DEF PjInv

LEMMA PjInvStep == ASSUME PjInv, [PjNext]_pjVars PROVE PjInv'
<1>1. ASSUME NEW d \in Around, NEW u \in Unit, NEW h \in Hours, NEW who \in Worker \cup {Nobody},
             Roster(d, u, h, who)
      PROVE  PjInv'
  BY <1>1, RosterStep
<1>2. ASSUME NEW e \in Worker, NEW d \in Week, NEW h \in PunchedHours, Work(e, d, h)
      PROVE  PjInv'
  <2>1. /\ punched' = [x \in DOMAIN punched \cup {<<e, d>>} |-> IF x = <<e, d>> THEN h ELSE punched[x]]
        /\ UNCHANGED <<rota, as_of, law>>
    BY <1>2 DEF Work
  <2>2. h \in Nat \ {0}
    BY ProjectionConstants
  <2>3. \A x \in DOMAIN punched' : punched'[x] \in Nat \ {0}
    BY <2>1, <2>2 DEF PjInv
  <2> QED BY <2>1, <2>3 DEF PjInv, RotaOK
<1>3. CASE Tomorrow
  <2>1. as_of' \in Int
    BY <1>3 DEF Tomorrow, PjInv
  <2> QED BY <1>3, <2>1 DEF Tomorrow, PjInv, RotaOK
<1>4. CASE UNCHANGED pjVars
  BY <1>4 DEF pjVars, PjInv, RotaOK
<1> QED BY <1>1, <1>2, <1>3, <1>4 DEF PjNext

-----------------------------------------------------------------------------
(* Every short night is warned about *)

(* A time of a day is within it. *)
LEMMA WithinDay ==
  ASSUME NEW t \in Nat, t # 0, NEW a \in Int, NEW c \in 0..t - 1
  PROVE  (a * t + c) \div t = a
<1>1. PICK x : x = a * t + c /\ x \in Int
  OBVIOUS
<1>2. PICK q, m : q = x \div t /\ m = x % t
  OBVIOUS
<1>3. q \in Int /\ m \in Int /\ 0 <= m /\ m < t
  BY <1>1, <1>2
<1>4. x = t * q + m
  BY ONLY <1>1, <1>2, t \in Nat, t # 0, Z3T(20)
<1>5. PICK k : k = q - a /\ k \in Int
  BY <1>3
<1>6. t * k = c - m
  <2>1. q = a + k
    BY <1>3, <1>5
  <2>2. t * (a + k) = a * t + t * k
    BY ONLY <1>5, t \in Nat, a \in Int, Z3T(20)
  <2> QED BY <1>1, <1>3, <1>4, <1>5, <2>1, <2>2
<1>7. k = 0
  <2>1. CASE k >= 1
    <3>1. t * k >= t
      BY ONLY <1>5, <2>1, t \in Nat, Z3T(20)
    <3> QED BY <1>3, <1>5, <1>6, <3>1
  <2>2. CASE k <= -1
    <3>1. t * k <= -t
      BY ONLY <1>5, <2>2, t \in Nat, Z3T(20)
    <3> QED BY <1>3, <1>5, <1>6, <3>1
  <2> QED BY <1>5, <2>1, <2>2
<1> QED BY <1>1, <1>2, <1>3, <1>5, <1>7

(* A shift of a day begins on it, so of two shifts that follow each other   *)
(* a night lies between them if they are of two days.                       *)
LEMMA NightBetween ==
  ASSUME NEW p \in Rostered, NEW n \in Rostered, p.start < p.end, Ends(p) <= Begins(n)
  PROVE  _spans_a_night(p, n) <=> p.date # n.date
<1>1. PICK t : t = DayTicks /\ t \in Nat /\ t # 0
  BY ProjectionConstants
<1>2. PICK a, b, c, d, e : /\ a = p.date /\ b = p.start /\ c = p.end /\ d = n.date /\ e = n.start
                           /\ a \in Int /\ b \in 0..t - 1 /\ c \in Int /\ d \in Int /\ e \in 0..t - 1 /\ b < c
  BY <1>1 DEF Rostered
<1>3. Ends(p) = a * t + c /\ Begins(n) = d * t + e /\ a * t \in Int /\ d * t \in Int
  BY <1>1, <1>2 DEF Ends, Begins
<1>4. ASSUME a = d
      PROVE  (a * t + c) \div t = (d * t + e) \div t
  <2>1. c <= e /\ 0 <= c /\ c < t
    <3>1. PICK z : z = a * t /\ z \in Int /\ z = d * t
      BY <1>3, <1>4
    <3>2. z + c <= z + e
      BY <1>3, <3>1
    <3> QED BY ONLY <1>1, <1>2, <3>1, <3>2
  <2>2. (a * t + c) \div t = a
    <3>1. t \in Nat /\ t # 0 /\ a \in Int /\ c \in 0..t - 1
      BY <1>1, <1>2, <2>1
    <3> QED BY ONLY <3>1, WithinDay
  <2>3. (d * t + e) \div t = d
    BY ONLY <1>1, <1>2, WithinDay
  <2> QED BY <1>4, <2>2, <2>3
<1>5. _spans_a_night(p, n) <=> a # d \/ (a * t + c) \div t # (d * t + e) \div t
  BY <1>1, <1>2, <1>3 DEF _spans_a_night
<1> QED BY <1>2, <1>4, <1>5

LEMMA BeginsBeforeItEnds ==
  ASSUME NEW s \in Rostered, s.start < s.end
  PROVE  Begins(s) \in Int /\ Ends(s) \in Int /\ Begins(s) < Ends(s)
<1>1. PICK t : t = DayTicks /\ t \in Nat /\ t # 0
  BY ProjectionConstants
<1>2. PICK z : z = s.date * t /\ z \in Int
  BY <1>1 DEF Rostered
<1>3. s.start \in Int /\ s.end \in Int
  BY <1>1 DEF Rostered
<1>4. Begins(s) = z + s.start /\ Ends(s) = z + s.end
  BY <1>1, <1>2 DEF Begins, Ends
<1> QED BY <1>2, <1>3, <1>4

(* A finite set has an element that begins first and one that begins last. *)
LEMMA FirstAndLast ==
  ASSUME NEW S, IsFiniteSet(S), S # {}, \A s \in S : Begins(s) \in Int
  PROVE  /\ \E s \in S : \A x \in S : Begins(s) <= Begins(x)
         /\ \E s \in S : \A x \in S : Begins(x) <= Begins(s)
<1> DEFINE f == [s \in S |-> Begins(s)]
           T == {f[s] : s \in DOMAIN f}
<1>1. DOMAIN f = S /\ T \subseteq Int /\ T # {} /\ (\A s \in S : f[s] = Begins(s) /\ f[s] \in T)
      /\ \A y \in T : \E s \in S : y = Begins(s)
  OBVIOUS
<1>2. IsFiniteSet(T)
  <2>1. IsFiniteSet(DOMAIN f)
    BY <1>1
  <2> HIDE DEF f
  <2> QED BY <2>1, ImageFinite
<1> HIDE DEF T, f
<1>3. /\ Max(T) \in T /\ \A y \in T : y <= Max(T)
      /\ Min(T) \in T /\ \A y \in T : Min(T) <= y
  BY <1>1, <1>2, MaxOf
<1>4. PICK a \in S : Max(T) = Begins(a)
  BY <1>1, <1>3
<1>5. PICK b \in S : Min(T) = Begins(b)
  BY <1>1, <1>3
<1>6. \A x \in S : Begins(x) <= Begins(a) /\ Begins(b) <= Begins(x)
  BY <1>1, <1>3, <1>4, <1>5
<1> QED BY <1>6

LEMMA NightsWarned == ASSUME PjInv PROVE ShortNightIsWarned
<1> SUFFICES ASSUME NEW nxt \in ThisWeek, NEW prev \in Of(rota, nxt.who), nxt.who # Nobody,
                    _spans_a_night(prev, nxt), Begins(nxt) - Ends(prev) \in 0..(MinRest - 1)
             PROVE  \E s \in Of(rota, nxt.who) :
                      /\ Begins(prev) < Begins(s) /\ Begins(s) <= Begins(nxt)
                      /\ s \in week_projection.clopening \/ s \notin ThisWeek
  BY DEF ShortNightIsWarned
<1> DEFINE R == Of(rota, nxt.who)
           D == {s \in R : Begins(prev) < Begins(s) /\ Begins(s) <= Begins(nxt) /\ s.date # prev.date}
<1>1. /\ IsFiniteSet(R) /\ nxt \in R /\ prev \in R
      /\ \A s \in R : s \in rota /\ s.who = nxt.who /\ s \in Rostered /\ s.start < s.end
  <2>1. R \in SUBSET rota /\ nxt \in rota
    BY DEF Of, ThisWeek
  <2>2. IsFiniteSet(R)
    BY <2>1, FS_Subset DEF PjInv, RotaOK
  <2> QED BY <2>1, <2>2 DEF Of, PjInv, RotaOK
<1>2. \A s \in R : Begins(s) \in Int /\ Ends(s) \in Int /\ Begins(s) < Ends(s)
  BY <1>1, BeginsBeforeItEnds
<1>3. ASSUME NEW x \in R, NEW y \in R, Begins(x) < Begins(y)
      PROVE  Ends(x) <= Begins(y)
  <2>1. x # y
    BY <1>2, <1>3
  <2>2. ~shifts_overlap(x, y)
    BY <1>1, <2>1 DEF PjInv, RotaOK
  <2> QED BY <1>2, <1>3, <2>2 DEF shifts_overlap
<1>4. ASSUME NEW x \in R, NEW y \in R, Begins(x) = Begins(y)
      PROVE  x = y
  <2>1. shifts_overlap(x, y)
    BY <1>2, <1>4 DEF shifts_overlap
  <2> QED BY <1>1, <2>1 DEF PjInv, RotaOK
<1> HIDE DEF R
<1>5. PICK rest : rest = MinRest /\ rest \in Int
  BY ProjectionConstants
<1>6. Ends(prev) <= Begins(nxt) /\ Begins(nxt) - Ends(prev) < rest /\ Begins(prev) < Begins(nxt)
  <2>1. /\ Begins(nxt) - Ends(prev) \in 0..(rest - 1)
        /\ Begins(nxt) \in Int /\ Ends(prev) \in Int /\ Begins(prev) \in Int /\ Begins(prev) < Ends(prev)
    BY <1>1, <1>2, <1>5
  <2> QED BY ONLY <1>5, <2>1
<1>7. nxt \in D
  <2>1. prev.date # nxt.date
    BY <1>1, <1>6, NightBetween
  <2> QED BY <1>1, <1>2, <1>6, <2>1
<1>8. PICK s0 \in D : \A x \in D : Begins(s0) <= Begins(x)
  <2>1. D \in SUBSET R
    OBVIOUS
  <2>2. IsFiniteSet(D) /\ D # {}
    BY <1>1, <1>7, <2>1, FS_Subset
  <2>3. \A x \in D : Begins(x) \in Int
    BY <1>2
  <2> HIDE DEF D
  <2> QED BY <2>2, <2>3, FirstAndLast
<1> DEFINE Q == {x \in R : Begins(x) < Begins(s0)}
<1>9. PICK p \in Q : \A x \in Q : Begins(x) <= Begins(p)
  <2>1. Q \in SUBSET R
    OBVIOUS
  <2>2. IsFiniteSet(Q) /\ prev \in Q
    BY <1>1, <1>8, <2>1, FS_Subset
  <2>3. \A x \in Q : Begins(x) \in Int
    BY <1>2
  <2> HIDE DEF Q
  <2> QED BY <2>2, <2>3, FirstAndLast
<1>10. /\ s0 \in R /\ p \in R /\ Begins(prev) < Begins(s0) /\ Begins(s0) <= Begins(nxt)
       /\ s0.date # prev.date /\ Begins(p) < Begins(s0) /\ Begins(prev) <= Begins(p)
  <2>1. prev \in Q
    BY <1>1, <1>8
  <2> QED BY <1>8, <1>9, <2>1
<1>11. /\ Begins(p) \in Int /\ Begins(prev) \in Int /\ Begins(s0) \in Int /\ Begins(nxt) \in Int
       /\ Ends(p) \in Int /\ Ends(prev) \in Int /\ Begins(p) < Ends(p)
  BY <1>1, <1>2, <1>10
<1>12. p.date = prev.date /\ Ends(prev) <= Ends(p)
  <2>1. CASE Begins(p) = Begins(prev)
    BY <1>1, <1>4, <1>10, <1>11, <2>1
  <2>2. CASE Begins(prev) < Begins(p)
    <3>1. Begins(p) <= Begins(nxt) /\ ~(Begins(s0) <= Begins(p))
      BY <1>10, <1>11
    <3>2. p \notin D
      BY <1>8, <3>1
    <3>3. p.date = prev.date
      BY <1>10, <2>2, <3>1, <3>2
    <3>4. Ends(prev) <= Begins(p)
      BY <1>1, <1>3, <1>10, <2>2
    <3> QED BY <1>11, <3>3, <3>4
  <2> QED BY <1>10, <1>11, <2>1, <2>2
<1>13. _spans_a_night(p, s0) /\ Ends(p) <= Begins(s0)
  <2>1. Ends(p) <= Begins(s0)
    BY <1>3, <1>10
  <2> QED BY <1>1, <1>10, <1>12, <2>1, NightBetween
<1>14. Begins(s0) - Ends(p) \in 0..(MinRest - 1)
  BY ONLY <1>5, <1>6, <1>10, <1>11, <1>12, <1>13
<1>15. CASE s0 \notin ThisWeek
  BY <1>10, <1>15 DEF R
<1>16. CASE s0 \in ThisWeek
  <2>1. Paired(ThisWeek, Context) = rota
    BY DEF Paired, Context, ThisWeek
  <2>2. s0.who = nxt.who
    BY <1>1, <1>10
  <2>3. \A x \in R : Begins(x) <= Begins(p) \/ Begins(s0) <= Begins(x)
    <3> TAKE x \in R
    <3>1. Begins(x) \in Int
      BY <1>2
    <3>2. CASE Begins(x) < Begins(s0)
      BY <1>9, <3>2
    <3> QED BY <1>11, <3>1, <3>2
  <2>4. Clopens(ThisWeek, Context, s0)
    BY <1>10, <1>13, <1>14, <2>1, <2>2, <2>3 DEF Clopens, R
  <2>5. s0 \in week_projection.clopening
    BY <1>16, <2>2, <2>4 DEF week_projection, project_week
  <2> QED BY <1>10, <2>5 DEF R
<1> QED BY <1>15, <1>16

-----------------------------------------------------------------------------
(* Every hour of a week is accounted for *)

LEMMA SumIsTotal == \A f : Sum(f) = Total(f)
BY Zenon DEF Sum, Total

(* Classification gives every hour of a day a class. *)
LEMMA RowIsDay ==
  ASSUME NEW r \in Rulesets, NEW h, IsFiniteSet(DOMAIN h), \A d \in DOMAIN h : h[d] \in Int,
         NEW ex, NEW d \in DOMAIN h
  PROVE  RowHours(compute_overtime(h, ex, r)[d]) = h[d]
<1>1. /\ r.weekly \in Nat /\ r.ot \in Nat /\ r.dt \in Nat /\ r.seventh \in Nat /\ r.ot <= r.dt
  <2>1. {r.weekly, r.ot, r.dt, r.seventh} \subseteq 0..Never /\ Modelled(r)
    BY OvertimeAssumption
  <2>2. (r.dt # Never => r.ot # Never) /\ (r.ot # Never /\ r.dt # Never => r.ot < r.dt)
    BY <2>1 DEF Modelled
  <2>3. Never \in Nat
    BY DEF Never
  <2> QED BY <2>1, <2>2, <2>3
<1>2. ASSUME NEW v \in Int, NEW seventh
      PROVE  LET day == Classified(v, seventh, r)
             IN  day.reg \in Int /\ day.ot \in Int /\ day.dt \in Int /\ day.reg + day.ot + day.dt = v
  BY <1>1 DEF Classified, Least, Most
<1>3. CASE ex
  <2>1. compute_overtime(h, ex, r)[d] = [reg |-> h[d], ot |-> 0, dt |-> 0]
    BY <1>3 DEF compute_overtime
  <2> QED BY <2>1 DEF RowHours
<1>4. CASE ~ex
  <2> DEFINE week == {x \in DOMAIN h : _workweek_start(x) = _workweek_start(d)}
             seventh == IF r.seventh # Never /\ Cardinality(week) = WeekDays THEN {Max(week)} ELSE {}
             day == Classified(h[d], d \in seventh, r)
             earlier == {x \in week : x < d} \ seventh
             f == [x \in earlier |-> Classified(h[x], FALSE, r).reg]
             before == StraightBefore(h, {x \in week : x < d}, seventh, r)
             keep == Least(day.reg, Most(0, r.weekly - before))
  <2>1. compute_overtime(h, ex, r)[d] = Converted(day, keep)
    BY <1>4 DEF compute_overtime
  <2>2. before = Total(f)
    BY SumIsTotal DEF StraightBefore
  <2>3. earlier \in SUBSET DOMAIN h
    OBVIOUS
  <2>4. IsFiniteSet(earlier)
    BY <2>3, FS_Subset
  <2>5. DOMAIN f = earlier /\ \A x \in earlier : f[x] \in Int
    <3> HIDE DEF earlier
    <3> QED BY <1>2, <2>3
  <2>6. Total(f) \in Int
    <3> HIDE DEF f, earlier
    <3> QED BY <2>4, <2>5, PartInt
  <2>7. PICK b : b = before /\ b \in Int
    BY <2>2, <2>6
  <2>8. PICK y : y = day
    OBVIOUS
  <2>9. y.reg \in Int /\ y.ot \in Int /\ y.dt \in Int /\ y.reg + y.ot + y.dt = h[d] /\ h[d] \in Int
    BY <1>2, <2>8
  <2> HIDE DEF day, before, f, earlier, seventh, week
  <2>10. PICK k : k = keep /\ k \in Int
    BY <1>1, <2>7, <2>8, <2>9 DEF Least, Most
  <2>11. compute_overtime(h, ex, r)[d] = [reg |-> k, ot |-> y.ot + y.reg - k, dt |-> y.dt]
    BY <2>1, <2>8, <2>10 DEF Converted
  <2> QED BY <2>9, <2>10, <2>11 DEF RowHours
<1> QED BY <1>3, <1>4

Dates(e) == {s.date : s \in Of(ThisWeek, e)}
PlainHours(e) == day_hours(ThisWeek, PricedHours, e)

(* The length of a shift, and of a set of them. *)
LEMMA ShiftsAdd ==
  ASSUME PjInv, NEW T \in SUBSET rota
  PROVE  /\ IsFiniteSet(T) /\ (\A s \in T : s \in Rostered /\ shift_hours(s) \in Int)
         /\ TotalHours(T) = Total([s \in T |-> shift_hours(s)]) /\ TotalHours(T) \in Int
<1>1. IsFiniteSet(T) /\ T \subseteq Rostered
  BY FS_Subset DEF PjInv, RotaOK
<1>2. ASSUME NEW s \in T PROVE shift_hours(s) \in Int
  <2>1. s.start \in Int /\ s.end \in Int
    BY <1>1, ProjectionConstants DEF Rostered
  <2>2. MealAfter \in Int /\ Meal \in Int
    BY ProjectionConstants
  <2> QED BY <2>1, <2>2 DEF shift_hours
<1> DEFINE w == [s \in T |-> shift_hours(s)]
<1>3. TotalHours(T) = Total(w)
  BY SumIsTotal DEF TotalHours
<1>4. DOMAIN w = T /\ \A s \in T : w[s] \in Int
  BY <1>2
<1>5. Total(w) \in Int
  <2> HIDE DEF w
  <2> QED BY <1>1, <1>4, PartInt
<1> QED BY <1>1, <1>2, <1>3, <1>5

(* The shifts taken group by group have the hours of all of them. *)
LEMMA ShiftsGrouped ==
  ASSUME PjInv, NEW T \in SUBSET rota, NEW K, IsFiniteSet(K), NEW key, \A s \in T : key[s] \in K,
         NEW g, DOMAIN g = K, \A k \in K : g[k] = TotalHours({s \in T : key[s] = k})
  PROVE  Total(g) = TotalHours(T)
<1>1. PICK f : f = [s \in T |-> shift_hours(s)]
  OBVIOUS
<1>2. /\ IsFiniteSet(DOMAIN f) /\ DOMAIN f = T /\ (\A s \in DOMAIN f : f[s] \in Int)
      /\ Total(f) = TotalHours(T)
  BY <1>1, ShiftsAdd
<1>3. ASSUME NEW k \in K
      PROVE  g[k] = Total([x \in {y \in DOMAIN f : key[y] = k} |-> f[x]])
  <2>1. PICK G : G = {s \in T : key[s] = k} /\ G \in SUBSET rota
    OBVIOUS
  <2>2. TotalHours(G) = Total([s \in G |-> shift_hours(s)])
    BY <2>1, ShiftsAdd
  <2>3. {y \in DOMAIN f : key[y] = k} = G
    BY <1>2, <2>1
  <2>4. [s \in G |-> shift_hours(s)] = [x \in G |-> f[x]]
    BY <1>1, <2>1
  <2>5. g[k] = TotalHours(G)
    BY <2>1
  <2> QED BY <2>2, <2>3, <2>4, <2>5
<1>4. \A x \in DOMAIN f : key[x] \in K
  BY <1>2
<1>5. Total(g) = Total(f)
  BY ONLY <1>2, <1>3, <1>4, IsFiniteSet(K), DOMAIN g = K, TotalGrouped
<1> QED BY <1>2, <1>5

(* The departments' hours are those of the people and of the open shifts. *)
LEMMA DepartmentsTie ==
  ASSUME PjInv, NEW p, DOMAIN p = Worker, \A e \in Worker : p[e] = TotalHours(Of(ThisWeek, e))
  PROVE  Sum(week_projection.hours) = Sum(p) + TotalHours(Of(ThisWeek, Nobody))
<1>1. PICK T : T = ThisWeek /\ T \in SUBSET rota
  BY DEF ThisWeek
<1>2. \A s \in T : s.unit \in Unit /\ s.who \in Worker \cup {Nobody}
  BY <1>1, ShiftsAdd DEF Rostered
<1>3. IsFiniteSet(Unit) /\ IsFiniteSet(Worker) /\ Nobody \notin Worker
  BY ProjectionConstants
<1>4. Sum(week_projection.hours) = TotalHours(T)
  <2>1. PICK g : g = [u \in Unit |-> TotalHours({s \in T : s.unit = u})]
    OBVIOUS
  <2>2. PICK key : key = [s \in T |-> s.unit]
    OBVIOUS
  <2>3. (\A s \in T : key[s] \in Unit) /\ DOMAIN g = Unit
    BY <1>2, <2>1, <2>2
  <2>4. ASSUME NEW u \in Unit PROVE g[u] = TotalHours({s \in T : key[s] = u})
    <3>1. {s \in T : key[s] = u} = {s \in T : s.unit = u}
      BY <2>2
    <3> QED BY <2>1, <3>1
  <2>5. Total(g) = TotalHours(T)
    BY <1>1, <1>3, <2>3, <2>4, ShiftsGrouped
  <2>6. week_projection.hours = g
    BY <1>1, <2>1 DEF week_projection, project_week
  <2> QED BY <2>5, <2>6, SumIsTotal
<1>5. TotalHours(T) = Total(p) + TotalHours(Of(ThisWeek, Nobody))
  <2>1. PICK K : K = Worker \cup {Nobody}
    OBVIOUS
  <2>2. PICK g : g = [k \in K |-> TotalHours(Of(T, k))]
    OBVIOUS
  <2>3. PICK key : key = [s \in T |-> s.who]
    OBVIOUS
  <2>4. IsFiniteSet(K)
    <3>1. IsFiniteSet({Nobody})
      BY FS_Singleton
    <3> QED BY <1>3, <2>1, <3>1, FS_Union
  <2>5. (\A s \in T : key[s] \in K) /\ DOMAIN g = K
    BY <1>2, <2>1, <2>2, <2>3
  <2>6. ASSUME NEW k \in K PROVE g[k] = TotalHours({s \in T : key[s] = k})
    <3>1. {s \in T : key[s] = k} = Of(T, k)
      BY <2>3 DEF Of
    <3> QED BY <2>2, <3>1
  <2>7. Total(g) = TotalHours(T)
    BY <1>1, <2>4, <2>5, <2>6, ShiftsGrouped
  <2>8. \A k \in K : g[k] \in Int
    <3> TAKE k \in K
    <3>1. Of(T, k) \in SUBSET rota
      BY <1>1 DEF Of
    <3> QED BY <2>2, <3>1, ShiftsAdd
  <2>9. /\ Nobody \in DOMAIN g /\ DOMAIN p = DOMAIN g \ {Nobody}
        /\ \A k \in DOMAIN p : p[k] = g[k]
    BY <1>1, <1>3, <2>1, <2>2
  <2>10. Total(g) = g[Nobody] + Total(p)
    BY ONLY <2>4, <2>5, <2>8, <2>9, TotalGrows
  <2>11. Total(p) \in Int /\ g[Nobody] \in Int
    <3>1. \A k \in DOMAIN p : p[k] \in Int
      BY <2>8, <2>9, <2>5
    <3> QED BY <1>3, <2>8, <2>9, <2>5, <3>1, PartInt
  <2>12. g[Nobody] = TotalHours(Of(ThisWeek, Nobody))
    BY <1>1, <2>1, <2>2
  <2> QED BY <2>7, <2>10, <2>11, <2>12
<1> QED BY <1>4, <1>5, SumIsTotal

(* The scheduled hours of a person, day by day. *)
LEMMA PlainIs ==
  ASSUME PjInv, NEW e \in Worker
  PROVE  /\ DOMAIN PlainHours(e) = Dates(e) /\ Dates(e) \subseteq Week /\ IsFiniteSet(Dates(e))
         /\ \A d \in Dates(e) : /\ PlainHours(e)[d] = TotalHours({s \in Of(ThisWeek, e) : s.date = d})
                                /\ PlainHours(e)[d] \in Int
<1>1. PricedHours = [x \in {} |-> 0] /\ DOMAIN PricedHours = {}
  BY DEF PricedHours, NoHours
<1>2. PlainHours(e) = [d \in Dates(e) |-> TotalHours({s \in Of(ThisWeek, e) : s.date = d})]
  <2>1. Dates(e) \cup {d \in Week : <<e, d>> \in DOMAIN PricedHours} = Dates(e)
    BY <1>1
  <2>2. PlainHours(e) = [d \in Dates(e) \cup {d \in Week : <<e, d>> \in DOMAIN PricedHours} |->
                           IF <<e, d>> \in DOMAIN PricedHours THEN PricedHours[<<e, d>>]
                           ELSE TotalHours({s \in Of(ThisWeek, e) : s.date = d})]
    BY Zenon DEF PlainHours, day_hours, Dates
  <2> QED BY <1>1, <2>1, <2>2
<1>3. Dates(e) \subseteq Week
  BY DEF Dates, Of, ThisWeek
<1>4. IsFiniteSet(Dates(e))
  BY <1>3, WeekIs, FS_Subset
<1>5. ASSUME NEW d \in Dates(e)
      PROVE  TotalHours({s \in Of(ThisWeek, e) : s.date = d}) \in Int
  <2>1. {s \in Of(ThisWeek, e) : s.date = d} \in SUBSET rota
    BY DEF Of, ThisWeek
  <2> QED BY <2>1, ShiftsAdd
<1> QED BY <1>2, <1>3, <1>4, <1>5

Plain == day_rows(ThisWeek, PricedHours)
RowsHours(e) == [d \in DOMAIN Plain[e] |-> RowHours(Plain[e][d])]

(* Day by day they are classified, and add up to the hours of the shifts. *)
LEMMA PersonHours ==
  ASSUME PjInv, NEW e \in Worker
  PROVE  /\ DOMAIN Plain[e] = Dates(e) /\ DOMAIN RowsHours(e) = Dates(e)
         /\ \A d \in Dates(e) : RowsHours(e)[d] = RowHours(Plain[e][d]) /\ RowsHours(e)[d] \in Int
         /\ Sum(RowsHours(e)) = TotalHours(Of(ThisWeek, e))
<1>1. PICK h : h = PlainHours(e)
  OBVIOUS
<1>2. /\ DOMAIN h = Dates(e) /\ Dates(e) \subseteq Week /\ IsFiniteSet(Dates(e))
      /\ \A d \in Dates(e) : h[d] = TotalHours({s \in Of(ThisWeek, e) : s.date = d}) /\ h[d] \in Int
  BY <1>1, PlainIs
<1>3. Plain[e] = compute_overtime(h, e \in Exempt, law)
  BY <1>1 DEF Plain, day_rows, PlainHours
<1>4. DOMAIN Plain[e] = Dates(e)
  BY <1>2, <1>3 DEF compute_overtime
<1>5. ASSUME NEW d \in Dates(e) PROVE RowHours(Plain[e][d]) = h[d]
  <2>1. law \in Rulesets /\ IsFiniteSet(DOMAIN h) /\ (\A x \in DOMAIN h : h[x] \in Int) /\ d \in DOMAIN h
    BY <1>2 DEF PjInv
  <2>2. RowHours(compute_overtime(h, e \in Exempt, law)[d]) = h[d]
    BY <2>1, RowIsDay
  <2> QED BY <1>3, <2>2
<1>6. RowsHours(e) = h
  <2>1. RowsHours(e) = [d \in Dates(e) |-> RowHours(Plain[e][d])]
    BY <1>4 DEF RowsHours
  <2>2. h = [d \in Dates(e) |-> h[d]]
    BY <1>1, <1>2 DEF PlainHours, day_hours
  <2> QED BY <1>5, <2>1, <2>2
<1>7. Total(h) = TotalHours(Of(ThisWeek, e))
  <2>1. PICK T : T = Of(ThisWeek, e)
    OBVIOUS
  <2>2. T \in SUBSET rota
    BY <2>1 DEF Of, ThisWeek
  <2>3. PICK key : key = [s \in T |-> s.date]
    OBVIOUS
  <2>4. PICK K : K = Dates(e)
    OBVIOUS
  <2>5. IsFiniteSet(K) /\ DOMAIN h = K /\ \A s \in T : key[s] \in K
    BY <1>2, <2>1, <2>3, <2>4 DEF Dates
  <2>6. ASSUME NEW k \in K PROVE h[k] = TotalHours({s \in T : key[s] = k})
    <3>1. {s \in T : key[s] = k} = {s \in T : s.date = k}
      BY <2>3
    <3> QED BY <1>2, <2>1, <2>4, <3>1
  <2>7. Total(h) = TotalHours(T)
    BY <2>2, <2>5, <2>6, ShiftsGrouped
  <2> QED BY <2>1, <2>7
<1> QED BY <1>2, <1>4, <1>5, <1>6, <1>7, SumIsTotal

(* The hours without a cost are those of the people without one. *)
LEMMA UnpricedTie ==
  ASSUME PjInv, NEW q, DOMAIN q = Unrated \cup Exempt,
         \A e \in Unrated \cup Exempt : q[e] = Sum(RowsHours(e))
  PROVE  unpriced_hours(Plain) = Sum(q)
<1>1. PICK K : K = Unrated \cup Exempt
  OBVIOUS
<1>2. K \subseteq Worker /\ IsFiniteSet(K) /\ IsFiniteSet(Worker) /\ IsFiniteSet(Week)
  BY <1>1, ProjectionConstants, WeekIs, FS_Subset
<1>3. PICK U : U = UnpricedOf(Plain)
  OBVIOUS
<1>4. U = {x \in Worker \X Week : x[1] \in K /\ x[2] \in DOMAIN Plain[x[1]]}
  BY <1>1, <1>3 DEF UnpricedOf
<1>5. IsFiniteSet(U)
  <2>1. IsFiniteSet(Worker \X Week)
    BY <1>2, FS_Product
  <2>2. U \in SUBSET (Worker \X Week)
    BY <1>4
  <2> QED BY <2>1, <2>2, FS_Subset
<1>6. PICK f : f = [x \in U |-> RowHours(Plain[x[1]][x[2]])]
  OBVIOUS
<1>7. PICK key : key = [x \in U |-> x[1]]
  OBVIOUS
<1>8. \A x \in U : x = <<x[1], x[2]>> /\ x[1] \in K /\ x[1] \in Worker /\ x[2] \in DOMAIN Plain[x[1]] /\ key[x] = x[1]
  BY <1>4, <1>7
<1>9. ASSUME NEW x \in U PROVE f[x] = RowsHours(x[1])[x[2]] /\ f[x] \in Int
  <2>1. PICK e, d : e = x[1] /\ d = x[2] /\ e \in Worker /\ d \in DOMAIN Plain[e]
    BY <1>8
  <2>2. d \in Dates(e) /\ RowsHours(e)[d] = RowHours(Plain[e][d]) /\ RowsHours(e)[d] \in Int
    BY <2>1, PersonHours
  <2> QED BY <1>6, <2>1, <2>2
<1>10. ASSUME NEW k \in K
       PROVE  q[k] = Total([x \in {y \in DOMAIN f : key[y] = k} |-> f[x]])
  <2>1. k \in Worker
    BY <1>2
  <2>2. PICK r : r = RowsHours(k)
    OBVIOUS
  <2>3. PICK A : A = Dates(k)
    OBVIOUS
  <2>4. DOMAIN r = A /\ DOMAIN Plain[k] = A /\ A \subseteq Week /\ IsFiniteSet(A) /\ \A d \in A : r[d] \in Int
    BY <2>1, <2>2, <2>3, PersonHours, PlainIs
  <2>5. PICK n : n = [d \in A |-> <<k, d>>]
    OBVIOUS
  <2>6. PICK g : g = [x \in {y \in DOMAIN f : key[y] = k} |-> f[x]]
    OBVIOUS
  <2>7. \A x \in {y \in DOMAIN f : key[y] = k} : x \in {n[d] : d \in A}
    <3> TAKE x \in {y \in DOMAIN f : key[y] = k}
    <3>1. x \in U /\ x[1] = k /\ x = <<k, x[2]>> /\ x[2] \in A
      BY <1>6, <1>8, <2>4
    <3>2. x = n[x[2]]
      BY <2>5, <3>1
    <3> QED BY <3>1, <3>2
  <2>8. \A d \in A : n[d] \in U /\ key[n[d]] = k /\ n[d][1] = k /\ n[d][2] = d
    <3> TAKE d \in A
    <3>1. n[d] = <<k, d>> /\ d \in Week /\ d \in DOMAIN Plain[k]
      BY <2>4, <2>5
    <3>2. n[d] \in U
      BY <1>4, <2>1, <3>1
    <3> QED BY <1>8, <3>1, <3>2
  <2>9. DOMAIN g = {n[d] : d \in A}
    <3>1. DOMAIN f = U
      BY <1>6
    <3> QED BY <2>6, <2>7, <2>8, <3>1
  <2>10. \A d \in A : g[n[d]] = r[d] /\ g[n[d]] \in Int
    <3> TAKE d \in A
    <3>1. n[d] \in DOMAIN f /\ key[n[d]] = k /\ f[n[d]] = RowsHours(k)[d]
      BY <1>6, <1>9, <2>8
    <3> QED BY <2>2, <2>4, <2>6, <3>1
  <2>11. Total(g) = Total(r)
    <3>1. DOMAIN n = A /\ \A a, b \in A : n[a] = n[b] => a = b
      BY <2>5, <2>8
    <3>2. (\A x \in DOMAIN g : g[x] \in Int) /\ \A d \in A : r[d] = g[n[d]]
      BY <2>9, <2>10
    <3> QED BY ONLY <2>4, <2>9, <3>1, <3>2, TotalRenamed
  <2>12. q[k] = Total(r)
    BY <1>1, <2>2, SumIsTotal
  <2> QED BY <2>6, <2>11, <2>12
<1>11. IsFiniteSet(DOMAIN f) /\ (\A x \in DOMAIN f : f[x] \in Int) /\ \A x \in DOMAIN f : key[x] \in K
  BY <1>5, <1>6, <1>8, <1>9
<1>12. DOMAIN q = K
  BY <1>1
<1>13. Total(q) = Total(f)
  BY ONLY <1>2, <1>10, <1>11, <1>12, TotalGrouped
<1>14. unpriced_hours(Plain) = Sum(f)
  BY <1>3, <1>6, Zenon DEF unpriced_hours
<1> QED BY <1>13, <1>14, SumIsTotal

LEMMA HoursTie == ASSUME PjInv PROVE ScheduledHoursTie
<1>1. PICK p : p = [e \in Worker |-> Sum(RowsHours(e))]
  OBVIOUS
<1>2. PICK q : q = [e \in Unrated \cup Exempt |-> Sum(RowsHours(e))]
  OBVIOUS
<1>3. Sum(week_projection.hours) = Sum(p) + TotalHours(Of(ThisWeek, Nobody))
  <2>1. DOMAIN p = Worker /\ \A e \in Worker : p[e] = TotalHours(Of(ThisWeek, e))
    BY <1>1, PersonHours
  <2> QED BY <2>1, DepartmentsTie
<1>4. unpriced_hours(Plain) = Sum(q)
  BY <1>2, UnpricedTie
<1>5. ScheduledHoursTie <=>
        /\ Sum(week_projection.hours)
              = Sum([e \in Worker |-> Sum(RowsHours(e))]) + TotalHours(Of(ThisWeek, Nobody))
        /\ unpriced_hours(Plain) = Sum([e \in Unrated \cup Exempt |-> Sum(RowsHours(e))])
  BY Zenon DEF ScheduledHoursTie, Plain, RowsHours
<1> QED BY <1>1, <1>2, <1>3, <1>4, <1>5

-----------------------------------------------------------------------------
(* The projection and adherence agree *)

LEMMA TheyAgree == ASSUME PjInv PROVE ReportsAgree
<1> SUFFICES ASSUME Anchor < as_of, as_of \in Week, NEW e \in Worker, NEW d \in Week,
                    joined(e) <= Anchor, Scheduled(e, d) # {}
             PROVE  week_adherence(e, d) = "no_show" <=> d < as_of /\ <<e, d>> \notin DOMAIN Merged
  BY DEF ReportsAgree
<1>1. PICK a, n, t : /\ a = Anchor /\ n = WeekDays /\ t = as_of
                     /\ a \in Int /\ n \in Int /\ t \in Int /\ t \in a..(a + n - 1) /\ a < t
  BY OvertimeAssumption, WeekIs DEF Week
<1>2. Anchor < as_of /\ as_of <= Anchor + WeekDays - 1
  BY <1>1
<1>3. e \in Assigned
  <2>1. PICK s \in ThisWeek : s.who = e
    BY DEF Scheduled, Of
  <2>2. e # Nobody
    BY ProjectionConstants
  <2> QED BY <2>1, <2>2 DEF Assigned
<1>4. DOMAIN Merged = {x \in DOMAIN punched : x[1] \in Assigned /\ x[2] \in Week /\ x[2] < as_of}
  BY <1>2 DEF Merged
<1>5. d < as_of /\ <<e, d>> \notin DOMAIN Merged <=> d < as_of /\ <<e, d>> \notin DOMAIN punched
  BY <1>3, <1>4
<1>6. PunchesSeen(e, d) = 0 <=> <<e, d>> \notin DOMAIN punched
  BY DEF PunchesSeen, PjInv
<1>7. d \in Elapsed <=> d < as_of
  BY DEF Elapsed
<1>8. week_adherence(e, d) = "no_show" <=> d \in Elapsed /\ PunchesSeen(e, d) = 0
  BY DEF week_adherence
<1> QED BY <1>5, <1>6, <1>7, <1>8

(* What a manager reads of a running week is complete and free of            *)
(* contradiction: every short night is warned about, hours tie by department, *)
(* by person and by cost, and the projection and the adherence report agree. *)
THEOREM WeekIsReported == PjSpec => []WeekReportsHold
<1>1. PjInit => PjInv
  BY PjInitInv
<1>2. PjInv /\ [PjNext]_pjVars => PjInv'
  BY PjInvStep
<1>3. PjInv => WeekReportsHold
  BY NightsWarned, HoursTie, TheyAgree DEF WeekReportsHold
<1> QED BY <1>1, <1>2, <1>3, PTL DEF PjSpec

-----------------------------------------------------------------------------
(* The kiosk's clock *)

Busy == {k \in Kiosk : req[k] # Idle}

Punched == [type : PunchType, at : 0..MaxTime]

(* No two punches, recorded or stamped, have one timestamp. *)
Apart ==
    /\ \A p, q \in log : p.at = q.at => p = q
    /\ \A k \in Kiosk : req[k].pc = "stamped" => \A p \in log : p.at # req[k].at
    /\ \A k, j \in Kiosk :
          req[k].pc = "stamped" /\ req[j].pc = "stamped" /\ req[k].at = req[j].at => k = j

(* A punch comes right after another. *)
RightAfter(ps, p, n) == p.at < n.at /\ \A q \in ps : q.at <= p.at \/ n.at <= q.at

(* What a check lets through, whenever it was made. *)
Fits(type) ==
    \/ type = "clock_in"
    \/ \E p \in log : (\A q \in log : q.at <= p.at) /\ type \in _ALLOWED_NEXT(_STATE_AFTER[p.type])

(* One by one, punches keep the order rule. *)
OneByOne ==
    /\ \A k, j \in Kiosk : req[k] # Idle /\ req[j] # Idle => k = j
    /\ \A k \in Kiosk : req[k] # Idle => Fits(req[k].type)
    /\ \A k \in Kiosk : req[k].pc = "stamped" => \A p \in log : p.at < req[k].at
    /\ \A n \in log :
          n.type = "clock_in" \/ \E p \in log : RightAfter(log, p, n) /\ n.type \in _ALLOWED_NEXT(_STATE_AFTER[p.type])

Underway(h) ==
    \/ h = Idle
    \/ h \in [pc : {"checked"}, type : PunchType]
    \/ h \in [pc : {"stamped"}, type : PunchType, at : 0..MaxTime] /\ h.at < now

TkInv ==
    /\ now \in 0..MaxTime /\ DOMAIN req = Kiosk /\ atOnce \in BOOLEAN
    /\ IsFiniteSet(log) /\ log \subseteq Punched /\ \A p \in log : p.at < now
    /\ Cardinality(log) + Cardinality(Busy) <= MaxPunches + Cardinality(Kiosk)
    /\ \A k \in Kiosk : Underway(req[k])
    /\ Apart
    /\ ~atOnce => OneByOne

LEMMA PunchSteps ==
  ASSUME NEW t \in PunchType, NEW n \in PunchType
  PROVE  /\ _STATE_AFTER[t] \in {"out", "in", "on_break"}
         /\ _STATE_AFTER[t] = "out" <=> t = "clock_out"
         /\ _STATE_AFTER[t] = "in" <=> t \in {"clock_in", "lunch_end"}
         /\ n \in _ALLOWED_NEXT(_STATE_AFTER[t]) /\ n # "clock_in" =>
              \/ n \in {"lunch_start", "clock_out"} /\ t \in {"clock_in", "lunch_end"}
              \/ n = "lunch_end" /\ t = "lunch_start"
<1>1. /\ _STATE_AFTER["clock_in"] = "in" /\ _STATE_AFTER["lunch_start"] = "on_break"
      /\ _STATE_AFTER["lunch_end"] = "in" /\ _STATE_AFTER["clock_out"] = "out"
  BY DEF _STATE_AFTER
<1>2. t \in {"clock_in", "lunch_start", "lunch_end", "clock_out"}
  BY DEF PunchType
<1>3. /\ _ALLOWED_NEXT("out") = {"clock_in"} /\ _ALLOWED_NEXT("in") = {"lunch_start", "clock_out"}
      /\ _ALLOWED_NEXT("on_break") = {"lunch_end"}
  BY DEF _ALLOWED_NEXT
<1> QED BY <1>1, <1>2, <1>3

(* Of punches there is a first and a last. *)
LEMMA FirstAndLastPunch ==
  ASSUME NEW S, IsFiniteSet(S), S # {}, \A p \in S : p.at \in Int
  PROVE  /\ \E p \in S : \A q \in S : p.at <= q.at
         /\ \E p \in S : \A q \in S : q.at <= p.at
<1> DEFINE f == [p \in S |-> p.at]
           T == {f[p] : p \in DOMAIN f}
<1>1. DOMAIN f = S /\ T \subseteq Int /\ T # {} /\ (\A p \in S : f[p] = p.at /\ f[p] \in T)
      /\ \A y \in T : \E p \in S : y = p.at
  OBVIOUS
<1>2. IsFiniteSet(T)
  <2>1. IsFiniteSet(DOMAIN f)
    BY <1>1
  <2> HIDE DEF f
  <2> QED BY <2>1, ImageFinite
<1> HIDE DEF T, f
<1>3. /\ Max(T) \in T /\ \A y \in T : y <= Max(T)
      /\ Min(T) \in T /\ \A y \in T : Min(T) <= y
  BY <1>1, <1>2, MaxOf
<1>4. PICK a \in S : Max(T) = a.at
  BY <1>1, <1>3
<1>5. PICK b \in S : Min(T) = b.at
  BY <1>1, <1>3
<1>6. \A p \in S : p.at <= a.at /\ b.at <= p.at
  BY <1>1, <1>3, <1>4, <1>5
<1> QED BY <1>6

LEMMA LatestIs ==
  ASSUME NEW S, IsFiniteSet(S), S # {}, \A p \in S : p.at \in Int
  PROVE  Latest(S) \in S /\ \A q \in S : q.at <= Latest(S).at
<1>1. \E p \in S : \A q \in S : q.at <= p.at
  BY FirstAndLastPunch
<1> QED BY <1>1 DEF Latest

LEMMA TkInitInv == ASSUME TkInit PROVE TkInv
<1>1. now = 0 /\ log = {} /\ req = [k \in Kiosk |-> Idle] /\ atOnce \in BOOLEAN
  BY Zenon DEF TkInit
<1>2. MaxTime \in Nat /\ MaxPunches \in Nat /\ IsFiniteSet(Kiosk)
  BY TimeclockConstants
<1>3. Cardinality(log) = 0 /\ Busy = {} /\ IsFiniteSet(log)
  BY <1>1, FS_EmptySet DEF Busy
<1>4. Cardinality(Busy) = 0 /\ Cardinality(Kiosk) \in Nat
  BY <1>2, <1>3, FS_EmptySet, FS_CardinalityType
<1>5. Cardinality(log) + Cardinality(Busy) <= MaxPunches + Cardinality(Kiosk)
  BY <1>2, <1>3, <1>4
<1>6. \A k \in Kiosk : req[k] = Idle /\ req[k].pc = "idle"
  BY <1>1 DEF Idle
<1>7. Apart /\ OneByOne
  BY <1>1, <1>6 DEF Apart, OneByOne
<1>8. /\ now \in 0..MaxTime /\ DOMAIN req = Kiosk /\ log \subseteq Punched /\ \A p \in log : p.at < now
  BY <1>1, <1>2
<1> QED BY <1>1, <1>3, <1>5, <1>6, <1>7, <1>8 DEF TkInv, Underway

(* Where the employee stands allows what follows the latest punch, or a     *)
(* clock_in.                                                                *)
LEMMA CheckedFits ==
  ASSUME TkInv, NEW type \in PunchType, ~refuse_punch(type)
  PROVE  Fits(type)
<1>1. type \in _ALLOWED_NEXT(punch_state)
  BY DEF refuse_punch
<1>2. CASE punch_state = "out"
  BY <1>1, <1>2 DEF _ALLOWED_NEXT, Fits
<1>3. CASE punch_state # "out"
  <2>1. log # {} /\ punch_state = _STATE_AFTER[Latest(log).type]
    BY <1>3 DEF punch_state
  <2>2. IsFiniteSet(log) /\ \A p \in log : p.at \in Int
    BY DEF TkInv, Punched
  <2>3. Latest(log) \in log /\ \A q \in log : q.at <= Latest(log).at
    BY <2>1, <2>2, LatestIs
  <2> QED BY <1>1, <2>1, <2>3 DEF Fits
<1> QED BY <1>2, <1>3

LEMMA IdleIs == Idle.pc = "idle" /\ \A h \in [pc : {"checked"}, type : PunchType] : h # Idle
<1>1. Idle.pc = "idle"
  BY DEF Idle
<1>2. \A h \in [pc : {"checked"}, type : PunchType] : h.pc = "checked"
  OBVIOUS
<1> QED BY <1>1, <1>2

(* What a request is by its pc. *)
LEMMA ByPc ==
  ASSUME NEW h, Underway(h)
  PROVE  /\ h.pc = "checked" => h \in [pc : {"checked"}, type : PunchType] /\ h # Idle
         /\ h.pc = "stamped" => h \in [pc : {"stamped"}, type : PunchType, at : 0..MaxTime] /\ h.at < now /\ h # Idle
         /\ h # Idle => h.type \in PunchType /\ h.pc \in {"checked", "stamped"}
<1>1. Idle.pc = "idle"
  BY IdleIs
<1>2. CASE h = Idle
  BY <1>1, <1>2
<1>3. CASE h \in [pc : {"checked"}, type : PunchType]
  <2>1. h.pc = "checked" /\ h.type \in PunchType
    BY <1>3
  <2> QED BY <1>1, <1>3, <2>1
<1>4. CASE h \in [pc : {"stamped"}, type : PunchType, at : 0..MaxTime] /\ h.at < now
  <2>1. h.pc = "stamped" /\ h.type \in PunchType
    BY <1>4
  <2> QED BY <1>1, <1>4, <2>1
<1> QED BY <1>2, <1>3, <1>4 DEF Underway

LEMMA BusyIs == IsFiniteSet(Busy) /\ Busy \subseteq Kiosk /\ Cardinality(Busy) \in Nat /\ Cardinality(Busy) <= Cardinality(Kiosk)
                /\ Cardinality(Kiosk) \in Nat
<1>1. Busy \in SUBSET Kiosk /\ IsFiniteSet(Kiosk)
  BY TimeclockConstants DEF Busy
<1> QED BY <1>1, FS_Subset, FS_CardinalityType

LEMMA CheckStep ==
  ASSUME TkInv, NEW k \in Kiosk, NEW type \in PunchType, check_punch(k, type)
  PROVE  TkInv'
<1>1. PICK h : h = [pc |-> "checked", type |-> type]
  OBVIOUS
<1>2. /\ req[k] = Idle /\ (atOnce \/ \A q \in Kiosk : req[q] = Idle) /\ Cardinality(log) < MaxPunches
      /\ ~refuse_punch(type) /\ req' = [req EXCEPT ![k] = h] /\ now' = now /\ log' = log /\ atOnce' = atOnce
  BY <1>1 DEF check_punch
<1>3. /\ h \in [pc : {"checked"}, type : PunchType] /\ h.pc = "checked" /\ h.type = type /\ h # Idle
  BY <1>1, IdleIs
<1>4. DOMAIN req' = Kiosk /\ \A q \in Kiosk : req'[q] = IF q = k THEN h ELSE req[q]
  BY <1>2 DEF TkInv
<1>5. \A q \in Kiosk : Underway(req[q])'
  BY <1>2, <1>3, <1>4 DEF TkInv, Underway
<1>6. Cardinality(log') + Cardinality(Busy') <= MaxPunches + Cardinality(Kiosk)
  <2>1. Busy' = Busy \cup {k} /\ k \notin Busy
    BY <1>2, <1>3, <1>4 DEF Busy
  <2>2. Cardinality(Busy \cup {k}) = Cardinality(Busy) + 1
    BY <2>1, BusyIs, FS_AddElement
  <2>3. Cardinality(Busy \cup {k}) <= Cardinality(Kiosk)
    <3>1. IsFiniteSet(Kiosk) /\ Busy \cup {k} \in SUBSET Kiosk
      BY BusyIs, TimeclockConstants
    <3> QED BY <3>1, FS_Subset
  <2>4. PICK b, n, l : b = Cardinality(Busy \cup {k}) /\ n = Cardinality(Kiosk) /\ l = Cardinality(log)
    OBVIOUS
  <2>5. b \in Nat /\ n \in Nat /\ l \in Nat /\ b <= n /\ l < MaxPunches /\ MaxPunches \in Nat
    <3>1. l \in Nat
      BY <2>4, FS_CardinalityType DEF TkInv
    <3> QED BY <1>2, <2>2, <2>3, <2>4, <3>1, BusyIs, TimeclockConstants
  <2>6. l + b <= MaxPunches + n
    BY ONLY <2>5
  <2> QED BY <1>2, <2>1, <2>4, <2>6
<1>7. Apart'
  <2>1. \A q \in Kiosk : req'[q].pc = "stamped" => req[q].pc = "stamped" /\ req'[q] = req[q]
    BY <1>3, <1>4
  <2> QED BY <1>2, <2>1 DEF Apart, TkInv
<1>8. ASSUME ~atOnce PROVE OneByOne'
  <2>1. \A q \in Kiosk : req'[q] # Idle => q = k
    BY <1>2, <1>4, <1>8
  <2>2. Fits(type)
    BY <1>2, CheckedFits
  <2>3. Fits(type)'
    BY <1>2, <2>2 DEF Fits
  <2>4. \A q \in Kiosk : req'[q] # Idle => Fits(req[q].type)'
    BY <1>3, <1>4, <2>1, <2>3
  <2>5. \A q \in Kiosk : req'[q].pc # "stamped"
    <3>1. \A q \in Kiosk : q # k => req'[q] = Idle
      BY <1>4, <2>1
    <3> QED BY <1>3, <1>4, <3>1, IdleIs
  <2>6. \A n \in log :
          n.type = "clock_in" \/ \E p \in log : RightAfter(log, p, n) /\ n.type \in _ALLOWED_NEXT(_STATE_AFTER[p.type])
    BY <1>8 DEF TkInv, OneByOne
  <2> QED BY <1>2, <2>1, <2>4, <2>5, <2>6 DEF OneByOne
<1> QED BY <1>2, <1>4, <1>5, <1>6, <1>7, <1>8 DEF TkInv

LEMMA StampStep ==
  ASSUME TkInv, NEW k \in Kiosk, Stamp(k)
  PROVE  TkInv'
<1>1. PICK h : h = [pc |-> "stamped", type |-> req[k].type, at |-> now]
  OBVIOUS
<1>2. /\ req[k].pc = "checked" /\ ~Stopped /\ req' = [req EXCEPT ![k] = h] /\ now' = now + 1
      /\ log' = log /\ atOnce' = atOnce
  BY <1>1 DEF Stamp
<1>3. now \in Int /\ 0 <= now /\ now < MaxTime /\ MaxTime \in Nat
  BY <1>2, TimeclockConstants DEF Stopped, TkInv
<1>4. /\ h \in [pc : {"stamped"}, type : PunchType, at : 0..MaxTime] /\ h.at = now /\ h.type = req[k].type
      /\ h.pc = "stamped" /\ h # Idle /\ req[k] # Idle
  <2>1. Underway(req[k])
    BY DEF TkInv
  <2>2. req[k].type \in PunchType /\ req[k] # Idle
    BY <1>2, <2>1, ByPc
  <2>3. h.pc = "stamped"
    BY <1>1
  <2> QED BY <1>1, <1>3, <2>2, <2>3, IdleIs
<1>5. DOMAIN req' = Kiosk /\ \A q \in Kiosk : req'[q] = IF q = k THEN h ELSE req[q]
  BY <1>2 DEF TkInv
<1>6. \A q \in Kiosk : Underway(req[q])'
  <2> TAKE q \in Kiosk
  <2>1. CASE q = k
    <3>1. h.at < now'
      BY <1>2, <1>3, <1>4
    <3> QED BY <1>4, <1>5, <2>1, <3>1 DEF Underway
  <2>2. CASE q # k
    <3>1. req'[q] = req[q] /\ Underway(req[q])
      BY <1>5, <2>2 DEF TkInv
    <3>2. ASSUME req[q] \in [pc : {"stamped"}, type : PunchType, at : 0..MaxTime], req[q].at < now
          PROVE  req[q].at < now'
      <4>1. PICK a : a = req[q].at /\ a \in Int /\ a < now
        BY <3>2, <1>3
      <4> QED BY <1>2, <1>3, <4>1
    <3> QED BY <3>1, <3>2 DEF Underway
  <2> QED BY <2>1, <2>2
<1>7. Busy' = Busy
  BY <1>4, <1>5 DEF Busy
<1>8. \A p \in log : p.at < now /\ p.at \in Int /\ p.at < now'
  <2> TAKE p \in log
  <2>1. p.at < now /\ p.at \in Int
    BY DEF TkInv, Punched
  <2> QED BY <1>2, <1>3, <2>1
<1>9. \A q \in Kiosk : req[q].pc = "stamped" => req[q].at < now /\ req[q].at \in Int
  <2> TAKE q \in Kiosk
  <2>1. Underway(req[q])
    BY DEF TkInv
  <2> QED BY <2>1, <1>3, ByPc
<1>10. Apart'
  <2>1. \A q \in Kiosk : req'[q].pc = "stamped" => \A p \in log : p.at # req'[q].at
    <3> TAKE q \in Kiosk
    <3>1. CASE q = k
      BY <1>3, <1>4, <1>5, <1>8, <3>1
    <3>2. CASE q # k
      BY <1>5, <3>2 DEF TkInv, Apart
    <3> QED BY <3>1, <3>2
  <2>2. \A q, j \in Kiosk :
          req'[q].pc = "stamped" /\ req'[j].pc = "stamped" /\ req'[q].at = req'[j].at => q = j
    <3>1. \A q, j \in Kiosk : q # k /\ j # k /\ req'[q].pc = "stamped" /\ req'[j].pc = "stamped"
                                /\ req'[q].at = req'[j].at => q = j
      BY <1>5 DEF TkInv, Apart
    <3>2. \A q \in Kiosk : q # k /\ req'[q].pc = "stamped" => req'[q].at # req'[k].at
      BY <1>3, <1>4, <1>5, <1>9
    <3> QED BY <3>1, <3>2
  <2> QED BY <1>2, <2>1, <2>2 DEF Apart, TkInv
<1>11. ASSUME ~atOnce PROVE OneByOne'
  <2>1. \A q \in Kiosk : req[q] # Idle => q = k /\ Fits(req[q].type)
    BY <1>4, <1>11 DEF TkInv, OneByOne
  <2>2. \A q, j \in Kiosk : req'[q] # Idle /\ req'[j] # Idle => q = j
    BY <1>5, <2>1
  <2>3. Fits(h.type)'
    BY <1>2, <1>4, <2>1 DEF Fits
  <2>4. \A q \in Kiosk : req'[q] # Idle => Fits(req[q].type)'
    BY <1>5, <2>1, <2>3
  <2>5. \A q \in Kiosk : req'[q].pc = "stamped" => \A p \in log : p.at < req'[q].at
    <3> TAKE q \in Kiosk
    <3>1. CASE q = k
      BY <1>4, <1>5, <1>8, <3>1
    <3>2. CASE q # k
      BY <1>5, <2>1, <3>2, IdleIs
    <3> QED BY <3>1, <3>2
  <2>6. \A n \in log :
          n.type = "clock_in" \/ \E p \in log : RightAfter(log, p, n) /\ n.type \in _ALLOWED_NEXT(_STATE_AFTER[p.type])
    BY <1>11 DEF TkInv, OneByOne
  <2> QED BY <1>2, <2>2, <2>4, <2>5, <2>6 DEF OneByOne
<1>12. now' \in 0..MaxTime
  BY <1>2, <1>3
<1>13. Cardinality(log') + Cardinality(Busy') <= MaxPunches + Cardinality(Kiosk)
  BY <1>2, <1>7 DEF TkInv
<1> QED BY <1>2, <1>5, <1>6, <1>8, <1>10, <1>11, <1>12, <1>13 DEF TkInv

(* A request that ends frees its kiosk. *)
LEMMA FreedKiosk ==
  ASSUME TkInv, NEW k \in Kiosk, req[k] # Idle, req' = [req EXCEPT ![k] = Idle]
  PROVE  /\ DOMAIN req' = Kiosk /\ \A q \in Kiosk : req'[q] = IF q = k THEN Idle ELSE req[q]
         /\ Cardinality(Busy') = Cardinality(Busy) - 1
         /\ \A q \in Kiosk : req'[q] # Idle \/ req'[q].pc = "stamped" => q # k /\ req'[q] = req[q]
<1>1. DOMAIN req' = Kiosk /\ \A q \in Kiosk : req'[q] = IF q = k THEN Idle ELSE req[q]
  BY DEF TkInv
<1>2. k \in Busy /\ Busy' = Busy \ {k}
  BY <1>1 DEF Busy
<1>3. Cardinality(Busy \ {k}) = Cardinality(Busy) - 1
  BY <1>2, BusyIs, FS_RemoveElement
<1> QED BY <1>1, <1>2, <1>3, IdleIs

LEMMA PunchCommitStep ==
  ASSUME TkInv, NEW k \in Kiosk, Commit(k)
  PROVE  TkInv'
<1>1. PICK e : e = [type |-> req[k].type, at |-> req[k].at]
  OBVIOUS
<1>2. /\ req[k].pc = "stamped" /\ log' = log \cup {e} /\ req' = [req EXCEPT ![k] = Idle] /\ now' = now /\ atOnce' = atOnce
  BY <1>1 DEF Commit
<1>3. /\ req[k] # Idle /\ e.type = req[k].type /\ e.at = req[k].at /\ e.at < now /\ e \in Punched
  <2>1. Underway(req[k])
    BY DEF TkInv
  <2>2. req[k] \in [pc : {"stamped"}, type : PunchType, at : 0..MaxTime] /\ req[k].at < now /\ req[k] # Idle
    BY <1>2, <2>1, ByPc
  <2> QED BY <1>1, <2>2 DEF Punched
<1>4. /\ DOMAIN req' = Kiosk /\ (\A q \in Kiosk : req'[q] = IF q = k THEN Idle ELSE req[q])
      /\ Cardinality(Busy') = Cardinality(Busy) - 1
      /\ \A q \in Kiosk : req'[q] # Idle \/ req'[q].pc = "stamped" => q # k /\ req'[q] = req[q]
  BY <1>2, <1>3, FreedKiosk
<1>5. e \notin log /\ \A p \in log : p.at # e.at
  BY <1>2, <1>3 DEF TkInv, Apart
<1>6. /\ IsFiniteSet(log') /\ Cardinality(log') + Cardinality(Busy') <= MaxPunches + Cardinality(Kiosk)
  <2>1. IsFiniteSet(log) /\ Cardinality(log) \in Nat
    BY FS_CardinalityType DEF TkInv
  <2>2. IsFiniteSet(log \cup {e}) /\ Cardinality(log \cup {e}) = Cardinality(log) + 1
    BY <1>5, <2>1, FS_AddElement
  <2>3. PICK b, n, l, m : b = Cardinality(Busy) /\ n = Cardinality(Kiosk) /\ l = Cardinality(log) /\ m = MaxPunches
    OBVIOUS
  <2>4. b \in Nat /\ n \in Nat /\ l \in Nat /\ m \in Nat /\ l + b <= m + n
    BY <2>1, <2>3, BusyIs, TimeclockConstants DEF TkInv
  <2>5. (l + 1) + (b - 1) <= m + n
    BY ONLY <2>4
  <2> QED BY <1>2, <1>4, <2>2, <2>3, <2>5
<1>7. \A q \in Kiosk : Underway(req[q])'
  BY <1>2, <1>4 DEF TkInv, Underway
<1>8. Apart'
  <2>1. \A p, q \in log' : p.at = q.at => p = q
    BY <1>2, <1>5 DEF TkInv, Apart
  <2>2. \A q \in Kiosk : req'[q].pc = "stamped" => \A p \in log' : p.at # req'[q].at
    BY <1>2, <1>3, <1>4 DEF TkInv, Apart
  <2>3. \A q, j \in Kiosk :
          req'[q].pc = "stamped" /\ req'[j].pc = "stamped" /\ req'[q].at = req'[j].at => q = j
    BY <1>4 DEF TkInv, Apart
  <2> QED BY <2>1, <2>2, <2>3 DEF Apart
<1>9. ASSUME ~atOnce PROVE OneByOne'
  <2>1. OneByOne
    BY <1>9 DEF TkInv
  <2>2. \A q \in Kiosk : req'[q] = Idle /\ req'[q].pc # "stamped"
    BY <1>3, <1>4, <2>1, IdleIs DEF OneByOne
  <2>3. \A p \in log : p.at < e.at
    BY <1>2, <1>3, <2>1 DEF OneByOne
  <2>4. Fits(e.type)
    BY <1>3, <2>1 DEF OneByOne
  <2>5. ASSUME NEW n \in log'
        PROVE  n.type = "clock_in" \/ \E p \in log' : RightAfter(log', p, n) /\ n.type \in _ALLOWED_NEXT(_STATE_AFTER[p.type])
    <3>1. CASE n = e /\ n.type # "clock_in"
      <4>1. PICK p \in log : (\A q \in log : q.at <= p.at) /\ n.type \in _ALLOWED_NEXT(_STATE_AFTER[p.type])
        BY <2>4, <3>1 DEF Fits
      <4>2. e.at <= e.at
        BY <1>3 DEF Punched
      <4>3. RightAfter(log', p, n)
        BY <1>2, <2>3, <3>1, <4>1, <4>2 DEF RightAfter
      <4> QED BY <1>2, <4>1, <4>3
    <3>2. CASE n \in log /\ n.type # "clock_in"
      <4>1. PICK p \in log : RightAfter(log, p, n) /\ n.type \in _ALLOWED_NEXT(_STATE_AFTER[p.type])
        BY <2>1, <3>2 DEF OneByOne
      <4>2. n.at <= e.at
        <5>1. n.at \in Int /\ e.at \in Int /\ n.at < e.at
          BY <1>3, <2>3, <3>2 DEF TkInv, Punched
        <5> QED BY <5>1
      <4>3. RightAfter(log', p, n)
        BY <1>2, <4>1, <4>2 DEF RightAfter
      <4> QED BY <1>2, <4>1, <4>3
    <3> QED BY <1>2, <3>1, <3>2
  <2> QED BY <2>2, <2>5 DEF OneByOne
<1>10. log' \subseteq Punched /\ \A p \in log' : p.at < now'
  BY <1>2, <1>3 DEF TkInv
<1> QED BY <1>2, <1>4, <1>6, <1>7, <1>8, <1>9, <1>10 DEF TkInv

LEMMA FailStep ==
  ASSUME TkInv, NEW k \in Kiosk, Fail(k)
  PROVE  TkInv'
<1>1. req[k] # Idle /\ req' = [req EXCEPT ![k] = Idle] /\ now' = now /\ log' = log /\ atOnce' = atOnce
  BY DEF Fail
<1>2. /\ DOMAIN req' = Kiosk /\ (\A q \in Kiosk : req'[q] = IF q = k THEN Idle ELSE req[q])
      /\ Cardinality(Busy') = Cardinality(Busy) - 1
      /\ \A q \in Kiosk : req'[q] # Idle \/ req'[q].pc = "stamped" => q # k /\ req'[q] = req[q]
  BY <1>1, FreedKiosk
<1>3. Cardinality(log') + Cardinality(Busy') <= MaxPunches + Cardinality(Kiosk)
  <2>1. PICK b, n, l, m : b = Cardinality(Busy) /\ n = Cardinality(Kiosk) /\ l = Cardinality(log) /\ m = MaxPunches
    OBVIOUS
  <2>2. b \in Nat /\ n \in Nat /\ l \in Nat /\ m \in Nat /\ l + b <= m + n
    BY <2>1, BusyIs, TimeclockConstants, FS_CardinalityType DEF TkInv
  <2>3. l + (b - 1) <= m + n
    BY ONLY <2>2
  <2> QED BY <1>1, <1>2, <2>1, <2>3
<1>4. \A q \in Kiosk : Underway(req[q])'
  BY <1>1, <1>2 DEF TkInv, Underway
<1>5. Apart'
  BY <1>1, <1>2 DEF TkInv, Apart
<1>6. ASSUME ~atOnce PROVE OneByOne'
  <2>1. OneByOne
    BY <1>6 DEF TkInv
  <2>2. \A q \in Kiosk : req'[q] = Idle /\ req'[q].pc # "stamped"
    BY <1>1, <1>2, <2>1, IdleIs DEF OneByOne
  <2>3. \A n \in log :
          n.type = "clock_in" \/ \E p \in log : RightAfter(log, p, n) /\ n.type \in _ALLOWED_NEXT(_STATE_AFTER[p.type])
    BY <2>1 DEF OneByOne
  <2> QED BY <1>1, <2>2, <2>3 DEF OneByOne
<1> QED BY <1>1, <1>2, <1>3, <1>4, <1>5, <1>6 DEF TkInv

LEMMA TickStep == ASSUME TkInv, Tick PROVE TkInv'
<1>1. ~Stopped /\ now' = now + 1 /\ log' = log /\ req' = req /\ atOnce' = atOnce
  BY DEF Tick
<1>2. now \in Int /\ 0 <= now /\ now < MaxTime /\ MaxTime \in Nat
  BY <1>1, TimeclockConstants DEF Stopped, TkInv
<1>3. now' \in 0..MaxTime
  BY <1>1, <1>2
<1>4. \A p \in log : p.at < now'
  <2> TAKE p \in log
  <2>1. p.at < now /\ p.at \in Int
    BY DEF TkInv, Punched
  <2> QED BY <1>1, <1>2, <2>1
<1>5. \A q \in Kiosk : Underway(req[q])'
  <2> TAKE q \in Kiosk
  <2>1. Underway(req[q])
    BY DEF TkInv
  <2>2. ASSUME req[q] \in [pc : {"stamped"}, type : PunchType, at : 0..MaxTime], req[q].at < now
        PROVE  req[q].at < now'
    <3>1. PICK a : a = req[q].at /\ a \in Int /\ a < now
      BY <2>2, <1>2
    <3> QED BY <1>1, <1>2, <3>1
  <2> QED BY <1>1, <2>1, <2>2 DEF Underway
<1>6. Busy' = Busy
  BY <1>1 DEF Busy
<1>7. Cardinality(log') + Cardinality(Busy') <= MaxPunches + Cardinality(Kiosk)
  BY <1>1, <1>6 DEF TkInv
<1>8. Apart'
  BY <1>1 DEF TkInv, Apart
<1>9. ~atOnce => OneByOne'
  BY <1>1 DEF TkInv, OneByOne, Fits
<1> QED BY <1>1, <1>3, <1>4, <1>5, <1>7, <1>8, <1>9 DEF TkInv

LEMMA TkInvStep == ASSUME TkInv, [TkNext]_tkVars PROVE TkInv'
<1>1. CASE TkNext
  BY <1>1, CheckStep, StampStep, PunchCommitStep, FailStep, TickStep DEF TkNext
<1>2. CASE UNCHANGED tkVars
  BY <1>2 DEF tkVars, TkInv, Busy, Apart, OneByOne, Fits, Underway
<1> QED BY <1>1, <1>2

-----------------------------------------------------------------------------
(* A day whose punches came one by one *)

(* Events of one day in the order of the rule, from wherever it starts. *)
Orderly(E) ==
    /\ IsFiniteSet(E) /\ \A p \in E : p.at \in Int /\ p.type \in PunchType
    /\ \A p, q \in E : p.at = q.at => p = q
    /\ \A p, n \in E : RightAfter(E, p, n) /\ n.type # "clock_in" =>
          \/ n.type \in {"lunch_start", "clock_out"} /\ p.type \in {"clock_in", "lunch_end"}
          \/ n.type = "lunch_end" /\ p.type = "lunch_start"

(* The time of a day. *)
LEMMA DayBounds ==
  ASSUME NEW x \in Int
  PROVE  /\ business_date_for(x) \in Int
         /\ business_date_for(x) * DayLength <= x /\ x <= (business_date_for(x) + 1) * DayLength - 1
         /\ business_date_for(x) * DayLength \in Int /\ (business_date_for(x) + 1) * DayLength - 1 \in Int
<1>1. PICK t : t = DayLength /\ t \in Nat /\ t # 0
  BY TimeclockConstants
<1>2. PICK d, m : d = x \div t /\ m = x % t
  OBVIOUS
<1>3. d \in Int /\ m \in Int /\ 0 <= m /\ m < t
  BY <1>1, <1>2
<1>4. x = t * d + m
  BY ONLY <1>1, <1>2, x \in Int, Z3T(20)
<1>5. PICK a, b : a = d * t /\ b = (d + 1) * t
  OBVIOUS
<1>6. a \in Int /\ b \in Int /\ b = a + t /\ t * d = a
  BY ONLY <1>1, <1>3, <1>5, Z3T(20)
<1>7. business_date_for(x) = d
  BY <1>1, <1>2 DEF business_date_for
<1> QED BY <1>1, <1>3, <1>4, <1>5, <1>6, <1>7

(* Later is not of an earlier day. *)
LEMMA DaysFollow ==
  ASSUME NEW x \in Int, NEW y \in Int, x <= y
  PROVE  business_date_for(x) <= business_date_for(y)
<1>1. PICK t : t = DayLength /\ t \in Nat /\ t # 0
  BY TimeclockConstants
<1>2. PICK d, e : d = business_date_for(x) /\ e = business_date_for(y)
  OBVIOUS
<1>3. d \in Int /\ e \in Int /\ d * t <= x /\ y <= (e + 1) * t - 1
  BY <1>1, <1>2, DayBounds
<1>4. PICK k : k = d - (e + 1) /\ k \in Int
  BY <1>3
<1>5. PICK a, b : a = d * t /\ b = (e + 1) * t /\ a \in Int /\ b \in Int
  BY <1>1, <1>3
<1>6. a - b = k * t
  BY ONLY <1>1, <1>3, <1>4, <1>5, Z3T(20)
<1>7. k < 0
  <2>1. k >= 0 => k * t >= 0
    BY ONLY <1>1, <1>4, Z3T(20)
  <2>2. a - b < 0
    BY <1>3, <1>5
  <2>3. k * t < 0
    BY <1>6, <2>2
  <2>4. ~(k >= 0)
    <3>1. PICK c : c = k * t /\ c \in Int
      BY <1>1, <1>4
    <3>2. (k >= 0 => c >= 0) /\ c < 0
      BY ONLY <2>1, <2>3, <3>1
    <3> QED BY ONLY <3>1, <3>2
  <2> QED BY <1>4, <2>4
<1>8. d \in Int /\ e \in Int
  BY <1>3
<1>9. d <= e
  BY ONLY <1>4, <1>7, <1>8
<1> QED BY ONLY <1>2, <1>9

LEMMA DayIsOrderly ==
  ASSUME TkInv, ~atOnce, NEW day
  PROVE  Orderly(timecard_events(day))
<1>1. PICK E : E = timecard_events(day)
  OBVIOUS
<1>2. E \in SUBSET log /\ \A p \in log : p \in E <=> business_date_for(p.at) = day
  BY <1>1 DEF timecard_events
<1>3. IsFiniteSet(E)
  BY <1>2, FS_Subset DEF TkInv
<1>4. \A p \in log : p.at \in Int /\ p.type \in PunchType
  BY DEF TkInv, Punched
<1>5. \A p, q \in log : p.at = q.at => p = q
  BY DEF TkInv, Apart
<1>6. ASSUME NEW p \in E, NEW n \in E, RightAfter(E, p, n), n.type # "clock_in"
      PROVE  n.type \in _ALLOWED_NEXT(_STATE_AFTER[p.type])
  <2>1. PICK r \in log : RightAfter(log, r, n) /\ n.type \in _ALLOWED_NEXT(_STATE_AFTER[r.type])
    BY <1>2, <1>6 DEF TkInv, OneByOne
  <2>2. /\ p.at \in Int /\ n.at \in Int /\ r.at \in Int /\ p.at < n.at /\ r.at < n.at /\ p.at <= r.at
    BY <1>2, <1>4, <1>6, <2>1 DEF RightAfter
  <2>3. business_date_for(r.at) = day
    <3>1. PICK a, b, c : a = business_date_for(p.at) /\ b = business_date_for(r.at) /\ c = business_date_for(n.at)
      OBVIOUS
    <3>2. business_date_for(p.at) <= business_date_for(r.at)
      BY ONLY <2>2, TimeclockConstants, DaysFollow
    <3>4. business_date_for(r.at) <= business_date_for(n.at)
      BY ONLY <2>2, TimeclockConstants, DaysFollow
    <3>5. a \in Int /\ b \in Int /\ c \in Int
      BY <2>2, <3>1, DayBounds
    <3>3. a = day /\ c = day
      BY <1>2, <1>6, <3>1
    <3> QED BY <3>1, <3>2, <3>3, <3>4, <3>5
  <2>4. r.at <= p.at
    BY <1>2, <1>6, <2>1, <2>2, <2>3 DEF RightAfter
  <2>5. r = p
    BY <1>2, <1>5, <2>2, <2>4
  <2> QED BY <2>1, <2>5
<1>7. ASSUME NEW p \in E, NEW n \in E, RightAfter(E, p, n), n.type # "clock_in"
      PROVE  \/ n.type \in {"lunch_start", "clock_out"} /\ p.type \in {"clock_in", "lunch_end"}
             \/ n.type = "lunch_end" /\ p.type = "lunch_start"
  <2>1. p.type \in PunchType /\ n.type \in PunchType
    BY <1>2, <1>4
  <2> QED BY <1>6, <1>7, <2>1, PunchSteps
<1>8. Orderly(E)
  BY <1>2, <1>3, <1>4, <1>5, <1>7 DEF Orderly
<1> QED BY <1>1, <1>8

(* The event right before one that is not the first, and right after one    *)
(* that is not the last.                                                    *)
LEMMA Neighbours ==
  ASSUME NEW E, Orderly(E), NEW x \in E
  PROVE  /\ \A y \in E : y.at < x.at => \E p \in E : RightAfter(E, p, x) /\ y.at <= p.at
         /\ \A y \in E : x.at < y.at => \E n \in E : RightAfter(E, x, n) /\ n.at <= y.at
<1>1. IsFiniteSet(E) /\ \A p \in E : p.at \in Int
  BY DEF Orderly
<1>2. ASSUME NEW y \in E, y.at < x.at
      PROVE  \E p \in E : RightAfter(E, p, x) /\ y.at <= p.at
  <2>1. PICK S : S = {q \in E : q.at < x.at}
    OBVIOUS
  <2>2. S \in SUBSET E /\ y \in S /\ \A q \in S : q.at \in Int
    BY <1>1, <1>2, <2>1
  <2>3. IsFiniteSet(S) /\ S # {}
    BY <1>1, <2>2, FS_Subset
  <2>4. PICK p \in S : \A q \in S : q.at <= p.at
    BY <2>2, <2>3, FirstAndLastPunch
  <2>5. RightAfter(E, p, x)
    BY <1>1, <2>1, <2>2, <2>4 DEF RightAfter
  <2> QED BY <2>2, <2>4, <2>5
<1>3. ASSUME NEW y \in E, x.at < y.at
      PROVE  \E n \in E : RightAfter(E, x, n) /\ n.at <= y.at
  <2>1. PICK S : S = {q \in E : x.at < q.at}
    OBVIOUS
  <2>2. S \in SUBSET E /\ y \in S /\ \A q \in S : q.at \in Int
    BY <1>1, <1>3, <2>1
  <2>3. IsFiniteSet(S) /\ S # {}
    BY <1>1, <2>2, FS_Subset
  <2>4. PICK n \in S : \A q \in S : n.at <= q.at
    BY <2>2, <2>3, FirstAndLastPunch
  <2>5. RightAfter(E, x, n)
    BY <1>1, <2>1, <2>2, <2>4 DEF RightAfter
  <2> QED BY <2>2, <2>4, <2>5
<1> QED BY <1>2, <1>3

(* Nothing but a clock_in comes after a clock_out. *)
LEMMA AfterOut ==
  ASSUME NEW E, Orderly(E), NEW q \in E, q.type = "clock_out", NEW x \in E, q.at < x.at
  PROVE  \E c \in E : c.type = "clock_in" /\ q.at < c.at /\ c.at <= x.at
<1>1. PICK n \in E : RightAfter(E, q, n) /\ n.at <= x.at
  BY Neighbours
<1>2. n.type = "clock_in"
  BY <1>1 DEF Orderly
<1> QED BY <1>1, <1>2 DEF RightAfter

(* Of the events up to a time, and after it, there is a nearest. *)
LEMMA Nearest ==
  ASSUME NEW E, Orderly(E), NEW P, NEW t \in Int
  PROVE  /\ \A y \in E : y.type \in P /\ y.at <= t =>
              \E i \in E : i.type \in P /\ i.at <= t /\ \A q \in E : q.type \in P => q.at <= i.at \/ t < q.at
         /\ \A y \in E : y.type \in P /\ t < y.at =>
              \E o \in E : o.type \in P /\ t < o.at /\ \A q \in E : q.type \in P => q.at <= t \/ o.at <= q.at
<1>1. IsFiniteSet(E) /\ \A p \in E : p.at \in Int
  BY DEF Orderly
<1>2. ASSUME NEW y \in E, y.type \in P, y.at <= t
      PROVE  \E i \in E : i.type \in P /\ i.at <= t /\ \A q \in E : q.type \in P => q.at <= i.at \/ t < q.at
  <2>1. PICK S : S = {q \in E : q.type \in P /\ q.at <= t}
    OBVIOUS
  <2>2. S \in SUBSET E /\ y \in S /\ \A q \in S : q.at \in Int
    BY <1>1, <1>2, <2>1
  <2>3. IsFiniteSet(S) /\ S # {}
    BY <1>1, <2>2, FS_Subset
  <2>4. PICK i \in S : \A q \in S : q.at <= i.at
    BY <2>2, <2>3, FirstAndLastPunch
  <2> QED BY <1>1, <2>1, <2>4
<1>3. ASSUME NEW y \in E, y.type \in P, t < y.at
      PROVE  \E o \in E : o.type \in P /\ t < o.at /\ \A q \in E : q.type \in P => q.at <= t \/ o.at <= q.at
  <2>1. PICK S : S = {q \in E : q.type \in P /\ t < q.at}
    OBVIOUS
  <2>2. S \in SUBSET E /\ y \in S /\ \A q \in S : q.at \in Int
    BY <1>1, <1>3, <2>1
  <2>3. IsFiniteSet(S) /\ S # {}
    BY <1>1, <2>2, FS_Subset
  <2>4. PICK o \in S : \A q \in S : o.at <= q.at
    BY <2>2, <2>3, FirstAndLastPunch
  <2> QED BY <1>1, <2>1, <2>4
<1> QED BY <1>2, <1>3

-----------------------------------------------------------------------------
(* Spans and the instants they cover *)

Instants(x) == x[1].at..(x[2].at - 1)
Cover(spans) == UNION {Instants(x) : x \in spans}

LEMMA ClosedIs ==
  ASSUME NEW E, Orderly(E), NEW a, NEW b
  PROVE  /\ \A x \in Closed(E, a, b) :
              /\ x[1] \in E /\ x[2] \in E /\ x = <<x[1], x[2]>>
              /\ x[1].type = a /\ x[2].type = b /\ x[1].at \in Int /\ x[2].at \in Int
              /\ x[1].at < x[2].at
              /\ \A e \in E : e.type = a \/ e.type = b => e.at <= x[1].at \/ x[2].at <= e.at
         /\ \A p, n \in E :
              /\ p.type = a /\ n.type = b /\ p.at < n.at
              /\ \A e \in E : e.type = a \/ e.type = b => e.at <= p.at \/ n.at <= e.at
              => <<p, n>> \in Closed(E, a, b)
<1>1. \A p \in E : p.at \in Int
  BY DEF Orderly
<1>2. ASSUME NEW x \in Closed(E, a, b)
      PROVE  /\ x[1] \in E /\ x[2] \in E /\ x = <<x[1], x[2]>>
             /\ x[1].type = a /\ x[2].type = b /\ x[1].at \in Int /\ x[2].at \in Int
             /\ x[1].at < x[2].at
             /\ \A e \in E : e.type = a \/ e.type = b => e.at <= x[1].at \/ x[2].at <= e.at
  BY <1>1, <1>2 DEF Closed
<1>3. ASSUME NEW p \in E, NEW n \in E, p.type = a, n.type = b, p.at < n.at,
             \A e \in E : e.type = a \/ e.type = b => e.at <= p.at \/ n.at <= e.at
      PROVE  <<p, n>> \in Closed(E, a, b)
  BY <1>3 DEF Closed
<1> QED BY <1>2, <1>3

(* Two spans share no instant. *)
LEMMA SpansApart ==
  ASSUME NEW E, Orderly(E), NEW a, NEW b, NEW x \in Closed(E, a, b), NEW y \in Closed(E, a, b),
         NEW t \in Int, x[1].at <= t, t < x[2].at, y[1].at <= t, t < y[2].at
  PROVE  x = y
<1>1. PICK p, n, q, m : p = x[1] /\ n = x[2] /\ q = y[1] /\ m = y[2]
  OBVIOUS
<1>2. /\ p \in E /\ n \in E /\ q \in E /\ m \in E /\ x = <<p, n>> /\ y = <<q, m>>
      /\ p.type = a /\ n.type = b /\ q.type = a /\ m.type = b
      /\ p.at \in Int /\ n.at \in Int /\ q.at \in Int /\ m.at \in Int
      /\ p.at <= t /\ t < n.at /\ q.at <= t /\ t < m.at
  BY <1>1, ClosedIs
<1>3. /\ \A e \in E : e.type = a \/ e.type = b => e.at <= p.at \/ n.at <= e.at
      /\ \A e \in E : e.type = a \/ e.type = b => e.at <= q.at \/ m.at <= e.at
  BY <1>1, ClosedIs
<1>4. p.at = q.at /\ n.at = m.at
  BY <1>2, <1>3
<1>5. p = q /\ n = m
  BY <1>2, <1>4 DEF Orderly
<1> QED BY <1>2, <1>5

LEMMA InCover ==
  ASSUME NEW E, Orderly(E), NEW a, NEW b, NEW t
  PROVE  t \in Cover(Closed(E, a, b)) <=>
           t \in Int /\ \E x \in Closed(E, a, b) : x[1].at <= t /\ t < x[2].at
<1>1. \A x \in Closed(E, a, b) : x[1].at \in Int /\ x[2].at \in Int
  BY ClosedIs
<1>2. \A x \in Closed(E, a, b) : t \in Instants(x) <=> t \in Int /\ x[1].at <= t /\ t < x[2].at
  BY <1>1 DEF Instants
<1> QED BY <1>2 DEF Cover

(* Minutes are instants covered. *)
LEMMA MinutesCount ==
  ASSUME NEW E, Orderly(E), NEW a, NEW b
  PROVE  /\ IsFiniteSet(Cover(Closed(E, a, b)))
         /\ Minutes(Closed(E, a, b)) = Cardinality(Cover(Closed(E, a, b)))
<1>1. PICK C, V : C = Closed(E, a, b) /\ V = Cover(C)
  OBVIOUS
<1>2. IsFiniteSet(C)
  <2>1. IsFiniteSet(E \X E)
    BY FS_Product DEF Orderly
  <2>2. C \in SUBSET (E \X E)
    BY <1>1 DEF Closed
  <2> QED BY <2>1, <2>2, FS_Subset
<1>3. \A x \in C : x[1].at \in Int /\ x[2].at \in Int /\ x[1].at < x[2].at
  BY <1>1, ClosedIs
<1>4. \A x \in C : IsFiniteSet(Instants(x)) /\ Cardinality(Instants(x)) = x[2].at - x[1].at
  <2> TAKE x \in C
  <2>1. PICK lo, hi : lo = x[1].at /\ hi = x[2].at - 1
    OBVIOUS
  <2>2. lo \in Int /\ hi \in Int /\ lo <= hi /\ hi - lo + 1 = x[2].at - x[1].at /\ Instants(x) = lo..hi
    BY <1>3, <2>1 DEF Instants
  <2>3. IsFiniteSet(lo..hi) /\ Cardinality(lo..hi) = hi - lo + 1
    BY ONLY <2>2, FS_Interval
  <2> QED BY <2>2, <2>3
<1>5. IsFiniteSet(V)
  <2> DEFINE f == [x \in C |-> Instants(x)]
             T == {f[x] : x \in DOMAIN f}
  <2>1. DOMAIN f = C /\ UNION T = V /\ \A s \in T : \E x \in C : s = Instants(x)
    BY <1>1 DEF Cover
  <2>2. IsFiniteSet(DOMAIN f) /\ \A s \in T : IsFiniteSet(s)
    BY <1>2, <1>4, <2>1
  <2> HIDE DEF f
  <2>3. IsFiniteSet(T)
    BY <2>2, ImageFinite
  <2> HIDE DEF T
  <2> QED BY <2>1, <2>2, <2>3, FS_UNION
<1>6. \A t \in V : \E x \in C : t \in Instants(x)
  BY <1>1 DEF Cover
<1>7. \A x \in C : Instants(x) \in SUBSET V
  BY <1>1 DEF Cover
<1>8. \A t, x, y : x \in C /\ y \in C /\ t \in Instants(x) /\ t \in Instants(y) => x = y
  <2> SUFFICES ASSUME NEW t, NEW x, NEW y, x \in C, y \in C, t \in Instants(x), t \in Instants(y)
               PROVE  x = y
    OBVIOUS
  <2>1. t \in Int /\ x[1].at <= t /\ t < x[2].at /\ y[1].at <= t /\ t < y[2].at
    BY <1>3 DEF Instants
  <2> QED BY <1>1, <2>1, SpansApart
<1>9. PICK one : one = [t \in V |-> 1]
  OBVIOUS
<1>10. PICK key : key = [t \in V |-> CHOOSE x \in C : t \in Instants(x)]
  OBVIOUS
<1>11. PICK g : g = [x \in C |-> x[2].at - x[1].at]
  OBVIOUS
<1>12. DOMAIN one = V /\ (\A t \in V : one[t] = 1) /\ \A t \in V : key[t] \in C /\ t \in Instants(key[t])
  BY <1>6, <1>9, <1>10
<1>13. \A x \in C : {t \in DOMAIN one : key[t] = x} = Instants(x)
  BY <1>7, <1>8, <1>12
<1>14. ASSUME NEW x \in C
       PROVE  g[x] = Total([t \in {y \in DOMAIN one : key[y] = x} |-> one[t]])
  <2>1. PICK D : D = {y \in DOMAIN one : key[y] = x}
    OBVIOUS
  <2>2. D = Instants(x) /\ IsFiniteSet(D) /\ D \in SUBSET D /\ \A t \in D : one[t] = 1
    BY <1>4, <1>7, <1>12, <1>13, <2>1
  <2>3. PICK h : h = [t \in D |-> one[t]]
    OBVIOUS
  <2>4. DOMAIN h = D /\ \A t \in D : h[t] = IF t \in D THEN 1 ELSE 0
    BY <2>2, <2>3
  <2>5. Total(h) = Cardinality(D)
    BY ONLY <2>2, <2>4, TotalCount
  <2> QED BY <1>4, <1>11, <2>1, <2>2, <2>3, <2>5
<1>15. Total(one) = Cardinality(V)
  <2>1. V \in SUBSET V /\ \A t \in V : one[t] = IF t \in V THEN 1 ELSE 0
    BY <1>12
  <2> QED BY ONLY <1>5, <1>12, <2>1, TotalCount
<1>16. Total(g) = Total(one)
  <2>1. /\ IsFiniteSet(DOMAIN one) /\ \A t \in DOMAIN one : one[t] \in Int
        /\ \A t \in DOMAIN one : key[t] \in C
    BY <1>5, <1>12
  <2>2. DOMAIN g = C
    BY <1>11
  <2> QED BY ONLY <1>2, <1>14, <2>1, <2>2, TotalGrouped
<1>17. Minutes(C) = Total(g)
  <2>1. Minutes(C) = Total([x \in C |-> x[2].at - x[1].at])
    BY Zenon DEF Minutes, Total
  <2> QED BY ONLY <1>11, <2>1, Zenon
<1> QED BY <1>1, <1>5, <1>15, <1>16, <1>17

-----------------------------------------------------------------------------
(* Lunches are in shifts, and time on the clock is shifts without lunches *)

(* A closed lunch has no punch in it. *)
LEMMA LunchIsDirect ==
  ASSUME NEW E, Orderly(E), NEW x \in Closed(E, "lunch_start", "lunch_end")
  PROVE  RightAfter(E, x[1], x[2])
<1>1. PICK s, n : s = x[1] /\ n = x[2]
  OBVIOUS
<1>2. /\ s \in E /\ n \in E /\ s.type = "lunch_start" /\ n.type = "lunch_end" /\ s.at < n.at
      /\ \A e \in E : e.type = "lunch_start" \/ e.type = "lunch_end" => e.at <= s.at \/ n.at <= e.at
  BY <1>1, ClosedIs
<1>3. PICK p \in E : RightAfter(E, p, n) /\ s.at <= p.at
  BY <1>2, Neighbours
<1>4. p.type = "lunch_start"
  BY <1>2, <1>3 DEF Orderly
<1>5. p.at \in Int /\ s.at \in Int /\ n.at \in Int /\ p.at < n.at
  BY <1>2, <1>3 DEF Orderly, RightAfter
<1>6. p = s
  BY <1>2, <1>3, <1>4, <1>5 DEF Orderly
<1> QED BY <1>1, <1>3, <1>6

(* Between two punches on the clock. *)
Attended(E, p, n) == RightAfter(E, p, n) /\ p.type \in {"clock_in", "lunch_end"} /\ n.type # "clock_in"

LEMMA ClockIs ==
  ASSUME NEW day, NEW E, E = timecard_events(day), Orderly(E), NEW t
  PROVE  t \in OnTheClock(day) <=>
           t \in Int /\ \E p, n \in E : Attended(E, p, n) /\ p.at <= t /\ t < n.at
<1>1. \A p \in E : p.at \in Int /\ p.type \in PunchType
  BY DEF Orderly
<1>2. \A p \in E : business_date_for(p.at) = day
  BY DEF timecard_events
<1>3. PICK lo, hi : lo = day * DayLength /\ hi = (day + 1) * DayLength - 1
  OBVIOUS
<1>4. \A p \in E : lo \in Int /\ hi \in Int /\ lo <= p.at /\ p.at <= hi
  BY <1>1, <1>2, <1>3, DayBounds
<1>5. PICK before, after : before = {p \in E : p.at <= t} /\ after = {p \in E : p.at > t}
  OBVIOUS
<1>6. t \in OnTheClock(day) <=>
        /\ t \in lo..hi /\ before # {} /\ _STATE_AFTER[Latest(before).type] = "in"
        /\ \E q \in after : q.type # "clock_in" /\ \A r \in after : q.at <= r.at
  BY <1>3, <1>5 DEF OnTheClock
<1>7. before # {} => Latest(before) \in before /\ \A q \in before : q.at <= Latest(before).at
  <2>1. before \in SUBSET E /\ IsFiniteSet(E)
    BY <1>5 DEF Orderly
  <2>2. IsFiniteSet(before) /\ \A p \in before : p.at \in Int
    BY <1>1, <2>1, FS_Subset
  <2> QED BY <2>2, LatestIs
<1>8. ASSUME t \in OnTheClock(day)
      PROVE  t \in Int /\ \E p, n \in E : Attended(E, p, n) /\ p.at <= t /\ t < n.at
  <2>1. before # {} /\ _STATE_AFTER[Latest(before).type] = "in"
    BY <1>6, <1>8
  <2>2. PICK p : p = Latest(before)
    OBVIOUS
  <2>3. p \in E /\ p.at <= t /\ (\A q \in E : q.at <= t => q.at <= p.at) /\ _STATE_AFTER[p.type] = "in"
    BY <1>5, <1>7, <2>1, <2>2
  <2>4. PICK n \in after : n.type # "clock_in" /\ \A r \in after : n.at <= r.at
    BY <1>6, <1>8
  <2>5. lo \in Int /\ hi \in Int
    BY <1>4, <2>3
  <2>6. t \in Int
    BY <1>6, <1>8, <2>5
  <2>7. n \in E /\ t < n.at /\ \A q \in E : t < q.at => n.at <= q.at
    BY <1>1, <1>5, <2>4, <2>6
  <2>8. RightAfter(E, p, n)
    BY <1>1, <2>3, <2>6, <2>7 DEF RightAfter
  <2>9. p.type \in {"clock_in", "lunch_end"}
    BY <1>1, <2>3, PunchSteps
  <2> QED BY <2>3, <2>4, <2>6, <2>7, <2>8, <2>9 DEF Attended
<1>9. ASSUME t \in Int, NEW p \in E, NEW n \in E, Attended(E, p, n), p.at <= t, t < n.at
      PROVE  t \in OnTheClock(day)
  <2>1. \A q \in E : q.at <= p.at \/ n.at <= q.at
    BY <1>9 DEF Attended, RightAfter
  <2>2. t \in lo..hi
    BY <1>1, <1>4, <1>9
  <2>3. p \in before /\ n \in after
    BY <1>1, <1>5, <1>9
  <2>4. PICK l : l = Latest(before)
    OBVIOUS
  <2>5. l \in E /\ l.at <= t /\ p.at <= l.at
    BY <1>5, <1>7, <2>3, <2>4
  <2>6. l = p
    <3>1. l.at <= p.at
      BY <1>1, <1>9, <2>1, <2>5
    <3> QED BY <1>1, <2>5, <3>1 DEF Orderly
  <2>7. _STATE_AFTER[p.type] = "in" /\ n.type # "clock_in"
    BY <1>1, <1>9, PunchSteps DEF Attended
  <2>8. \A r \in after : n.at <= r.at
    BY <1>1, <1>5, <1>9, <2>1
  <2> QED BY <1>6, <2>2, <2>3, <2>4, <2>6, <2>7, <2>8
<1> QED BY <1>8, <1>9

(* What a shift covers and no lunch does was worked. *)
LEMMA ShiftIsWorked ==
  ASSUME NEW E, Orderly(E), NEW t, t \in Cover(Closed(E, "clock_in", "clock_out")),
         t \notin Cover(Closed(E, "lunch_start", "lunch_end"))
  PROVE  t \in Int /\ \E p, n \in E : Attended(E, p, n) /\ p.at <= t /\ t < n.at
<1>1. t \in Int
  BY InCover
<1>2. PICK x \in Closed(E, "clock_in", "clock_out") : x[1].at <= t /\ t < x[2].at
  BY InCover
<1>3. PICK i, o : i = x[1] /\ o = x[2]
  OBVIOUS
<1>4. /\ i \in E /\ o \in E /\ i.at \in Int /\ o.at \in Int /\ i.at <= t /\ t < o.at
      /\ i.type = "clock_in" /\ o.type = "clock_out"
      /\ \A e \in E : e.type = "clock_in" \/ e.type = "clock_out" => e.at <= i.at \/ o.at <= e.at
  BY <1>2, <1>3, ClosedIs
<1>5. \A p \in E : p.at \in Int /\ p.type \in PunchType
  BY DEF Orderly
<1>6. PICK p \in E : p.at <= t /\ \A q \in E : q.type \in PunchType => q.at <= p.at \/ t < q.at
  BY <1>1, <1>4, <1>5, Nearest
<1>7. PICK n \in E : t < n.at /\ \A q \in E : q.type \in PunchType => q.at <= t \/ n.at <= q.at
  BY <1>1, <1>4, <1>5, Nearest
<1>8. \A q \in E : q.at <= p.at \/ n.at <= q.at
  BY <1>1, <1>5, <1>6, <1>7
<1>9. RightAfter(E, p, n)
  BY <1>1, <1>5, <1>6, <1>7, <1>8 DEF RightAfter
<1>10. n.type # "clock_in"
  <2> SUFFICES ASSUME n.type = "clock_in" PROVE FALSE
    OBVIOUS
  <2>1. n.at = o.at
    BY <1>1, <1>4, <1>5, <1>7
  <2>2. n = o
    BY <1>4, <2>1 DEF Orderly
  <2> QED BY <1>4, <2>2
<1>11. CASE p.type \in {"clock_in", "lunch_end"}
  BY <1>1, <1>6, <1>7, <1>9, <1>10, <1>11 DEF Attended
<1>12. CASE p.type \notin {"clock_in", "lunch_end"}
  <2>1. p.type = "lunch_start" /\ n.type = "lunch_end"
    BY <1>9, <1>10, <1>12 DEF Orderly
  <2>2. PICK y : y = <<p, n>>
    OBVIOUS
  <2>3. p.at < n.at
    BY <1>9 DEF RightAfter
  <2>4. y \in Closed(E, "lunch_start", "lunch_end")
    BY <1>8, <2>1, <2>2, <2>3, ClosedIs
  <2>5. y[1].at <= t /\ t < y[2].at
    BY <1>6, <1>7, <2>2
  <2> QED BY <1>1, <2>4, <2>5, InCover
<1> QED BY <1>11, <1>12

-----------------------------------------------------------------------------
(* A day without warnings *)

(* Every event has a counterpart. *)
Counterparts(E) ==
    \A e \in E : \E x \in Closed(E, "clock_in", "clock_out") \cup Closed(E, "lunch_start", "lunch_end") :
        e = x[1] \/ e = x[2]

(* After a punch that does not end a shift, an unwarned day is in one. *)
LEMMA InShift ==
  ASSUME NEW E, Orderly(E), Counterparts(E),
         NEW f \in E, f.type = "clock_in", \A q \in E : f.at <= q.at,
         NEW t \in Int, NEW p \in E, p.type # "clock_out", p.at <= t,
         \A q \in E : q.at <= p.at \/ t < q.at
  PROVE  t \in Cover(Closed(E, "clock_in", "clock_out"))
<1>1. \A q \in E : q.at \in Int
  BY DEF Orderly
<1>2. f.at <= t /\ f.type \in {"clock_in", "clock_out"}
  BY <1>1
<1>3. PICK i \in E : /\ i.type \in {"clock_in", "clock_out"} /\ i.at <= t
                     /\ \A q \in E : q.type \in {"clock_in", "clock_out"} => q.at <= i.at \/ t < q.at
  BY <1>2, Nearest
<1>4. i.type = "clock_in"
  <2> SUFFICES ASSUME i.type = "clock_out" PROVE FALSE
    BY <1>3
  <2>1. i.at < p.at
    <3>1. i.at <= p.at
      BY <1>1, <1>3
    <3>2. i.at # p.at
      BY DEF Orderly
    <3> QED BY <1>1, <3>1, <3>2
  <2>2. PICK c \in E : c.type = "clock_in" /\ i.at < c.at /\ c.at <= p.at
    BY <2>1, AfterOut
  <2> QED BY <1>1, <1>3, <2>2
<1>5. PICK x \in Closed(E, "clock_in", "clock_out") \cup Closed(E, "lunch_start", "lunch_end") :
        i = x[1] \/ i = x[2]
  BY DEF Counterparts
<1>6. x \in Closed(E, "clock_in", "clock_out")
  BY <1>4, <1>5, ClosedIs
<1>7. /\ x[2] \in E /\ x[1].type = "clock_in" /\ x[2].type = "clock_out" /\ x[1].at < x[2].at
  BY <1>6, ClosedIs
<1>8. i = x[1]
  BY <1>4, <1>5, <1>7
<1>9. t < x[2].at
  <2>1. PICK o : o = x[2]
    OBVIOUS
  <2>2. o \in E /\ o.type \in {"clock_in", "clock_out"} /\ i.at < o.at
    BY <1>7, <1>8, <2>1
  <2> QED BY <1>1, <1>3, <2>1, <2>2
<1>10. x[1].at <= t
  BY <1>3, <1>8
<1> QED BY <1>6, <1>9, <1>10, InCover

(* A lunch has no time on the clock in it. *)
LEMMA NotAtLunch ==
  ASSUME NEW E, Orderly(E), NEW p \in E, NEW n \in E, Attended(E, p, n),
         NEW t \in Int, p.at <= t, t < n.at
  PROVE  t \notin Cover(Closed(E, "lunch_start", "lunch_end"))
<1> SUFFICES ASSUME t \in Cover(Closed(E, "lunch_start", "lunch_end")) PROVE FALSE
  OBVIOUS
<1>1. PICK y \in Closed(E, "lunch_start", "lunch_end") : y[1].at <= t /\ t < y[2].at
  BY InCover
<1>2. PICK s, m : s = y[1] /\ m = y[2]
  OBVIOUS
<1>3. RightAfter(E, s, m) /\ s \in E /\ m \in E /\ s.type = "lunch_start" /\ s.at <= t /\ t < m.at
  BY <1>1, <1>2, LunchIsDirect, ClosedIs
<1>4. p.at \in Int /\ n.at \in Int /\ s.at \in Int /\ m.at \in Int
  BY <1>3 DEF Orderly
<1>5. (p.at <= s.at \/ m.at <= p.at) /\ (s.at <= p.at \/ n.at <= s.at)
  BY <1>3 DEF RightAfter, Attended
<1>6. p.at = s.at
  BY <1>3, <1>4, <1>5
<1>7. p = s
  BY <1>3, <1>6 DEF Orderly
<1> QED BY <1>3, <1>7 DEF Attended

(* The hours of one day. *)
LEMMA DayIsTrue ==
  ASSUME NEW day, NEW E, E = timecard_events(day), Orderly(E)
  PROVE  /\ compute_day(E).worked <= Cardinality(OnTheClock(day))
         /\ StartsFresh(day) /\ compute_day(E).warned = {} =>
              /\ compute_day(E).worked = Cardinality(OnTheClock(day))
              /\ \A l \in E : (\A q \in E : q.at <= l.at) => l.type = "clock_out"
<1>1. PICK S, L : S = Closed(E, "clock_in", "clock_out") /\ L = Closed(E, "lunch_start", "lunch_end")
  OBVIOUS
<1>2. PICK SI, LI, CL : SI = Cover(S) /\ LI = Cover(L) /\ CL = OnTheClock(day)
  OBVIOUS
<1>3. /\ IsFiniteSet(SI) /\ Minutes(S) = Cardinality(SI)
      /\ IsFiniteSet(LI) /\ Minutes(L) = Cardinality(LI)
  BY <1>1, <1>2, MinutesCount
<1>4. PICK si, li, w : si = Cardinality(SI) /\ li = Cardinality(LI) /\ w = compute_day(E).worked
  OBVIOUS
<1>5. si \in Nat /\ li \in Nat
  BY <1>3, <1>4, FS_CardinalityType
<1>6. w = (IF si - li > 0 THEN si - li ELSE 0)
  BY <1>1, <1>3, <1>4 DEF compute_day
<1>7. \A t : t \in CL <=> t \in Int /\ \E p, n \in E : Attended(E, p, n) /\ p.at <= t /\ t < n.at
  BY <1>2, ClockIs
<1>8. \A t : t \in SI /\ t \notin LI => t \in CL
  BY <1>1, <1>2, <1>7, ShiftIsWorked
<1>9. \A t \in CL : t \notin LI
  BY <1>1, <1>2, <1>7, NotAtLunch
<1>10. IsFiniteSet(CL)
  <2>1. PICK lo, hi : lo = day * DayLength /\ hi = (day + 1) * DayLength - 1
    OBVIOUS
  <2>2. CL \in SUBSET (lo..hi)
    BY <1>2, <2>1 DEF OnTheClock
  <2>3. CASE E = {}
    <3>1. CL = {}
      BY <1>7, <2>3
    <3> QED BY <3>1, FS_EmptySet
  <2>4. CASE E # {}
    <3>1. PICK p \in E : p.at \in Int /\ business_date_for(p.at) = day
      BY <2>4 DEF Orderly, timecard_events
    <3>2. lo \in Int /\ hi \in Int
      BY <2>1, <3>1, DayBounds
    <3>3. IsFiniteSet(lo..hi)
      BY ONLY <3>2, FS_Interval
    <3> QED BY <2>2, <3>3, FS_Subset
  <2> QED BY <2>3, <2>4
<1>11. PICK D, d, c, both : /\ D = SI \ LI /\ d = Cardinality(D) /\ c = Cardinality(CL)
                           /\ both = Cardinality(SI \cap LI)
  OBVIOUS
<1>12. d = si - both /\ d \in Nat /\ c \in Nat /\ both \in Nat /\ both <= li
  <2>1. IsFiniteSet(D) /\ d = si - both
    BY <1>3, <1>4, <1>11, FS_Difference
  <2>2. both <= li /\ IsFiniteSet(SI \cap LI)
    BY <1>3, <1>4, <1>11, FS_Intersection
  <2> QED BY <1>10, <1>11, <2>1, <2>2, FS_CardinalityType
<1>13. d <= c
  <2>1. D \in SUBSET CL
    BY <1>8, <1>11
  <2> QED BY <1>10, <1>11, <2>1, FS_Subset
<1>14. w <= c
  BY <1>5, <1>6, <1>12, <1>13
<1>15. ASSUME StartsFresh(day), compute_day(E).warned = {}
       PROVE  w = c /\ \A l \in E : (\A q \in E : q.at <= l.at) => l.type = "clock_out"
  <2>1. Counterparts(E)
    BY <1>1, <1>15 DEF compute_day, Counterparts
  <2>2. PICK f \in E : f.type = "clock_in" /\ \A q \in E : f.at <= q.at
    BY <1>15 DEF StartsFresh
  <2>3. \A q \in E : q.at \in Int
    BY DEF Orderly
  <2>4. \A t \in CL : t \in SI
    <3> SUFFICES ASSUME NEW t \in CL PROVE t \in SI
      OBVIOUS
    <3>1. t \in Int
      BY <1>7
    <3>2. PICK p \in E, n \in E : Attended(E, p, n) /\ p.at <= t /\ t < n.at
      BY <1>7
    <3>3. p.type # "clock_out"
      BY <3>2 DEF Attended
    <3>4. \A q \in E : q.at <= p.at \/ t < q.at
      BY <2>3, <3>1, <3>2 DEF Attended, RightAfter
    <3> QED BY <1>1, <1>2, <2>1, <2>2, <3>1, <3>2, <3>3, <3>4, InShift
  <2>5. \A t \in LI : t \in SI
    <3> SUFFICES ASSUME NEW t \in LI PROVE t \in SI
      OBVIOUS
    <3>1. t \in Int
      BY <1>1, <1>2, InCover
    <3>2. PICK y \in L : y[1].at <= t /\ t < y[2].at
      BY <1>1, <1>2, InCover
    <3>3. PICK s, m : s = y[1] /\ m = y[2]
      OBVIOUS
    <3>4. RightAfter(E, s, m) /\ s \in E /\ m \in E /\ s.type = "lunch_start" /\ s.at <= t /\ t < m.at
      BY <1>1, <3>2, <3>3, LunchIsDirect, ClosedIs
    <3>5. \A q \in E : q.at <= s.at \/ t < q.at
      BY <2>3, <3>1, <3>4 DEF RightAfter
    <3>6. s.type # "clock_out"
      BY <3>4
    <3> QED BY <1>1, <1>2, <2>1, <2>2, <3>1, <3>4, <3>5, <3>6, InShift
  <2>6. w = c
    <3>1. D = CL /\ SI \cap LI = LI
      BY <1>8, <1>9, <1>11, <2>4, <2>5
    <3>2. d = c /\ both = li
      BY <1>4, <1>11, <3>1
    <3> QED BY <1>5, <1>6, <1>12, <3>2
  <2>7. ASSUME NEW l \in E, \A q \in E : q.at <= l.at
        PROVE  l.type = "clock_out"
    <3> SUFFICES ASSUME l.type # "clock_out" PROVE FALSE
      OBVIOUS
    <3>1. PICK t : t = l.at /\ t \in Int /\ l.at <= t
      BY <2>3
    <3>2. \A q \in E : q.at <= l.at \/ t < q.at
      BY <2>7
    <3>3. t \in SI
      BY <1>1, <1>2, <2>1, <2>2, <3>1, <3>2, InShift
    <3>4. PICK x \in S : x[1].at <= t /\ t < x[2].at
      BY <1>1, <1>2, <3>3, InCover
    <3>5. x[2] \in E
      BY <1>1, <3>4, ClosedIs
    <3>6. PICK o : o = x[2]
      OBVIOUS
    <3>7. o \in E /\ t < o.at /\ o.at <= l.at /\ o.at \in Int
      BY <2>3, <2>7, <3>4, <3>5, <3>6
    <3> QED BY <3>1, <3>7
  <2> QED BY <2>6, <2>7
<1> QED BY <1>2, <1>4, <1>11, <1>14, <1>15

(* The roster and the endpoint ask one question. *)
LEMMA OneAnswer == ASSUME TkInv PROVE RosterAgrees
<1>1. PICK R : R = {p \in log : p.at >= now - OpenMax}
  OBVIOUS
<1>2. punch_states = IF R = {} THEN "out" ELSE _STATE_AFTER[Latest(R).type]
  BY <1>1 DEF punch_states
<1>3. now \in Int /\ OpenMax \in Int
  BY TimeclockConstants DEF TkInv
<1>4. IsFiniteSet(log) /\ \A p \in log : p.at \in Int
  BY DEF TkInv, Punched
<1>5. CASE log = {}
  BY <1>1, <1>2, <1>5 DEF punch_state, RosterAgrees
<1>6. CASE log # {}
  <2>1. PICK l : l = Latest(log)
    OBVIOUS
  <2>2. l \in log /\ \A q \in log : q.at <= l.at
    BY <1>4, <1>6, <2>1, LatestIs
  <2>3. CASE now - l.at > OpenMax
    <3>1. R = {}
      BY <1>1, <1>3, <1>4, <2>2, <2>3
    <3> QED BY <1>2, <1>6, <2>1, <2>3, <3>1 DEF punch_state, RosterAgrees
  <2>4. CASE ~(now - l.at > OpenMax)
    <3>1. l \in R
      BY <1>1, <1>3, <1>4, <2>2, <2>4
    <3>2. R \in SUBSET log /\ R # {}
      BY <1>1, <3>1
    <3>3. IsFiniteSet(R) /\ \A p \in R : p.at \in Int
      BY <1>4, <3>2, FS_Subset
    <3>4. PICK r : r = Latest(R)
      OBVIOUS
    <3>5. r \in R /\ l.at <= r.at
      BY <3>1, <3>2, <3>3, <3>4, LatestIs
    <3>6. r.at = l.at
      BY <1>4, <2>2, <3>2, <3>5
    <3>7. r = l
      BY <2>2, <3>2, <3>5, <3>6 DEF TkInv, Apart
    <3> QED BY <1>2, <1>6, <2>1, <2>4, <3>2, <3>4, <3>7 DEF punch_state, RosterAgrees
  <2> QED BY <2>3, <2>4
<1> QED BY <1>5, <1>6

LEMMA InvIsTrue == ASSUME TkInv PROVE DaysAreTrue
<1>1. TkTypeOK
  <2>1. Busy \in SUBSET Kiosk /\ IsFiniteSet(Kiosk) /\ IsFiniteSet(log)
    BY TimeclockConstants DEF Busy, TkInv
  <2>2. Cardinality(Busy) \in Nat /\ Cardinality(Kiosk) \in Nat /\ Cardinality(log) \in Nat
    BY <2>1, FS_Subset, FS_CardinalityType
  <2>3. MaxPunches \in Nat
    BY TimeclockConstants
  <2>4. Cardinality(log) <= MaxPunches + Cardinality(Kiosk)
    BY <2>2, <2>3 DEF TkInv
  <2> QED BY <2>4 DEF TkTypeOK, TkInv, Punched
<1>2. ASSUME ~atOnce, NEW day
      PROVE  LET ps == timecard_events(day)
                 r == compute_day(ps)
             IN  /\ r.worked <= Cardinality(OnTheClock(day))
                 /\ StartsFresh(day) /\ r.warned = {} => r.worked = Cardinality(OnTheClock(day))
                 /\ StartsFresh(day) /\ _STATE_AFTER[Latest(ps).type] # "out" => r.warned # {}
  <2>1. PICK E : E = timecard_events(day)
    OBVIOUS
  <2>2. Orderly(E)
    BY <1>2, <2>1, DayIsOrderly
  <2>3. /\ compute_day(E).worked <= Cardinality(OnTheClock(day))
        /\ StartsFresh(day) /\ compute_day(E).warned = {} =>
             /\ compute_day(E).worked = Cardinality(OnTheClock(day))
             /\ \A l \in E : (\A q \in E : q.at <= l.at) => l.type = "clock_out"
    BY <2>1, <2>2, DayIsTrue
  <2>4. ASSUME StartsFresh(day), compute_day(E).warned = {}
        PROVE  _STATE_AFTER[Latest(E).type] = "out"
    <3>1. E # {} /\ IsFiniteSet(E) /\ \A p \in E : p.at \in Int /\ p.type \in PunchType
      BY <2>1, <2>2, <2>4 DEF StartsFresh, Orderly
    <3>2. Latest(E) \in E /\ \A q \in E : q.at <= Latest(E).at
      BY <3>1, LatestIs
    <3>3. Latest(E).type = "clock_out"
      BY <2>3, <2>4, <3>2
    <3> QED BY <3>3 DEF _STATE_AFTER
  <2> QED BY <2>1, <2>3, <2>4
<1>3. ~atOnce => CleanDayIsExact
  BY <1>2 DEF CleanDayIsExact
<1>4. ~atOnce => NeverOverpaid
  BY <1>2 DEF NeverOverpaid
<1> QED BY <1>1, <1>3, <1>4, OneAnswer DEF DaysAreTrue

(* Where one punch follows the other, every day is paid as it was worked, or  *)
(* warned about; whatever overlaps, the roster offers what the endpoint takes *)
(* (kiosk.py punch; timecards.py punch_state, punch_states, compute_day).     *)
THEOREM DaysArePaidTrue == TkSpec => []DaysAreTrue
<1>1. TkInit => TkInv
  BY TkInitInv
<1>2. TkInv /\ [TkNext]_tkVars => TkInv'
  BY TkInvStep
<1>3. TkInv => DaysAreTrue
  BY InvIsTrue
<1> QED BY <1>1, <1>2, <1>3, PTL DEF TkSpec
=============================================================================
