----------------------------- MODULE Timecards -----------------------------
(***************************************************************************)
(* One employee's timecard for one pay period: kiosk punches landing on    *)
(* it, manager adjustments, approval and promotion, reopening, and the     *)
(* photo purge (usali/kiosk.py, timecards.py, timecard_api.py, labor.py).  *)
(*                                                                         *)
(* Every request is one READ COMMITTED transaction.  A request's reads and *)
(* its commit are separate steps, so two sessions interleave at every      *)
(* point where the code has read something it has not locked.  Approval    *)
(* and reopening flush the UPDATE of the card's row before they touch the  *)
(* facts and hold its lock to the commit; the backfill of the command line *)
(* never writes that row.  The photo store is in no transaction.  The      *)
(* order rule and the hours are in Timeclock; the accruals that approval   *)
(* posts are in GlPosting.                                                 *)
(***************************************************************************)
EXTENDS Handlers

CONSTANTS Session,   \* concurrent requests
          Punch,     \* punches that may arrive, each with its photo
          Adj        \* adjustments a manager may add

VARIABLES card,       \* the timecard row
          rows,       \* punches on record
          linked,     \* of these, the ones with this timecard_id
          unverified, \* match_state of the punch is "unverified"
          pointer,    \* photo_key is not NULL
          images,     \* what the photo store holds
          adj,        \* adjustments on the card
          facts,      \* events (punches and adjustments) the labor facts price
          accrued,    \* events the card's sick-leave accrual was computed from
          stray,      \* the facts are of a backfill that crossed a reopen or an approval
          oldPunch,   \* punches older than the retention window
          ended,      \* the controlling property's business date is past the period
          payable,    \* the employee's pay_type is not exclude_from_payroll
          overlap,    \* whether requests to this card ever overlap; fixed at the start
          sess        \* requests in flight

tcVars == <<card, rows, linked, unverified, pointer, images, adj, facts, accrued,
          stray, oldPunch, ended, payable, overlap, sess>>
photos == <<pointer, images, oldPunch>>
ledger == <<facts, accrued, stray>>
world == <<ended, payable, overlap>>

Event == Punch \cup Adj
NoCard == [status |-> "none", old |-> FALSE, stamped |-> FALSE, acked |-> {}, paid |-> FALSE]

TcInit ==
    /\ card = NoCard
    /\ rows = {} /\ linked = {} /\ unverified = {} /\ pointer = {} /\ images = {}
    /\ adj = {} /\ facts = {} /\ accrued = {} /\ stray = FALSE /\ oldPunch = {}
    /\ ended = FALSE /\ payable = TRUE /\ overlap \in BOOLEAN
    /\ sess = [s \in Session |-> Idle]

Pc(s, pc) == sess[s].pc = pc
Goto(s, new) == sess' = [sess EXCEPT ![s] = new]

(* A request may begin. *)
Free(s) == Pc(s, "idle") /\ (overlap \/ \A q \in Session : Pc(q, "idle"))

(* Sessions that have flipped the card's status and not committed it. *)
Flipping == \E s \in Session : sess[s].pc \in {"promoted", "demoting", "demoted"}

(* The row lock of the card: held by a session that has flushed an UPDATE. *)
Locked == Flipping \/ \E s \in Session : Pc(s, "stamping")

(* Facts inserted and not committed: the unique key makes others wait. *)
Filing == \E s \in Session : sess[s].pc \in {"promoted", "filed"} /\ sess[s].paid

(* The facts are deleted and the deletion is not committed. *)
Demoting == facts # {} /\ \E s \in Session : sess[s].pc \in {"demoting", "demoted"} /\ sess[s].deletes

(* A purge between its first query and its commit. *)
Purging(s) == sess[s].pc \in {"purging", "deleting", "stamping", "clearing"}

(* The commit of s changes what a purge may have read. *)
DoneAcrossPurges(s) ==
    sess' = [q \in Session |-> IF q = s THEN Idle
                              ELSE IF Purging(q) THEN [sess[q] EXCEPT !.crossed = TRUE]
                              ELSE sess[q]]

-----------------------------------------------------------------------------
(* A punch *)

(* punch: scope, debounce and order have passed; the photo is stored before *)
(* anything is in the database, and matching never refuses the punch.       *)
punch(s, p, unv) ==
    /\ Free(s)
    /\ p \notin rows \cup images
    /\ images' = images \cup {p}
    /\ Goto(s, [pc |-> "punched", p |-> p, unverified |-> unv])
    /\ UNCHANGED <<card, rows, linked, unverified, pointer, adj, ledger, oldPunch, world>>

(* Faulty: an approved card is linked to like an open one. *)
assemble_timecard_Any(own) == [creates |-> card.status = "none", links |-> rows \cup own]

(* assemble_timecard: an approved card is left alone; otherwise every punch *)
(* of the period is linked, to a new card if there is none.                 *)
assemble_timecard(own) ==
    [creates |-> card.status = "none",
     links   |-> IF card.status = "approved" THEN {} ELSE rows \cup own]

PunchAssemble(s) ==
    /\ Pc(s, "punched")
    /\ LET a == assemble_timecard({sess[s].p})
       IN  Goto(s, [pc |-> "linking", p |-> sess[s].p, unverified |-> sess[s].unverified,
                    creates |-> a.creates, links |-> a.links])
    /\ UNCHANGED <<card, rows, linked, unverified, photos, adj, ledger, world>>

(* The commit.  A second INSERT of the card breaks the unique key and the   *)
(* whole punch is rolled back, its photo left in the store.                 *)
PunchCommit(s) ==
    /\ Pc(s, "linking")
    /\ IF sess[s].creates /\ card.status # "none"
       THEN Goto(s, Idle) /\ UNCHANGED <<card, rows, linked, unverified, pointer>>
       ELSE /\ card' = IF sess[s].creates THEN [card EXCEPT !.status = "open"] ELSE card
            /\ rows' = rows \cup {sess[s].p}
            /\ linked' = linked \cup sess[s].links
            /\ unverified' = IF sess[s].unverified THEN unverified \cup {sess[s].p} ELSE unverified
            /\ pointer' = pointer \cup {sess[s].p}
            /\ IF sess[s].links \subseteq linked THEN Goto(s, Idle) ELSE DoneAcrossPurges(s)
    /\ UNCHANGED <<images, oldPunch, adj, ledger, world>>

-----------------------------------------------------------------------------
(* The manager *)

(* approve_timecard refuses stray and missing acknowledgments alike. *)
Acknowledges(ack) == ack = linked \cap unverified

(* approve_timecard up to the gates. *)
approve_timecard(s, ack) ==
    /\ Free(s)
    /\ card.status = "open"
    /\ ended
    /\ Acknowledges(ack)
    /\ Goto(s, [pc |-> "approving", ack |-> ack])
    /\ UNCHANGED <<card, rows, linked, unverified, photos, adj, ledger, world>>

(* What a promotion prices: the card's events, for an employee who is paid. *)
Priced == IF payable THEN linked \cup adj ELSE {}

(* promote_timecard: the prior facts are replaced and the sick-leave accrual *)
(* rewritten; an excluded employee gets neither, and is refused when some    *)
(* facts are filed.                                                          *)
Promotable == IF payable THEN ~Filing ELSE facts = {}

(* The status is flushed, then the card is promoted. *)
promote_timecard(s) ==
    /\ Pc(s, "approving")
    /\ ~Locked
    /\ Promotable
    /\ Goto(s, [pc |-> "promoted", ack |-> sess[s].ack, paid |-> payable, events |-> Priced])
    /\ UNCHANGED <<card, rows, linked, unverified, photos, adj, ledger, world>>

ApproveCommit(s) ==
    /\ Pc(s, "promoted")
    /\ card' = [card EXCEPT !.status = "approved", !.old = FALSE,
                            !.acked = sess[s].ack, !.paid = sess[s].paid]
    /\ IF sess[s].paid
       THEN facts' = sess[s].events /\ accrued' = sess[s].events /\ stray' = FALSE
       ELSE UNCHANGED ledger
    /\ DoneAcrossPurges(s)
    /\ UNCHANGED <<rows, linked, unverified, photos, adj, world>>

reopen_timecard(s) ==
    /\ Free(s)
    /\ card.status = "approved"
    /\ Goto(s, [pc |-> "reopening"])
    /\ UNCHANGED <<card, rows, linked, unverified, photos, adj, ledger, world>>

(* demote_timecard deletes this card's estimated facts, as its DELETE sees   *)
(* them: facts that replace them meanwhile stay.                             *)
demote_timecard(s) == [pc |-> "demoting", deletes |-> TRUE]

(* The flip is flushed, then the facts go. *)
ReopenFlush(s) ==
    /\ Pc(s, "reopening")
    /\ ~Locked
    /\ Goto(s, demote_timecard(s))
    /\ UNCHANGED <<card, rows, linked, unverified, photos, adj, ledger, world>>

(* The relink reads the period, once a backfill holding the facts is through. *)
ReopenRelinks(s) ==
    /\ Pc(s, "demoting")
    /\ facts # {} /\ sess[s].deletes => ~Filing
    /\ Goto(s, [pc |-> "demoted", deletes |-> sess[s].deletes, links |-> rows])
    /\ UNCHANGED <<card, rows, linked, unverified, photos, adj, ledger, world>>

(* Faulty: photos_purged_at survives the reopen. *)
Reopened_KeepsStamp(c) == [NoCard EXCEPT !.status = "open", !.stamped = c.stamped]

Reopened(c) == [NoCard EXCEPT !.status = "open"]

ReopenCommit(s) ==
    /\ Pc(s, "demoted")
    /\ card' = Reopened(card)
    /\ IF sess[s].deletes THEN facts' = {} /\ stray' = FALSE ELSE UNCHANGED <<facts, stray>>
    /\ linked' = linked \cup sess[s].links
    /\ DoneAcrossPurges(s)
    /\ UNCHANGED <<rows, unverified, photos, adj, accrued, world>>

(* promote_labor_cmd promotes every card it has read as approved again.  The *)
(* card in memory is what promote_timecard looks at, and no column of its    *)
(* row changes: nothing makes it wait for a reopen.                          *)
promote_labor_cmd(s) ==
    /\ Free(s)
    /\ card.status = "approved"
    /\ Goto(s, [pc |-> "backfilling"])
    /\ UNCHANGED <<card, rows, linked, unverified, photos, adj, ledger, world>>

BackfillFiles(s) ==
    /\ Pc(s, "backfilling")
    /\ Promotable
    /\ ~Demoting
    /\ Goto(s, [pc |-> "filed", paid |-> payable, events |-> Priced])
    /\ UNCHANGED <<card, rows, linked, unverified, photos, adj, ledger, world>>

(* The facts a demotion in flight has seen are gone, these are not. *)
BackfillCommit(s) ==
    /\ Pc(s, "filed")
    /\ IF sess[s].paid
       THEN /\ facts' = sess[s].events /\ accrued' = sess[s].events
            /\ stray' = (card.status # "approved" \/ Flipping)
            /\ card' = [card EXCEPT !.paid = TRUE]
       ELSE UNCHANGED <<card, ledger>>
    /\ sess' = [q \in Session |->
                   IF q = s THEN Idle
                   ELSE IF sess[s].paid /\ sess[q].pc \in {"demoting", "demoted"}
                   THEN [sess[q] EXCEPT !.deletes = FALSE]
                   ELSE sess[q]]
    /\ UNCHANGED <<rows, linked, unverified, photos, adj, world>>

(* add_adjustment: the lock is a status check in front of the INSERT. *)
add_adjustment(s, a) ==
    /\ Free(s)
    /\ card.status = "open"
    /\ a \notin adj
    /\ Goto(s, [pc |-> "adjusting", a |-> a])
    /\ UNCHANGED <<card, rows, linked, unverified, photos, adj, ledger, world>>

AdjustCommit(s) ==
    /\ Pc(s, "adjusting")
    /\ adj' = adj \cup {sess[s].a}
    /\ Goto(s, Idle)
    /\ UNCHANGED <<card, rows, linked, unverified, photos, ledger, world>>

-----------------------------------------------------------------------------
(* purge_approved_photos *)

(* Faulty: the retention clock is not looked at. *)
Purgeable_AnyAge == card.status = "approved" /\ ~card.stamped

Purgeable == card.status = "approved" /\ card.old /\ ~card.stamped

(* The orphans' clock is the punch's own. *)
Orphans == ((rows \ linked) \cap pointer) \cap oldPunch

(* The query for the cards.  The command always opens the local store, so   *)
(* this is a deployment that uses it.                                       *)
purge_approved_photos(s) ==
    /\ Free(s)
    /\ Goto(s, [pc |-> "purging", card |-> Purgeable, crossed |-> FALSE])
    /\ UNCHANGED <<card, rows, linked, unverified, photos, adj, ledger, world>>

(* The query for a selected card's punches, whatever the card is by now. *)
PurgePunches(s) ==
    /\ Pc(s, "purging")
    /\ Goto(s, [pc |-> "deleting", todo |-> IF sess[s].card THEN linked \cap pointer ELSE {},
                gone |-> {}, stamp |-> sess[s].card, crossed |-> sess[s].crossed])
    /\ UNCHANGED <<card, rows, linked, unverified, photos, adj, ledger, world>>

(* _delete_photos: one image goes, or its key raises and keeps its pointer, *)
(* which leaves the card unstamped.                                         *)
_delete_photos(s, p, fails) ==
    /\ sess[s].pc \in {"deleting", "stamping", "clearing"}
    /\ p \in sess[s].todo
    /\ images' = IF fails THEN images ELSE images \ {p}
    /\ Goto(s, [sess[s] EXCEPT !.todo = @ \ {p},
                              !.gone = IF fails THEN @ ELSE @ \cup {p},
                              !.stamp = @ /\ ~(fails /\ sess[s].pc = "deleting")])
    /\ UNCHANGED <<card, rows, linked, unverified, pointer, oldPunch, adj, ledger, world>>

(* The query for the orphans flushes the stamp and with it locks the card. *)
PurgeOrphans(s) ==
    /\ Pc(s, "deleting") /\ sess[s].todo = {}
    /\ sess[s].stamp => ~Locked
    /\ Goto(s, [sess[s] EXCEPT !.pc = IF sess[s].stamp THEN "stamping" ELSE "clearing",
                              !.todo = Orphans])
    /\ UNCHANGED <<card, rows, linked, unverified, photos, adj, ledger, world>>

PurgeCommit(s) ==
    /\ sess[s].pc \in {"stamping", "clearing"} /\ sess[s].todo = {}
    /\ pointer' = pointer \ sess[s].gone
    /\ card' = [card EXCEPT !.stamped = @ \/ sess[s].stamp]
    /\ Goto(s, Idle)
    /\ UNCHANGED <<rows, linked, unverified, images, oldPunch, adj, ledger, world>>

-----------------------------------------------------------------------------
(* A request dies or raises: its transaction is rolled back. *)
Abort(s) ==
    /\ sess[s] # Idle
    /\ Goto(s, Idle)
    /\ UNCHANGED <<card, rows, linked, unverified, photos, adj, ledger, world>>

PeriodEnds ==
    /\ ended' = TRUE
    /\ UNCHANGED <<card, rows, linked, unverified, photos, adj, ledger, payable, overlap, sess>>

(* The retention window passes for everything approved or punched so far. *)
WindowPasses ==
    /\ card' = [card EXCEPT !.old = card.status = "approved"]
    /\ oldPunch' = rows
    /\ UNCHANGED <<rows, linked, unverified, pointer, images, adj, ledger, world, sess>>

SetPayType ==
    /\ payable' = ~payable
    /\ UNCHANGED <<card, rows, linked, unverified, photos, adj, ledger, ended, overlap, sess>>

TcNext ==
    \/ PeriodEnds \/ WindowPasses \/ SetPayType
    \/ \E s \in Session :
        \/ \E p \in Punch, unv \in BOOLEAN : punch(s, p, unv)
        \/ PunchAssemble(s) \/ PunchCommit(s)
        \/ \E ack \in SUBSET Punch : approve_timecard(s, ack)
        \/ promote_timecard(s) \/ ApproveCommit(s)
        \/ reopen_timecard(s) \/ ReopenFlush(s) \/ ReopenRelinks(s) \/ ReopenCommit(s)
        \/ promote_labor_cmd(s) \/ BackfillFiles(s) \/ BackfillCommit(s)
        \/ \E a \in Adj : add_adjustment(s, a)
        \/ AdjustCommit(s)
        \/ purge_approved_photos(s) \/ PurgePunches(s)
        \/ \E p \in Punch, fails \in BOOLEAN : _delete_photos(s, p, fails)
        \/ PurgeOrphans(s) \/ PurgeCommit(s)
        \/ Abort(s)

TcSpec == TcInit /\ [][TcNext]_tcVars

-----------------------------------------------------------------------------
(* Properties *)

TcTypeOK ==
    /\ card \in [status : {"none", "open", "approved"}, old : BOOLEAN, stamped : BOOLEAN,
                 acked : SUBSET Punch, paid : BOOLEAN]
    /\ rows \subseteq Punch /\ linked \subseteq rows /\ unverified \subseteq rows
    /\ pointer \subseteq rows /\ images \subseteq Punch /\ oldPunch \subseteq rows
    /\ adj \subseteq Adj /\ facts \subseteq Event /\ accrued \subseteq Event
    /\ stray \in BOOLEAN /\ ended \in BOOLEAN /\ payable \in BOOLEAN /\ overlap \in BOOLEAN
    /\ DOMAIN sess = Session

(* Labor cost is on the books only while the card is approved, and a promoted *)
(* card is priced, whatever approvals and reopens cross: the flip and the     *)
(* facts change under one row lock (approve_timecard, reopen_timecard).  The  *)
(* backfill takes no such lock: facts it files across a flip are excepted,    *)
(* and the next promotion or reopen removes them (promote_labor_cmd).         *)
FactsFollowApproval ==
    /\ card.status # "approved" => facts = {} \/ stray
    /\ facts # {} => card.paid \/ stray

(* What is paid is what was reviewed: an approved, payable card is priced     *)
(* from exactly the punches and adjustments on it, its sick-leave accrual     *)
(* counts the same ones, and each unverified one was acknowledged in that     *)
(* approval (approve_timecard, gate F6), as long as requests do not overlap:  *)
(* the approval lock is a status read.                                        *)
PaidIsReviewed ==
    card.status = "approved" /\ ~overlap =>
        /\ card.paid => facts = linked \cup adj /\ accrued = facts
        /\ card.acked = linked \cap unverified

(* photos_purged_at is never false: a stamped card is approved and none of    *)
(* its punches still has a photo, so no image hides behind the stamp          *)
(* (purge_approved_photos, and the reopen that clears it), as long as the     *)
(* purge does not overlap a reopen.                                           *)
StampIsTrue ==
    card.stamped /\ ~overlap => card.status = "approved" /\ linked \cap pointer = {}

(* A cleared pointer means the image is gone: "its photos are deleted and the *)
(* pointers cleared" (purge_approved_photos, image first, then pointer).      *)
PurgedIsGone == (rows \ pointer) \cap images = {}

(* The card, its facts and its photos agree, whatever overlaps. *)
CardAgrees == TcTypeOK /\ FactsFollowApproval /\ StampIsTrue /\ PurgedIsGone

(* A photo may go: its card was approved long enough ago, or it is of an old *)
(* punch on no card.                                                         *)
PastReview(p) == IF p \in linked THEN card.status = "approved" /\ card.old ELSE p \in oldPunch

(* Evidence is destroyed only past the window (the two clocks of the purge).  *)
(* Each image goes some steps after the queries that chose it, past failed    *)
(* deletions, requests that died and any other request, and is still past     *)
(* review then, unless a flip or a linking committed across this very purge   *)
(* (purge_approved_photos locks neither cards nor punches).                   *)
EvidenceIsKept ==
    [][\A p \in images \ images' :
          PastReview(p) \/ \E s \in Session : Purging(s) /\ sess[s].crossed /\ sess'[s] # sess[s]]_tcVars
=============================================================================
