------------------------------- MODULE Intake -------------------------------
(***************************************************************************)
(* Night audits by mail (usali/intake_api.py, intake.py,                   *)
(* intake_address_api.py, night_audit_validation.py and the Cloudflare     *)
(* worker).  A property has at most one live address; a message sent to    *)
(* one is POSTed by the worker, and the app judges and ingests its         *)
(* attachments one commit at a time and records the event LAST.  Whatever  *)
(* does not come back as a 2xx is forwarded to a mailbox people read, from *)
(* where it may be delivered again.                                        *)
(*                                                                         *)
(* Bytes are abstracted to what reading them yields; what a report's rows  *)
(* become is Ingestion's subject.                                          *)
(***************************************************************************)
EXTENDS Naturals, Sequences, FiniteSets, FiniteSetsExt, Handlers

CONSTANTS Delivery,        \* requests in flight at once
          Mail,            \* messages
          Hotel,           \* properties
          Letter,          \* what a message may be: [domain, auth, docs]
          Parent,          \* pairs <<d, e>>: e is a subdomain of d
          Policies,        \* allowlists an operator may set; {} is "any sender"
          Required,        \* report types of the properties' night audit
          MaxAddress,      \* bound: addresses minted
          MaxRedelivery,   \* bound: messages delivered again
          MaxAttachments   \* _MAX_ATTACHMENTS

(* Attachments and sections are numbered; a new address takes any sender. *)
ASSUME IntakeConstants ==
    /\ MaxAddress \in Nat /\ MaxAttachments \in Nat \ {0} /\ {} \in Policies
    /\ \A letter \in Letter :
         /\ Len(letter.docs) \in Nat /\ DOMAIN letter.docs = 1..Len(letter.docs)
         /\ \A i \in DOMAIN letter.docs : DOMAIN letter.docs[i].sections \subseteq Nat

VARIABLES address,   \* property_intake_address: one row per minted address
          mail,      \* the messages, NotSent before they are sent
          mailbox,   \* messages forwarded to the fallback mailbox
          post,      \* the requests
          batch,     \* ingest_batch, as [doc, status]
          landed,    \* history: reports ingested, with the address's property
          event      \* email_intake_event

inVars == <<address, mail, mailbox, post, batch, landed, event>>

AddressId == 1..MaxAddress
NoAddress == [property |-> "none"]
NotSent == [to |-> 0, again |-> 0]
Nobody == 0          \* an address no row answers to
Unopened == [domain |-> "none", auth |-> {}, docs |-> <<>>]   \* never looked into
NoReport == [property |-> "none"]

Rows == {a \in AddressId : address[a] # NoAddress}
Live(p) == {a \in Rows : address[a].property = p /\ ~address[a].revoked}
NewAddress(p) == [property |-> p, revoked |-> FALSE, senders |-> {}]

InInit ==
    /\ address = [a \in AddressId |-> NoAddress]
    /\ mail = [m \in Mail |-> NotSent]
    /\ mailbox = {}
    /\ post = [d \in Delivery |-> Idle]
    /\ batch = {}
    /\ landed = {}
    /\ event = [m \in Mail |-> {}]

-----------------------------------------------------------------------------
(* The property's address *)

(* The unique index over live rows decides, so the insert is one step. *)
create_intake_address(p) ==
    /\ Rows # AddressId
    /\ Live(p) = {}
    /\ address' = [address EXCEPT ![Cardinality(Rows) + 1] = NewAddress(p)]
    /\ UNCHANGED <<mail, mailbox, post, batch, landed, event>>

(* Rotate and the allowlist first read the live row. *)
_require_active(d, p, then) ==
    /\ post[d] = Idle
    /\ \E a \in Live(p) : post' = Goes(post, d, [pc |-> then, row |-> a])
    /\ UNCHANGED <<address, mail, mailbox, batch, landed, event>>

(* Revoke and mint in one transaction.  The row that was read may have     *)
(* been rotated since: the index then refuses the insert and the           *)
(* transaction is rolled back.                                             *)
rotate(d) ==
    /\ At(post, d, "rotate")
    /\ Rows # AddressId
    /\ LET old == post[d].row
           p == address[old].property
       IN  address' = IF Live(p) \ {old} # {} THEN address
                      ELSE [address EXCEPT ![old].revoked = TRUE,
                                           ![Cardinality(Rows) + 1] = NewAddress(p)]
    /\ post' = Goes(post, d, Idle)
    /\ UNCHANGED <<mail, mailbox, batch, landed, event>>

(* The row that was read is updated, revoked since or not. *)
set_sender_domains(d, senders) ==
    /\ At(post, d, "senders")
    /\ address' = [address EXCEPT ![post[d].row].senders = senders]
    /\ post' = Goes(post, d, Idle)
    /\ UNCHANGED <<mail, mailbox, batch, landed, event>>

-----------------------------------------------------------------------------
(* The worker *)

(* The PMS sends a message; the worker POSTs it. *)
Send(d, m, letter, to) ==
    /\ mail[m] = NotSent
    /\ post[d] = Idle
    /\ mail' = [mail EXCEPT ![m] = [letter |-> IF to = Nobody THEN Unopened ELSE letter,
                                    to |-> to, again |-> 0]]
    /\ post' = Goes(post, d, [pc |-> "arrived", m |-> m])
    /\ UNCHANGED <<address, mailbox, batch, landed, event>>

(* A person delivers a copy from the fallback mailbox again. *)
Redeliver(d, m) ==
    /\ m \in mailbox
    /\ MapThenSumSet(LAMBDA n : mail[n].again, Mail) < MaxRedelivery
    /\ post[d] = Idle
    /\ mail' = [mail EXCEPT ![m].again = @ + 1]
    /\ post' = Goes(post, d, [pc |-> "arrived", m |-> m])
    /\ UNCHANGED <<address, mailbox, batch, landed, event>>

(* Not a 2xx: refused at the door (401, 413, 429), or the process dies,    *)
(* raises or loses its connection at any later step.                       *)
Forward(d) ==
    /\ post[d] # Idle
    /\ "m" \in DOMAIN post[d]
    /\ mailbox' = mailbox \cup {post[d].m}
    /\ post' = Goes(post, d, Idle)
    /\ UNCHANGED <<address, mail, batch, landed, event>>

-----------------------------------------------------------------------------
(* What a message says *)

(* The signing domain is the sender's, or a parent of it. *)
_aligned(signing, sender) == signing = sender \/ <<signing, sender>> \in Parent

_authenticated_for(auth, sender) ==
    \E result \in auth :
        \/ result.method = "dkim" /\ _aligned(result.domain, sender)
        \/ result.method = "spf" /\ result.domain = sender

sender_allowed(letter, senders) ==
    /\ _authenticated_for(letter.auth, letter.domain)
    /\ senders = {} \/ letter.domain \in senders

(* A document: [readable, pdf, large, parses, whole, sections].  whole is  *)
(* what detect answers for it, sections what it answers for each section.  *)
Recognized(doc) == {i \in DOMAIN doc.sections : doc.sections[i] # NoReport}

_validate_detected(report, p) ==
    IF report.property # p THEN "wrong_property"
    ELSE IF report.type \notin Required THEN "not_a_night_audit_report" ELSE "passed"

(* The first failing section refuses the whole pack. *)
validate_sections(doc, p) ==
    LET verdict(i) == _validate_detected(doc.sections[i], p)
        failing == {i \in Recognized(doc) : verdict(i) # "passed"}
    IN  IF Recognized(doc) = {} THEN "not_a_night_audit_report"
        ELSE IF failing = {} THEN "passed" ELSE verdict(Min(failing))

validate_document(doc, p) ==
    IF ~doc.readable THEN "unreadable"
    ELSE IF doc.whole # NoReport THEN _validate_detected(doc.whole, p)
    ELSE IF ~doc.pdf THEN "not_a_night_audit_report" ELSE validate_sections(doc, p)

(* What the gate would land: a single report, or a pack's sections. *)
process_document_bytes(doc) ==
    IF ~doc.readable \/ ~doc.parses THEN {}
    ELSE IF doc.whole # NoReport THEN {doc.whole}
    ELSE IF doc.pdf THEN {doc.sections[i] : i \in Recognized(doc)} ELSE {}

_transformed_batch_ids(doc) == {b \in batch : b.doc = doc /\ b.status = "transformed"}

(* Faulty: the first refusal stands, whatever failed. *)
_aggregate_First(entries) ==
    IF \A i \in DOMAIN entries : entries[i] = "ingested" THEN "ingested"
    ELSE IF \E i \in DOMAIN entries : entries[i] = "ingested" THEN "partial"
    ELSE entries[1]

_aggregate(entries) ==
    IF \A i \in DOMAIN entries : entries[i] = "ingested" THEN "ingested"
    ELSE IF \E i \in DOMAIN entries : entries[i] = "ingested" THEN "partial"
    ELSE IF \E i \in DOMAIN entries : entries[i] = "failed" THEN "failed"
    ELSE entries[1]

-----------------------------------------------------------------------------
(* POST /email *)

Docs(d) == mail[post[d].m].letter.docs
PropertyOf(d) == address[mail[post[d].m].to].property

Held(docs) == {docs[i] : i \in {j \in DOMAIN docs : _transformed_batch_ids(docs[j]) # {}}}

(* One read of the address row decides about revocation and policy. *)
_resolve_address(d) ==
    /\ At(post, d, "arrived")
    /\ LET m == mail[post[d].m]
           row == address[m.to]
           finish(outcome) == [pc |-> "record", m |-> post[d].m, outcome |-> outcome]
       IN  post' = Goes(post, d,
                IF m.to = Nobody THEN Idle
                ELSE IF row.revoked THEN finish("revoked_address")
                ELSE IF ~sender_allowed(m.letter, row.senders) THEN finish("sender_rejected")
                ELSE IF m.letter.docs = <<>> THEN finish("no_attachment")
                ELSE [pc |-> "attachments", m |-> post[d].m, entries |-> <<>>,
                      held |-> Held(m.letter.docs)])
    /\ UNCHANGED <<address, mail, mailbox, batch, landed, event>>

Here(d) == Len(post[d].entries) + 1
Doc(d) == Docs(d)[Here(d)]
Entered(d, outcome) ==
    [post EXCEPT ![d].entries = Append(@, outcome), ![d].pc = "attachments"]

(* Size, duplicate and judgement: an attachment that is not ingested, or   *)
(* one that goes to the gate.                                              *)
Judge(d) ==
    /\ At(post, d, "attachments")
    /\ Here(d) <= Len(Docs(d)) /\ Here(d) <= MaxAttachments
    /\ LET verdict == validate_document(Doc(d), PropertyOf(d))
       IN  post' = IF Doc(d).large THEN Entered(d, "failed")
                   ELSE IF _transformed_batch_ids(Doc(d)) # {} THEN Entered(d, "duplicate")
                   ELSE IF verdict \notin {"passed", "unreadable"} THEN Entered(d, verdict)
                   ELSE GoesTo(post, d, "gate")
    /\ UNCHANGED <<address, mail, mailbox, batch, landed, event>>

(* The gate commits the document, or rolls it back and commits a failed    *)
(* batch; an artifact that cannot be filed fails a committed document.     *)
_ingest_attachment(d, filed) ==
    /\ At(post, d, "gate")
    /\ process_document_bytes(Doc(d)) # {}
    /\ batch' = batch \cup {[doc |-> Doc(d), status |-> "transformed"]}
    /\ landed' = landed \cup {[for |-> PropertyOf(d), report |-> report] :
                                 report \in process_document_bytes(Doc(d))}
    /\ post' = Entered(d, IF filed THEN "ingested" ELSE "failed")
    /\ UNCHANGED <<address, mail, mailbox, event>>

_record_failure(d) ==
    /\ At(post, d, "gate")
    /\ batch' = batch \cup {[doc |-> Doc(d), status |-> "failed"]}
    /\ post' = Entered(d, "failed")
    /\ UNCHANGED <<address, mail, mailbox, landed, event>>

(* Everything past the ceiling is one failed entry. *)
_attachment_entries(d) ==
    post[d].entries \o (IF Len(Docs(d)) > MaxAttachments THEN <<"failed">> ELSE <<>>)

Disposed(d) ==
    /\ At(post, d, "attachments")
    /\ Here(d) > Len(Docs(d)) \/ Here(d) > MaxAttachments

(* The event commits, after every attachment was disposed of; if the       *)
(* answer is lost the worker forwards as well.                             *)
_record(d, answered) ==
    /\ At(post, d, "record") \/ Disposed(d)
    /\ LET m == post[d].m
           row == IF At(post, d, "record")
                  THEN [outcome |-> post[d].outcome, entries |-> <<>>, held |-> {}]
                  ELSE [outcome |-> _aggregate(_attachment_entries(d)),
                        entries |-> _attachment_entries(d), held |-> post[d].held]
       IN  /\ event' = [event EXCEPT ![m] = @ \cup {row}]
           /\ mailbox' = IF answered THEN mailbox ELSE mailbox \cup {m}
    /\ post' = Goes(post, d, Idle)
    /\ UNCHANGED <<address, mail, batch, landed>>

InNext ==
    \/ \E p \in Hotel : create_intake_address(p)
    \/ \E d \in Delivery :
        \/ \E p \in Hotel, then \in {"rotate", "senders"} : _require_active(d, p, then)
        \/ rotate(d)
        \/ \E senders \in Policies : set_sender_domains(d, senders)
        \/ \E m \in Mail, letter \in Letter, to \in Rows \cup {Nobody} : Send(d, m, letter, to)
        \/ \E m \in Mail : Redeliver(d, m)
        \/ _resolve_address(d) \/ Judge(d)
        \/ \E filed \in BOOLEAN : _ingest_attachment(d, filed)
        \/ _record_failure(d)
        \/ \E answered \in BOOLEAN : _record(d, answered)
        \/ Forward(d)

InSpec == InInit /\ [][InNext]_inVars

-----------------------------------------------------------------------------
(* Properties *)

IntakeOutcomes == {"ingested", "partial", "duplicate", "no_attachment", "sender_rejected",
                   "wrong_property", "not_a_night_audit_report", "failed", "revoked_address"}

InTypeOK ==
    /\ \A a \in Rows : address[a].property \in Hotel /\ address[a].senders \in Policies
    /\ mailbox \subseteq {m \in Mail : mail[m] # NotSent}
    /\ \A b \in batch : b.status \in {"transformed", "failed"}
    /\ \A m \in Mail : \A e \in event[m] : e.outcome \in IntakeOutcomes

(* No message is lost: once no request carries it, a message for an address *)
(* that exists has an event, or is in the mailbox people read, whatever     *)
(* step of the delivery failed (worker.js deliver; intake_api._record is    *)
(* called last).                                                            *)
MailIsAccounted ==
    \A m \in Mail :
        \/ mail[m] = NotSent \/ mail[m].to = Nobody
        \/ \E d \in Delivery : post[d] # Idle /\ "m" \in DOMAIN post[d] /\ post[d].m = m
        \/ event[m] # {} \/ m \in mailbox

(* The event log tells the truth: what it calls ingested or a duplicate is  *)
(* in a transformed batch; a failed attachment is never buried under        *)
(* another outcome; and of a message delivered again, an attachment that    *)
(* was in when it arrived is a duplicate, not ingested twice (runbook:      *)
(* "if a human re-delivers it ... it is recorded as duplicate").            *)
OutcomeIsTrue ==
    \A m \in Mail : \A e \in event[m] :
        LET docs == mail[m].letter.docs
        IN  /\ \A i \in DOMAIN e.entries :
                /\ e.entries[i] \in {"ingested", "duplicate"}
                     => [doc |-> docs[i], status |-> "transformed"] \in batch
                /\ e.entries[i] = "failed" => e.outcome \in {"partial", "failed"}
                /\ i <= Len(docs) /\ i <= MaxAttachments /\ docs[i] \in e.held /\ ~docs[i].large
                     => e.entries[i] = "duplicate"
            /\ e.outcome = "ingested" => Len(e.entries) = Len(docs)

(* Mail sent to one property's address never puts figures on another's      *)
(* books, nor a report outside its night audit: the validator's reading of  *)
(* a document and the gate's agree, packs included                          *)
(* (test_routing_agrees_with_the_ingest_path).                              *)
LandedWasAsked ==
    \A x \in landed : x.report.property = x.for /\ x.report.type \in Required

(* A property that was ever given an address has exactly one live one,      *)
(* however creations and rotations race (uq_property_intake_address_active, *)
(* rotate's one transaction).                                               *)
ExactlyOneLiveAddress ==
    \A p \in Hotel : (\E a \in Rows : address[a].property = p) => Cardinality(Live(p)) = 1

(* Mail is neither lost nor misfiled nor misreported, whatever is delivered   *)
(* twice, fails halfway or arrives at an address being rotated.               *)
IntakeSafe ==
    /\ InTypeOK /\ MailIsAccounted /\ OutcomeIsTrue
    /\ LandedWasAsked /\ ExactlyOneLiveAddress
=============================================================================
