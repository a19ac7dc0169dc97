------------------------------ MODULE Deposits ------------------------------
(***************************************************************************)
(* Where an employee's net pay goes (usali/deposit_accounts.py, pii_api.py,*)
(* and the sync of payroll_run.py): the sealed SSN and the chain of sealed *)
(* deposit accounts on file, payroll administrators replacing them, and a  *)
(* pay run that fingerprints, opens and delivers them to the provider.     *)
(*                                                                         *)
(* Requests are READ COMMITTED transactions: a DELETE sees the rows of its *)
(* own start and waits for whoever is deleting them, an INSERT waits for a *)
(* unique key, and each SELECT of a sync sees what is committed by then.   *)
(* An envelope is the ordinal it was sealed for: it opens nowhere else.    *)
(* The key is never rotated; a percent is of the net pay, in whole points. *)
(***************************************************************************)
EXTENDS Integers, Sequences, FiniteSets, FiniteSetsExt, Handlers

CONSTANTS PutBody,  \* account lists an administrator may send
          OnFile,   \* chains on file at first: none, or one carried over
          Writer,   \* concurrent PUTs of the chain
          MaxPuts,  \* bound: chains sent
          MaxSsn    \* bound: SSNs entered

VARIABLES ssn,       \* employee_payroll_profile.ssn_sealed: entry number, 0 if none
          deposits,  \* deposit_account rows, each naming the PUT it is from
          puts,      \* PUTs under way
          sent,      \* chains sent so far
          sync,      \* the sync of a pay run under way
          ref,       \* provider_employee_ref: the fingerprint stored, or none
          copy       \* the provider's record behind ref

depVars == <<ssn, deposits, puts, sent, sync, ref, copy>>

NoRef == <<>>
Legacy == 0           \* the slot of the one account a profile once held

(* The rows of a chain, as the given PUT stores them. *)
Stored(put, chain) == {[put |-> put, ordinal |-> i, spec |-> chain[i]] : i \in DOMAIN chain}
FromProfile(chain) == Stored(0, chain)

DepInit ==
    /\ ssn \in 0..1
    /\ \E chain \in OnFile : deposits = FromProfile(chain)
    /\ puts = [w \in Writer |-> Idle]
    /\ sent = 0
    /\ sync = Idle
    /\ ref = NoRef /\ copy = NoRef

-----------------------------------------------------------------------------
(* A legal chain *)

(* What is taken in percent, in a chain of the given accounts. *)
PercentSum(chain) ==
    MapThenSumSet(LAMBDA i : IF chain[i].type = "percent" THEN chain[i].value ELSE 0, DOMAIN chain)

(* Exactly one remainder, the last; amounts and percentages are positive and
   leave something for it.  An empty chain is legal. *)
allocation_ok(chain) ==
    chain # <<>> =>
        /\ {i \in DOMAIN chain : chain[i].type = "remainder"} = {Len(chain)}
        /\ \A i \in DOMAIN chain : chain[i].type # "remainder" => chain[i].value > 0
        /\ PercentSum(chain) < 100

(* Bodies are lists; what the migration carried over is a legal chain. *)
ASSUME ChainConstants ==
    /\ \A chain \in PutBody \cup OnFile : Len(chain) \in Nat /\ chain = [i \in 1..Len(chain) |-> chain[i]]
    /\ \A chain \in OnFile : allocation_ok(chain)

(* Rows in the order of their ordinals. *)
InOrder(stored) ==
    [i \in 1..Cardinality(stored) |->
        (CHOOSE r \in stored : Cardinality({q \in stored : q.ordinal <= r.ordinal}) = i).spec]

-----------------------------------------------------------------------------
(* PUT /profile and PUT /deposit-accounts *)

put_profile ==
    /\ ssn < MaxSsn
    /\ ssn' = ssn + 1
    /\ UNCHANGED <<deposits, puts, sent, sync, ref, copy>>

(* All or nothing: the whole body is judged before anything is written.  The
   DELETE starts, over the rows there are now; an empty body was confirmed. *)
put_deposit_accounts(w, body) ==
    /\ puts[w] = Idle /\ sent < MaxPuts
    /\ allocation_ok(body)
    /\ sent' = sent + 1
    /\ puts' = Goes(puts, w, [pc |-> "delete", put |-> sent + 1, body |-> body, seen |-> deposits])
    /\ UNCHANGED <<ssn, deposits, sync, ref, copy>>

(* Row locks of the other PUTs. *)
LockedBy(v) == IF At(puts, v, "insert") THEN puts[v].seen ELSE {}

(* Rows that another PUT deleted meanwhile are skipped. *)
DeleteRows(w) ==
    /\ At(puts, w, "delete")
    /\ \A v \in Writer \ {w} : LockedBy(v) \cap puts[w].seen = {}
    /\ puts' = Goes(puts, w, [puts[w] EXCEPT !.pc = "insert", !.seen = @ \cap deposits])
    /\ UNCHANGED <<ssn, deposits, sent, sync, ref, copy>>

NewRows(w) == Stored(puts[w].put, puts[w].body)

(* The unique key (employee_id, ordinal). *)
OrdinalTaken(w) ==
    \E r \in NewRows(w), q \in deposits \ puts[w].seen : r.ordinal = q.ordinal

(* The INSERTs and the commit; a key that is taken rolls the request back. *)
InsertRows(w) ==
    /\ At(puts, w, "insert")
    /\ deposits' = IF OrdinalTaken(w) THEN deposits ELSE (deposits \ puts[w].seen) \cup NewRows(w)
    /\ puts' = Goes(puts, w, Idle)
    /\ UNCHANGED <<ssn, sent, sync, ref, copy>>

(* The request dies, or waits too long. *)
PutFails(w) ==
    /\ puts[w] # Idle
    /\ puts' = Goes(puts, w, Idle)
    /\ UNCHANGED <<ssn, deposits, sent, sync, ref, copy>>

-----------------------------------------------------------------------------
(* The pay run *)

(* Preflight of the person: a chain on file, every account of it complete and
   of a known type, and legal by the rule of the other door. *)
deposit_problems ==
    \/ deposits = {}
    \/ \E r \in deposits : ~r.spec.complete
    \/ ~allocation_ok(InOrder(deposits))

(* Faulty: what the record is marked with is read after it was built. *)
Steps_Marked == <<"profile", "chain", "fp_ssn", "fp_chain">>

(* What a sync reads, statement by statement: the fingerprint's two, then the
   payload's. *)
Steps == <<"fp_ssn", "fp_chain", "profile", "chain">>

payload_fingerprint == <<ssn, deposits>>
provider_payload_stale == ref # payload_fingerprint

(* The employee's turn in sync_employees. *)
sync_employees ==
    /\ sync = Idle
    /\ ssn > 0 /\ ~deposit_problems
    /\ provider_payload_stale
    /\ sync' = [pc |-> "reading", step |-> 1, mark |-> <<0, {}>>, payload |-> <<0, {}>>]
    /\ UNCHANGED <<ssn, deposits, puts, sent, ref, copy>>

ReadNext ==
    /\ sync.pc = "reading"
    /\ LET step == Steps[sync.step]
       IN  sync' = [pc      |-> IF sync.step = Len(Steps) THEN "deliver" ELSE "reading",
                    step    |-> sync.step + 1,
                    mark    |-> IF step = "fp_ssn" THEN <<ssn, sync.mark[2]>>
                                ELSE IF step = "fp_chain" THEN <<sync.mark[1], deposits>> ELSE sync.mark,
                    payload |-> IF step = "profile" THEN <<ssn, sync.payload[2]>>
                                ELSE IF step = "chain" THEN <<sync.payload[1], deposits>>
                                ELSE sync.payload]
    /\ UNCHANGED <<ssn, deposits, puts, sent, ref, copy>>

(* Each envelope is opened in the slot of its row. *)
_open_field(r) == r.spec.slot = (IF r.put = 0 THEN Legacy ELSE r.ordinal)

(* A chain erased since, or an envelope that does not open, blocks the run. *)
_build_payroll_employee == sync.payload[2] # {} /\ \A r \in sync.payload[2] : _open_field(r)

(* Delivered, and only then marked, with the run's commit. *)
Deliver ==
    /\ sync.pc = "deliver" /\ _build_payroll_employee
    /\ copy' = sync.payload
    /\ ref' = sync.mark
    /\ sync' = Idle
    /\ UNCHANGED <<ssn, deposits, puts, sent>>

(* Blocked, a crash, or a refusal of the provider, which may have replaced its
   record all the same: nothing is stored. *)
SyncBlocked(acted) ==
    /\ sync.pc = "deliver"
    /\ acted => _build_payroll_employee /\ ref # NoRef
    /\ copy' = IF acted THEN sync.payload ELSE copy
    /\ sync' = Idle
    /\ UNCHANGED <<ssn, deposits, puts, sent, ref>>

DepNext ==
    \/ put_profile
    \/ \E w \in Writer :
         \/ \E body \in PutBody : put_deposit_accounts(w, body)
         \/ DeleteRows(w) \/ InsertRows(w) \/ PutFails(w)
    \/ sync_employees \/ ReadNext \/ Deliver
    \/ \E acted \in BOOLEAN : SyncBlocked(acted)

DepSpec == DepInit /\ [][DepNext]_depVars

-----------------------------------------------------------------------------
(* Properties *)

(* The rows of one PUT, or of the profile they were carried over from, in full. *)
Whole(stored) ==
    /\ Cardinality({r.put : r \in stored}) <= 1
    /\ {r.ordinal : r \in stored} = 1..Cardinality(stored)
    /\ allocation_ok(InOrder(stored)) /\ PercentSum(InOrder(stored)) < 100

(* "Money that sums to 99% is silently lost and 101% is a provider rejection":
   however PUTs of the chain and a pay run's reads overlap, what is on file
   and what the provider holds is one administrator's chain, whole and legal,
   never accounts of two; every account the provider holds was sealed for
   the place it is paid in; and a record that does not read stale is the chain
   on file, if there is one, although its fingerprint and its payload are read
   by different statements ("fail toward the extra send, never the skipped
   one"). *)
PayGoesWhereItSays ==
    /\ Whole(deposits)
    /\ copy # NoRef =>
         /\ Whole(copy[2])
         /\ \A r \in copy[2] : r.spec.slot = (IF r.put = 0 THEN Legacy ELSE r.ordinal)
         /\ ~provider_payload_stale /\ deposits # {} => copy = payload_fingerprint
=============================================================================
