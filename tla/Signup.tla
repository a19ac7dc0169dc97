------------------------------- MODULE Signup -------------------------------
(***************************************************************************)
(* Self-service signup (usali/signup_api.py, invites.py, otp.py,           *)
(* provisioning.py, pms_interest.py): an owner asks for an invite, proves  *)
(* the invited address with a code, and POST /complete runs a saga over    *)
(* the application's database, the provisioner's and Keycloak:             *)
(*                                                                         *)
(*   claim the invite | Keycloak organization, account, roles, membership, *)
(*   password | organization, grant and chart rows | first property or     *)
(*   PMS request | record the tenant on the invite                         *)
(*                                                                         *)
(* Each bar is a commit or a call that cannot be rolled back.  A failure   *)
(* of the middle two reverts the claim; a failure after them, or a process *)
(* that dies anywhere, reverts nothing.  Refusals (404, 403, 422, 429)     *)
(* that write nothing are stuttering steps.                                *)
(***************************************************************************)
EXTENDS Naturals, FiniteSets, Handlers

CONSTANTS Request,         \* requests in flight at once
          Email,           \* invited addresses
          Alias,           \* workspace aliases the owners type
          MaxInvite,       \* bound: invites minted
          MaxCode,         \* bound: codes issued
          MaxInterrupted,  \* bound: invites whose request is cut off
          OtpMaxAttempts   \* OtpService max_attempts

ASSUME SignupConstants == MaxInvite \in Nat /\ MaxCode \in Nat /\ OtpMaxAttempts \in Nat \ {0}

VARIABLES invite,       \* the invite table, in the order the rows were minted
          known,        \* invites whose link was delivered: their token is in use
          otp,          \* the otp_challenge table
          codes,        \* codes issued so far
          kcOrg,        \* Keycloak: members of each organization that exists
          kcUser,       \* Keycloak: the account of each address
          organization, \* organization rows, with their org-wide org_admin grants
          property,     \* organizations with a first property
          interest,     \* organizations with a pms_interest_request
          signup,       \* the requests
          became,       \* history: tenants each invite was provisioned into
          interrupted   \* history: invites whose request died or lost an answer

sgVars == <<invite, known, otp, codes, kcOrg, kcUser, organization, property, interest,
            signup, became, interrupted>>

dbVars == <<organization, property, interest>>
kcVars == <<kcOrg, kcUser>>

InviteId == 1..MaxInvite
NoRow == [status |-> "none"]
NoOrg == "null"
NoUser == [username |-> NoOrg]
Pending(e) == [status |-> "pending", email |-> e, live |-> TRUE, org |-> NoOrg]
Minted == {i \in InviteId : invite[i] # NoRow}

SgInit ==
    /\ invite = [i \in InviteId |-> NoRow]
    /\ known = {}
    /\ otp = {}
    /\ codes = 0
    /\ kcOrg = [a \in {} |-> {}]
    /\ kcUser = [e \in Email |-> NoUser]
    /\ organization = [a \in {} |-> {}]
    /\ property = {}
    /\ interest = {}
    /\ signup = [r \in Request |-> Idle]
    /\ became = [i \in InviteId |-> {}]
    /\ interrupted = {}

-----------------------------------------------------------------------------
(* POST /request *)

(* create_invite and its commit; only the mail that follows carries the token. *)
request_invite(r, e) ==
    /\ signup[r] = Idle
    /\ Minted # InviteId
    /\ LET i == Cardinality(Minted) + 1
       IN  /\ invite' = [invite EXCEPT ![i] = Pending(e)]
           /\ signup' = Goes(signup, r, [pc |-> "mail", i |-> i])
    /\ UNCHANGED <<known, otp, codes, kcVars, dbVars, became, interrupted>>

SendLink(r) ==
    /\ At(signup, r, "mail")
    /\ known' = known \cup {signup[r].i}
    /\ signup' = Goes(signup, r, Idle)
    /\ UNCHANGED <<invite, otp, codes, kcVars, dbVars, became, interrupted>>

(* The send raises: the row is revoked, the caller told to try again. *)
revoke(r) ==
    /\ At(signup, r, "mail")
    /\ invite' = [invite EXCEPT ![signup[r].i].status = "revoked"]
    /\ signup' = Goes(signup, r, Idle)
    /\ UNCHANGED <<known, otp, codes, kcVars, dbVars, became, interrupted>>

validate(i) == i \in known /\ invite[i].status = "pending" /\ invite[i].live

(* Seven days pass; it matters to a link somebody holds. *)
InviteExpires(i) ==
    /\ i \in Minted
    /\ validate(i)
    /\ invite' = [invite EXCEPT ![i].live = FALSE]
    /\ UNCHANGED <<known, otp, codes, kcVars, dbVars, signup, became, interrupted>>

-----------------------------------------------------------------------------
(* POST /otp *)

Challenges(e) == {c \in otp : c.email = e}

(* issue, its read: the rows it will replace. *)
send_otp(r, i) ==
    /\ signup[r] = Idle
    /\ validate(i)
    /\ codes < MaxCode
    /\ signup' = Goes(signup, r, [pc |-> "issue", i |-> i, stale |-> Challenges(invite[i].email)])
    /\ UNCHANGED <<invite, known, otp, codes, kcVars, dbVars, became, interrupted>>

(* issue, its writes and the commit.  No constraint makes the address      *)
(* unique: a challenge issued since the read stays beside the new one.     *)
issue(r) ==
    /\ At(signup, r, "issue")
    /\ codes < MaxCode
    /\ codes' = codes + 1
    /\ otp' = (otp \ signup[r].stale)
                \cup {[email |-> invite[signup[r].i].email, code |-> codes + 1,
                       attempts |-> 0, live |-> TRUE]}
    /\ signup' = Goes(signup, r, Idle)
    /\ UNCHANGED <<invite, known, kcVars, dbVars, became, interrupted>>

(* Ten minutes pass. *)
CodeExpires(c) ==
    /\ c \in otp
    /\ c.live
    /\ otp' = (otp \ {c}) \cup {[c EXCEPT !.live = FALSE]}
    /\ UNCHANGED <<invite, known, codes, kcVars, dbVars, signup, became, interrupted>>

-----------------------------------------------------------------------------
(* POST /complete, step 1: validate, verify, claim *)

(* The challenge verify compares with: two rows of one address are an      *)
(* exception, none, an expired or an exhausted one a refusal.              *)
Verifiable(e, c) == Challenges(e) = {c} /\ c.live /\ c.attempts < OtpMaxAttempts

complete(r, i, c, code, a) ==
    /\ signup[r] = Idle
    /\ validate(i)
    /\ Verifiable(invite[i].email, c)
    /\ signup' = Goes(signup, r,
            IF code = c.code
            THEN [pc |-> "claim", i |-> i, challenge |-> c, alias |-> a]
            ELSE [pc |-> "miss", i |-> i, challenge |-> c])
    /\ UNCHANGED <<invite, known, otp, codes, kcVars, dbVars, became, interrupted>>

(* The row as it is now, whatever a concurrent attempt wrote to it. *)
RowOf(c) == {d \in otp : d.code = c.code}

(* attempts is the value read plus one; no row to update is an exception. *)
CountMiss(r) ==
    /\ At(signup, r, "miss")
    /\ LET c == signup[r].challenge
       IN  otp' = (otp \ RowOf(c))
                    \cup {[d EXCEPT !.attempts = c.attempts + 1] : d \in RowOf(c)}
    /\ signup' = Goes(signup, r, Idle)
    /\ UNCHANGED <<invite, known, codes, kcVars, dbVars, became, interrupted>>

(* Faulty: what validate read decides, the row is not looked at again. *)
Wins_OnTheRead(i) == TRUE

(* The UPDATE's WHERE clause. *)
Wins(i) == invite[i].status = "pending" /\ invite[i].live

(* Delete the challenge, claim, commit.  A loser's commit still deletes. *)
claim(r) ==
    /\ At(signup, r, "claim")
    /\ otp' = otp \ RowOf(signup[r].challenge)
    /\ LET i == signup[r].i
       IN  IF Wins(i)
           THEN /\ invite' = [invite EXCEPT ![i].status = "consumed"]
                /\ signup' = GoesTo(signup, r, "keycloak")
           ELSE /\ signup' = Goes(signup, r, Idle)
                /\ UNCHANGED invite
    /\ UNCHANGED <<known, codes, kcVars, dbVars, became, interrupted>>

-----------------------------------------------------------------------------
(* Step 2: provision_tenant *)

InviteEmail(r) == invite[signup[r].i].email

UsernameTaken(a) == \E e \in Email : kcUser[e].username = a

(* find_user_by_email, else a new account whose username is the alias. *)
Adopted(e, a) ==
    IF kcUser[e] # NoUser THEN kcUser[e]
    ELSE [username |-> a, operator |-> FALSE, password |-> FALSE]

(* The account after n calls: a role mapping for new and adopted accounts  *)
(* alike, and the chosen password.                                         *)
AccountAfter(e, a, n) ==
    [Adopted(e, a) EXCEPT !.operator = @ \/ n >= 3, !.password = @ \/ n >= 5]

(* The members after n calls. *)
MembersAfter(e, a, n) ==
    (IF a \in DOMAIN kcOrg THEN kcOrg[a] ELSE {}) \cup (IF n >= 4 THEN {e} ELSE {})

KcCalls == 5   \* create_organization, create_user, assign_realm_roles, add_member, set_password

(* The first n of the calls to Keycloak get through; the next one fails.   *)
(* They only add, and a call made twice adds nothing: what two requests    *)
(* leave does not depend on how their calls interleave, except that        *)
(* Keycloak refuses the second of two creations, which is a failure at     *)
(* that call.  A username of another address is refused before creating.   *)
Keycloak(r, n) ==
    /\ At(signup, r, "keycloak")
    /\ LET e == InviteEmail(r)
           a == signup[r].alias
           clash == kcUser[e] = NoUser /\ UsernameTaken(a)
       IN  /\ clash => n <= 1
           /\ kcOrg' = IF n = 0 THEN kcOrg
                       ELSE [b \in DOMAIN kcOrg \cup {a} |->
                                IF b = a THEN MembersAfter(e, a, n) ELSE kcOrg[b]]
           /\ kcUser' = IF n < 2 THEN kcUser
                        ELSE [kcUser EXCEPT ![e] = AccountAfter(e, a, n)]
    /\ signup' = GoesTo(signup, r, IF n = KcCalls THEN "rows" ELSE "revert")
    /\ UNCHANGED <<invite, known, otp, codes, dbVars, became, interrupted>>

(* The organization row, its first grant and its chart, and the commit;    *)
(* when the answer to the COMMIT is lost the handler sees a failure.       *)
ProvisionRows(r, answered) ==
    /\ At(signup, r, "rows")
    /\ answered \/ Cardinality(interrupted) < MaxInterrupted
    /\ LET a == signup[r].alias
           i == signup[r].i
           had == IF a \in DOMAIN organization THEN organization[a] ELSE {}
       IN  /\ organization' = [b \in DOMAIN organization \cup {a} |->
                                  IF b = a THEN had \cup {InviteEmail(r)} ELSE organization[b]]
           /\ became' = [became EXCEPT ![i] = @ \cup {a}]
           /\ interrupted' = IF answered THEN interrupted ELSE interrupted \cup {i}
    /\ signup' = GoesTo(signup, r, IF answered THEN "first" ELSE "revert")
    /\ UNCHANGED <<invite, known, otp, codes, kcVars, property, interest>>

(* The transaction fails: a name already taken, a lost connection. *)
RowsFail(r) ==
    /\ At(signup, r, "rows")
    /\ signup' = GoesTo(signup, r, "revert")
    /\ UNCHANGED <<invite, known, otp, codes, kcVars, dbVars, became, interrupted>>

revert_claim(r) ==
    /\ At(signup, r, "revert")
    /\ LET i == signup[r].i
       IN  invite' = IF invite[i].status = "consumed" /\ invite[i].org = NoOrg
                     THEN [invite EXCEPT ![i].status = "pending"] ELSE invite
    /\ signup' = Goes(signup, r, Idle)
    /\ UNCHANGED <<known, otp, codes, kcVars, dbVars, became, interrupted>>

-----------------------------------------------------------------------------
(* Steps 2b and 3 *)

(* create_first_property with its detection alias, or record_request, which *)
(* keeps one row per workspace and PMS.                                     *)
FirstProperty(r, supported) ==
    /\ At(signup, r, "first")
    /\ LET a == signup[r].alias
       IN  IF supported
           THEN property' = property \cup {a} /\ UNCHANGED interest
           ELSE interest' = interest \cup {a} /\ UNCHANGED property
    /\ signup' = GoesTo(signup, r, "mark")
    /\ UNCHANGED <<invite, known, otp, codes, kcVars, organization, became, interrupted>>

mark_consumed_org(r) ==
    /\ At(signup, r, "mark")
    /\ invite' = [invite EXCEPT ![signup[r].i].org = signup[r].alias]
    /\ signup' = Goes(signup, r, Idle)
    /\ UNCHANGED <<known, otp, codes, kcVars, dbVars, became, interrupted>>

(* The process dies, or a step outside provision_tenant raises: nothing is *)
(* reverted, and the request is gone.                                      *)
Dies(r) ==
    /\ signup[r] # Idle
    /\ Cardinality(interrupted) < MaxInterrupted
    /\ interrupted' = interrupted \cup {signup[r].i}
    /\ signup' = Goes(signup, r, Idle)
    /\ UNCHANGED <<invite, known, otp, codes, kcVars, dbVars, became>>

SgNext ==
    \/ \E r \in Request :
        \/ \E e \in Email : request_invite(r, e)
        \/ \E i \in Minted : send_otp(r, i)
        \/ \E i \in Minted, c \in otp, right \in BOOLEAN, a \in Alias :
              complete(r, i, c, IF right THEN c.code ELSE 0, a)
        \/ SendLink(r) \/ revoke(r) \/ issue(r) \/ CountMiss(r) \/ claim(r)
        \/ \E n \in 0..KcCalls : Keycloak(r, n)
        \/ \E answered \in BOOLEAN : ProvisionRows(r, answered)
        \/ RowsFail(r) \/ revert_claim(r)
        \/ \E s \in BOOLEAN : FirstProperty(r, s)
        \/ mark_consumed_org(r) \/ Dies(r)
    \/ \E i \in Minted : InviteExpires(i)
    \/ \E c \in otp : CodeExpires(c)

-----------------------------------------------------------------------------
(* Properties *)

SgTypeOK ==
    /\ \A i \in Minted : invite[i] \in [status : {"pending", "consumed", "revoked"},
            email : Email, live : BOOLEAN, org : Alias \cup {NoOrg}]
    /\ known \subseteq Minted
    /\ \A c \in otp : c.code \in 1..codes /\ c.attempts \in 0..OtpMaxAttempts
    /\ DOMAIN organization \subseteq DOMAIN kcOrg
    /\ property \cup interest \subseteq DOMAIN organization

(* One invite, one tenant: the claim is an UPDATE of a pending row, so that *)
(* concurrent completions, retries after a revert and expired links never   *)
(* provision a second organization, unless the answer to a COMMIT was lost  *)
(* or the request died (invites.claim, signup_api.complete).                *)
OneTenantPerInvite ==
    \A i \in InviteId : i \notin interrupted => Cardinality(became[i]) <= 1

(* A spent invite names its tenant, or the request that spent it is still   *)
(* running; otherwise that request was cut off.  Nothing else strands one.  *)
SpentInviteIsAccounted ==
    \A i \in Minted :
        invite[i].status = "consumed" /\ i \notin interrupted =>
            \/ invite[i].org \in became[i]
            \/ \E r \in Request : signup[r] # Idle /\ signup[r].i = i
                                  /\ signup[r].pc \in {"keycloak", "rows", "revert", "first", "mark"}

(* Whatever partial runs, adoptions and retries under other aliases came    *)
(* before, an administrator granted in the database can sign in to that     *)
(* organization: a member, with the operator role and the chosen password   *)
(* (provision_tenant re-applies what an earlier attempt may have missed).   *)
GrantedAdminCanSignIn ==
    \A a \in DOMAIN organization : \A e \in organization[a] :
        e \in kcOrg[a] /\ kcUser[e].operator /\ kcUser[e].password

(* An invite nobody holds the link of does not stay pending: the token was  *)
(* only in the mail, so a failed send revokes the row.                      *)
UnsentIsRevoked ==
    \A i \in Minted \ (known \cup interrupted) :
        \/ invite[i].status = "revoked"
        \/ \E r \in Request : signup[r] # Idle /\ signup[r].i = i /\ signup[r].pc = "mail"

(* A signup, however it is interleaved, repeated or cut off, leaves one        *)
(* tenant per invite with an administrator who can enter it, and no invite     *)
(* that neither is usable nor made one.                                        *)
SignupSafe ==
    /\ SgTypeOK /\ OneTenantPerInvite /\ SpentInviteIsAccounted
    /\ GrantedAdminCanSignIn /\ UnsentIsRevoked

SgSpec == SgInit /\ [][SgNext]_sgVars
=============================================================================
