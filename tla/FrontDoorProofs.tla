--------------------------- MODULE FrontDoorProofs --------------------------
(***************************************************************************)
(* What comes in from outside.  A signup leaves one tenant per invite with *)
(* an administrator who can enter it, and a night audit that is mailed in  *)
(* is neither lost nor misfiled nor misreported, however many requests,    *)
(* invites, codes and messages there are and wherever a request is cut off.*)
(***************************************************************************)
EXTENDS Signup, Intake, SumTheorems

-----------------------------------------------------------------------------
(* Signup *)

Invite == [status : {"pending", "consumed", "revoked"}, email : Email, live : BOOLEAN,
           org : Alias \cup {NoOrg}]

(* A request between the claim of an invite and the end of the saga. *)
Holding == {"keycloak", "rows", "revert", "first", "mark"}

(* The request an invite waits for: the one that mails it or holds it. *)
Owns(r, i) == signup[r].pc \in {"mail"} \cup Holding /\ signup[r].i = i

AccountFields == {"username", "operator", "password"}

CanSignIn(a, e) ==
    /\ a \in DOMAIN kcOrg
    /\ e \in kcOrg[a]
    /\ DOMAIN kcUser[e] = AccountFields
    /\ kcUser[e].operator
    /\ kcUser[e].password

(* Invites are numbered without gaps, so that a new one gets a new number. *)
Tables ==
    /\ invite \in [InviteId -> Invite \cup {NoRow}]
    /\ \E n \in 0..MaxInvite : Minted = 1..n
    /\ known \subseteq Minted
    /\ DOMAIN signup = Request
    /\ DOMAIN became = InviteId
    /\ DOMAIN kcUser = Email
    /\ \A e \in Email : kcUser[e] # NoUser => DOMAIN kcUser[e] = AccountFields
    /\ DOMAIN organization \subseteq DOMAIN kcOrg
    /\ property \cup interest \subseteq DOMAIN organization

(* The account and the membership are complete before a grant is written. *)
Granted == \A a \in DOMAIN organization : \A e \in organization[a] : e \in Email /\ CanSignIn(a, e)

(* A code is compared fewer times than it has attempts. *)
CodesOK ==
    /\ codes \in Nat
    /\ \A c \in otp : /\ DOMAIN c = {"email", "code", "attempts", "live"}
                      /\ c.code \in 1..codes
                      /\ c.attempts \in 0..OtpMaxAttempts
    /\ \A r \in Request : signup[r].pc = "miss" =>
           signup[r].challenge.attempts \in 0..(OtpMaxAttempts - 1)

(* What a request has reached: an invite that is mailed is not known yet,   *)
(* one that is held is consumed, names no tenant and has made one only      *)
(* after the rows are in.                                                   *)
RequestOK(r) ==
    /\ signup[r].pc # "idle" => signup[r].i \in Minted
    /\ signup[r].pc = "mail" => signup[r].i \notin known /\ invite[signup[r].i].status = "pending"
    /\ signup[r].pc \in {"claim"} \cup Holding =>
         signup[r].i \in known /\ signup[r].alias \in Alias
           /\ {"pc", "i", "alias"} \subseteq DOMAIN signup[r]
    /\ signup[r].pc \in Holding =>
         /\ invite[signup[r].i].status = "consumed"
         /\ signup[r].i \notin interrupted =>
              /\ invite[signup[r].i].org = NoOrg
              /\ became[signup[r].i] =
                   IF signup[r].pc \in {"first", "mark"} THEN {signup[r].alias} ELSE {}
    /\ signup[r].pc = "rows" => CanSignIn(signup[r].alias, InviteEmail(r))
    /\ signup[r].pc \in {"first", "mark"} => signup[r].alias \in DOMAIN organization

(* Where an invite stands: it made no tenant, or the one it names, or a     *)
(* request is at it.                                                        *)
InviteOK(i) ==
    /\ invite[i] = NoRow => became[i] = {}
    /\ invite[i] # NoRow /\ i \notin interrupted =>
         /\ invite[i].status # "consumed" => became[i] = {} /\ invite[i].org = NoOrg
         /\ invite[i].status = "consumed" =>
              became[i] = {invite[i].org}
                \/ \E r \in Request : signup[r].pc \in Holding /\ signup[r].i = i
         /\ i \notin known => invite[i].status = "revoked"
              \/ \E r \in Request : signup[r].pc = "mail" /\ signup[r].i = i

OneOwner == \A r, q \in Request, i \in InviteId : Owns(r, i) /\ Owns(q, i) => r = q

SgInv ==
    /\ Tables
    /\ Granted
    /\ CodesOK
    /\ \A r \in Request : RequestOK(r)
    /\ \A i \in InviteId : InviteOK(i)
    /\ OneOwner

(* No invite, no request, no account. *)
LEMMA SgInitInv == ASSUME SgInit PROVE SgInv
<1>1. \A r \in Request : signup[r].pc = "idle"
  BY DEF SgInit, Idle
<1>2. Minted = {}
  BY DEF SgInit, Minted
<1>3. 0 \in 0..MaxInvite /\ Minted = 1..0
  BY <1>2, SignupConstants
<1>4. Tables
  BY <1>2, <1>3 DEF SgInit, Tables
<1>5. Granted /\ CodesOK
  BY <1>1 DEF SgInit, Granted, CodesOK
<1>6. \A r \in Request : RequestOK(r)
  BY <1>1 DEF RequestOK, Holding
<1>7. \A i \in InviteId : InviteOK(i)
  BY DEF SgInit, InviteOK
<1> QED BY <1>1, <1>4, <1>5, <1>6, <1>7 DEF SgInv, OneOwner, Owns, Holding

(* What the parts of the invariant say together is the property. *)
LEMMA SgInvSafe == ASSUME SgInv PROVE SignupSafe
<1> USE DEF SgInv
<1>1. SgTypeOK
  BY DEF SgTypeOK, Tables, CodesOK, Minted, Invite
<1>2. OneTenantPerInvite
  <2> SUFFICES ASSUME NEW i \in InviteId, i \notin interrupted
               PROVE  Cardinality(became[i]) <= 1
    BY DEF OneTenantPerInvite
  <2>1. became[i] = {} \/ \E x : became[i] = {x}
    <3>1. CASE invite[i] = NoRow
      BY <3>1 DEF InviteOK
    <3>2. CASE invite[i] # NoRow /\ \E r \in Request : signup[r].pc \in Holding /\ signup[r].i = i
      BY <3>2 DEF RequestOK
    <3>3. CASE invite[i] # NoRow /\ ~\E r \in Request : signup[r].pc \in Holding /\ signup[r].i = i
      BY <3>3 DEF InviteOK
    <3> QED BY <3>1, <3>2, <3>3
  <2> QED BY <2>1, FS_EmptySet, FS_Singleton, SMTT(30)
<1>3. SpentInviteIsAccounted
  BY DEF SpentInviteIsAccounted, Minted, InviteOK, Holding, Idle
<1>4. GrantedAdminCanSignIn
  BY DEF GrantedAdminCanSignIn, Granted, CanSignIn
<1>5. UnsentIsRevoked
  BY DEF UnsentIsRevoked, Minted, InviteOK, Idle
<1> QED BY <1>1, <1>2, <1>3, <1>4, <1>5 DEF SignupSafe

(* What a step of the requests R about the invites I leaves to the others, *)
(* when nobody else owns these: tables only grow, the other invites are    *)
(* untouched.                                                              *)
LEMMA Frame ==
  ASSUME SgInv, NEW R, NEW I \in SUBSET InviteId,
         Tables',
         \A q \in Request \ R : signup'[q] = signup[q],
         \A q \in Request \ R, j \in I : ~Owns(q, j),
         \A q \in Request \cap R, j \in InviteId : Owns(q, j) \/ Owns(q, j)' => j \in I,
         \A q, s \in Request \cap R : q = s,
         \A j \in InviteId \ I : invite'[j] = invite[j] /\ became'[j] = became[j],
         known \subseteq known', known' \subseteq known \cup I,
         interrupted \subseteq interrupted',
         Minted \subseteq Minted',
         \A j \in I \cap Minted : invite'[j].email = invite[j].email,
         \A a \in Alias, e \in Email : CanSignIn(a, e) => CanSignIn(a, e)',
         DOMAIN organization \subseteq DOMAIN organization',
         Granted', CodesOK',
         \A q \in Request \cap R : RequestOK(q)',
         \A j \in I : InviteOK(j)'
  PROVE  SgInv'
<1> USE DEF SgInv
<1>1. ASSUME NEW q \in Request \ R
      PROVE  RequestOK(q)'
  <2>1. RequestOK(q) /\ signup'[q] = signup[q] /\ \A j \in I : ~Owns(q, j)
    BY <1>1
  <2>2. signup[q].pc # "idle" => signup[q].i \in Minted /\ signup[q].i \in InviteId
    BY <2>1 DEF RequestOK, Minted
  <2>3. ASSUME signup[q].pc = "rows"
        PROVE  CanSignIn(signup[q].alias, InviteEmail(q))'
    <3>1. signup[q].i \in InviteId /\ signup[q].i \notin I /\ signup[q].alias \in Alias
      BY <2>1, <2>2, <2>3 DEF RequestOK, Owns, Holding
    <3>2. InviteEmail(q) \in Email /\ InviteEmail(q)' = InviteEmail(q)
      BY <2>1, <2>2, <2>3, <3>1 DEF InviteEmail, Tables, Minted, Invite
    <3>3. CanSignIn(signup[q].alias, InviteEmail(q))
      BY <2>1, <2>3 DEF RequestOK
    <3> DEFINE a == signup[q].alias
               e == InviteEmail(q)
    <3>4. /\ a \in DOMAIN kcOrg' /\ e \in kcOrg'[a]
          /\ DOMAIN kcUser'[e] = AccountFields /\ kcUser'[e].operator /\ kcUser'[e].password
      <4> HIDE DEF a, e
      <4> QED BY <3>1, <3>2, <3>3 DEF CanSignIn, a, e
    <3> QED BY <2>1, <3>2, <3>4 DEF CanSignIn
  <2>4. /\ signup[q].pc = "mail" => signup[q].i \notin I
        /\ signup[q].pc \in Holding => signup[q].i \notin I
    BY <2>1 DEF Owns
  <2> QED BY <2>1, <2>2, <2>3, <2>4 DEF RequestOK, Holding
<1>2. ASSUME NEW j \in InviteId, j \notin I
      PROVE  InviteOK(j)'
  <2>1. InviteOK(j) /\ invite'[j] = invite[j] /\ became'[j] = became[j]
    BY <1>2
  <2>2. ASSUME NEW r \in Request, Owns(r, j)
        PROVE  signup'[r] = signup[r]
    BY <1>2, <2>2
  <2>3. \A r \in Request : signup[r].pc \in {"mail"} \cup Holding /\ signup[r].i = j
                             => signup'[r] = signup[r]
    BY <2>2 DEF Owns
  <2>4. (j \in known') => j \in known
    BY <1>2
  <2>5. (j \notin interrupted') => j \notin interrupted
    OBVIOUS
  <2> QED BY <2>1, <2>3, <2>4, <2>5 DEF InviteOK
<1>3. OneOwner'
  <2> SUFFICES ASSUME NEW r \in Request, NEW q \in Request, NEW j \in InviteId,
                      Owns(r, j)', Owns(q, j)'
               PROVE  r = q
    BY DEF OneOwner
  <2>1. CASE r \in R /\ q \in R
    BY <2>1
  <2>2. ASSUME NEW u \in Request \ R, Owns(u, j)' PROVE Owns(u, j) /\ j \notin I
    BY <2>2 DEF Owns
  <2>3. CASE r \notin R /\ q \notin R
    BY <2>2, <2>3 DEF OneOwner
  <2> QED BY <2>1, <2>2, <2>3
<1> QED BY <1>1, <1>2, <1>3

(* The codes stand as long as nobody misses one. *)
LEMMA CodesKept ==
  ASSUME CodesOK, UNCHANGED <<otp, codes>>,
         \A q \in Request : signup'[q] = signup[q] \/ signup'[q].pc # "miss"
  PROVE  CodesOK'
BY DEF CodesOK

(* The tables stand as long as invites stay what they were or change row   *)
(* for row.                                                                *)
LEMMA RowsKept ==
  ASSUME Tables, NEW i \in Minted, NEW row \in Invite,
         invite' = [invite EXCEPT ![i] = row]
  PROVE  /\ invite' \in [InviteId -> Invite \cup {NoRow}]
         /\ invite'[i] = row
         /\ Minted' = Minted
<1>1. invite \in [InviteId -> Invite \cup {NoRow}] /\ i \in InviteId /\ invite[i] # NoRow
  BY DEF Tables, Minted
<1>2. row # NoRow
  BY DEF Invite, NoRow
<1> QED BY <1>1, <1>2 DEF Minted

(* The steps of POST /otp and of the verification, which write codes only. *)
LEMMA QuietStep ==
  ASSUME SgInv, NEW r \in Request,
         \/ \E i \in Minted : send_otp(r, i)
         \/ \E i \in Minted, c \in otp, right \in BOOLEAN, a \in Alias :
              complete(r, i, c, IF right THEN c.code ELSE 0, a)
         \/ issue(r) \/ CountMiss(r)
  PROVE  SgInv'
<1> USE DEF Goes, At, kcVars, dbVars
<1>1. /\ UNCHANGED <<invite, known, kcOrg, kcUser, organization, property, interest, became,
                     interrupted>>
      /\ DOMAIN signup = Request
      /\ \A q \in Request \ {r} : signup'[q] = signup[q]
      /\ DOMAIN signup' = Request
  BY DEF send_otp, complete, issue, CountMiss, SgInv, Tables
<1>2. /\ signup[r].pc \in {"idle", "issue", "miss"}
      /\ signup'[r].pc \in {"idle", "issue", "miss", "claim"}
      /\ signup'[r].pc # "idle" => signup'[r].i \in Minted
      /\ signup'[r].pc = "claim" => signup'[r].i \in known /\ signup'[r].alias \in Alias
                                      /\ {"pc", "i", "alias"} \subseteq DOMAIN signup'[r]
  <2>1. CASE \E i \in Minted : send_otp(r, i)
    BY <1>1, <2>1 DEF send_otp, Idle
  <2>2. CASE issue(r) \/ CountMiss(r)
    BY <1>1, <2>2 DEF issue, CountMiss, Idle
  <2>3. ASSUME NEW i \in Minted, NEW c \in otp, NEW right \in BOOLEAN, NEW a \in Alias,
               complete(r, i, c, IF right THEN c.code ELSE 0, a)
        PROVE  <1>2!:
    <3>1. signup[r].pc = "idle" /\ i \in known
      BY <2>3 DEF complete, validate, Idle
    <3>2. \/ signup'[r] = [pc |-> "claim", i |-> i, challenge |-> c, alias |-> a]
          \/ signup'[r] = [pc |-> "miss", i |-> i, challenge |-> c]
      BY <1>1, <2>3 DEF complete
    <3> QED BY <3>1, <3>2
  <2> QED BY <2>1, <2>2, <2>3
<1>3. CodesOK'
  <2>0. CodesOK
    BY DEF SgInv
  <2>1. CASE \E i \in Minted : send_otp(r, i)
    BY <1>1, <2>0, <2>1, CodesKept DEF send_otp
  <2>2. ASSUME NEW i \in Minted, NEW c \in otp, NEW right \in BOOLEAN, NEW a \in Alias,
               complete(r, i, c, IF right THEN c.code ELSE 0, a)
        PROVE  CodesOK'
    <3>1. /\ signup'[r].pc \in {"claim", "miss"} /\ signup'[r].challenge = c
          /\ c.attempts < OtpMaxAttempts
          /\ UNCHANGED <<otp, codes>>
      BY <1>1, <2>2 DEF complete, Verifiable
    <3>2. c.attempts \in 0..(OtpMaxAttempts - 1)
      BY <2>0, <3>1, SignupConstants DEF CodesOK
    <3> QED BY <1>1, <2>0, <3>1, <3>2 DEF CodesOK
  <2>3. CASE issue(r)
    <3> DEFINE n == [email |-> invite[signup[r].i].email, code |-> codes + 1,
                     attempts |-> 0, live |-> TRUE]
    <3>1. /\ DOMAIN n = {"email", "code", "attempts", "live"}
          /\ n.code = codes + 1 /\ n.attempts = 0
      OBVIOUS
    <3>2. codes' = codes + 1 /\ otp' \subseteq otp \cup {n} /\ signup'[r].pc = "idle"
      BY <1>1, <2>3 DEF issue, Idle
    <3> HIDE DEF n
    <3> QED BY <1>1, <2>0, <3>1, <3>2, SignupConstants DEF CodesOK
  <2>4. CASE CountMiss(r)
    <3> DEFINE c == signup[r].challenge
    <3>1. /\ c.attempts + 1 \in 0..OtpMaxAttempts
          /\ codes' = codes /\ signup'[r].pc = "idle"
          /\ otp' = (otp \ RowOf(c)) \cup {[d EXCEPT !.attempts = c.attempts + 1] : d \in RowOf(c)}
      BY <1>1, <2>0, <2>4, SignupConstants DEF CountMiss, CodesOK, Idle
    <3>2. ASSUME NEW d \in otp
          PROVE  LET n == [d EXCEPT !.attempts = c.attempts + 1]
                 IN  /\ DOMAIN n = {"email", "code", "attempts", "live"}
                     /\ n.code = d.code /\ n.attempts = c.attempts + 1
      BY <2>0 DEF CodesOK
    <3> HIDE DEF c
    <3> QED BY <1>1, <2>0, <3>1, <3>2 DEF CodesOK, RowOf
  <2> QED BY <2>1, <2>2, <2>3, <2>4
<1>4. Tables' /\ Granted' /\ Minted' = Minted
  BY <1>1 DEF SgInv, Tables, Granted, CanSignIn, Minted
<1>5. RequestOK(r)'
  BY <1>1, <1>2, <1>4 DEF RequestOK, Holding
<1>6. \A j \in InviteId : ~Owns(r, j) /\ ~Owns(r, j)'
  BY <1>2 DEF Owns, Holding
<1>7. \A a \in Alias, e \in Email : CanSignIn(a, e) => CanSignIn(a, e)'
  BY <1>1 DEF CanSignIn
<1> QED
  <2> DEFINE R == {r}
             I == {}
  <2>1. \A q \in Request \cap R : q = r
    OBVIOUS
  <2>2. r \in R /\ R = {r} /\ I = {}
    OBVIOUS
  <2> HIDE DEF R, I
  <2> QED BY <1>1, <1>3, <1>4, <1>5, <1>6, <1>7, <2>1, <2>2, Frame

(* Steps of the invites themselves: minting, mailing, revoking, expiring. *)
LEMMA InviteStep ==
  ASSUME SgInv, NEW r \in Request,
         \/ \E e \in Email : request_invite(r, e)
         \/ SendLink(r) \/ revoke(r)
  PROVE  SgInv'
<1> USE DEF Goes, At, kcVars, dbVars
<1>0. Tables /\ CodesOK /\ RequestOK(r)
  BY DEF SgInv
<1>1. /\ UNCHANGED <<otp, codes, kcOrg, kcUser, organization, property, interest, became,
                     interrupted>>
      /\ DOMAIN signup = Request
      /\ \A q \in Request \ {r} : signup'[q] = signup[q]
      /\ DOMAIN signup' = Request
  BY DEF request_invite, SendLink, revoke, SgInv, Tables
<1>2. /\ \A a \in Alias, e \in Email : CanSignIn(a, e) => CanSignIn(a, e)'
      /\ Granted'
  BY <1>1 DEF SgInv, Granted, CanSignIn
<1>3. CodesOK'
  BY <1>0, <1>1, CodesKept DEF request_invite, SendLink, revoke, Idle
<1>4. ASSUME NEW e \in Email, request_invite(r, e)
      PROVE  SgInv'
  <2>1. PICK n \in 0..MaxInvite : Minted = 1..n
    BY <1>0 DEF Tables
  <2> DEFINE i == n + 1
             row == Pending(e)
  <2>2. i = Cardinality(Minted) + 1 /\ n # MaxInvite
    <3>1. Cardinality(1..n) = n
      BY <2>1, FS_Interval
    <3> QED BY <1>4, <2>1, <3>1 DEF request_invite, InviteId
  <2>3. i \in InviteId /\ i \notin Minted /\ n + 1 \in 0..MaxInvite
    BY <2>1, <2>2, SignupConstants DEF InviteId
  <2>4. row \in Invite /\ row.status = "pending" /\ row.org = NoOrg /\ row # NoRow
    BY DEF Pending, Invite, NoRow
  <2>5. invite' = [invite EXCEPT ![i] = row] /\ known' = known
    BY <1>4, <2>2 DEF request_invite
  <2>6. signup'[r].pc = "mail" /\ signup'[r].i = i /\ signup[r].pc = "idle"
    BY <1>1, <1>4, <2>2 DEF request_invite, Idle
  <2> HIDE DEF i, row
  <2>7. /\ invite' \in [InviteId -> Invite \cup {NoRow}]
        /\ invite'[i] = row
        /\ \A j \in InviteId \ {i} : invite'[j] = invite[j]
    BY <1>0, <2>3, <2>4, <2>5 DEF Tables
  <2>8. Minted' = Minted \cup {i}
    BY <2>3, <2>4, <2>7 DEF Minted
  <2>9. Minted' = 1..(n + 1)
    BY <2>1, <2>8 DEF i
  <2>10. Tables'
    BY <1>0, <1>1, <2>3, <2>5, <2>7, <2>8, <2>9 DEF Tables
  <2>11. RequestOK(r)'
    BY <1>0, <2>3, <2>4, <2>5, <2>6, <2>7, <2>8 DEF RequestOK, Holding, Tables
  <2>12. became[i] = {} /\ InviteOK(i)'
    BY <1>1, <2>3, <2>4, <2>6, <2>7 DEF SgInv, InviteOK, Minted
  <2>13. \A q \in Request : ~Owns(q, i)
    BY <2>3 DEF SgInv, RequestOK, Owns, Holding
  <2>14. \A j \in InviteId : ~Owns(r, j) /\ (Owns(r, j)' => j = i)
    BY <2>6 DEF Owns, Holding
  <2> DEFINE R == {r}
             I == {i}
  <2>15. R = {r} /\ I = {i} /\ I \in SUBSET InviteId
    BY <2>3
  <2> HIDE DEF R, I
  <2> QED BY <1>1, <1>2, <1>3, <2>3, <2>5, <2>7, <2>8, <2>10, <2>11, <2>12, <2>13, <2>14,
             <2>15, Frame
<1>5. CASE SendLink(r)
  <2>0. PICK i \in InviteId : i = signup[r].i
    BY <1>0, <1>5 DEF SendLink, RequestOK, Minted
  <2>1. i \in Minted /\ i \in InviteId /\ i \notin known /\ invite[i].status = "pending"
        /\ signup[r].pc = "mail"
    BY <1>0, <1>5, <2>0 DEF SendLink, RequestOK, Minted
  <2>2. invite' = invite /\ known' = known \cup {i} /\ signup'[r].pc = "idle"
    BY <1>1, <1>5, <2>0 DEF SendLink, Idle
  <2>3. Minted' = Minted /\ Tables'
    BY <1>0, <1>1, <2>1, <2>2 DEF Tables, Minted
  <2>4. RequestOK(r)'
    BY <2>2 DEF RequestOK, Holding
  <2>5. InviteOK(i)'
    BY <1>1, <2>1, <2>2 DEF SgInv, InviteOK
  <2>6. Owns(r, i) /\ \A j \in InviteId : Owns(r, j) \/ Owns(r, j)' => j = i
    BY <2>0, <2>1, <2>2 DEF Owns, Holding
  <2>7. \A q \in Request \ {r} : ~Owns(q, i)
    BY <2>1, <2>6 DEF SgInv, OneOwner
  <2> DEFINE R == {r}
             I == {i}
  <2>15. R = {r} /\ I = {i} /\ I \in SUBSET InviteId
    BY <2>1
  <2> HIDE DEF R, I
  <2> QED BY <1>1, <1>2, <1>3, <2>2, <2>3, <2>4, <2>5, <2>6, <2>7, <2>15, Frame
<1>6. CASE revoke(r)
  <2>0. PICK i \in InviteId : i = signup[r].i
    BY <1>0, <1>6 DEF revoke, RequestOK, Minted
  <2> DEFINE row == [invite[i] EXCEPT !.status = "revoked"]
  <2>1. i \in Minted /\ i \in InviteId /\ i \notin known /\ invite[i].status = "pending"
        /\ signup[r].pc = "mail"
    BY <1>0, <1>6, <2>0 DEF revoke, RequestOK, Minted
  <2>2. invite' = [invite EXCEPT ![i] = row] /\ known' = known /\ signup'[r].pc = "idle"
    BY <1>1, <1>6, <2>0 DEF revoke, Idle
  <2>3. invite[i] \in Invite
    BY <1>0, <2>1 DEF Tables, Minted
  <2>4. row \in Invite /\ row.status = "revoked" /\ row.org = invite[i].org
        /\ row.email = invite[i].email
    BY <2>3 DEF Invite
  <2> HIDE DEF row
  <2>5. /\ invite' \in [InviteId -> Invite \cup {NoRow}]
        /\ invite'[i] = row
        /\ \A j \in InviteId \ {i} : invite'[j] = invite[j]
        /\ Minted' = Minted
    BY <1>0, <2>1, <2>2, <2>4, RowsKept DEF Tables
  <2>6. Tables'
    BY <1>0, <1>1, <2>2, <2>5 DEF Tables
  <2>7. RequestOK(r)'
    BY <2>2 DEF RequestOK, Holding
  <2>8. InviteOK(i)'
    BY <1>1, <2>1, <2>2, <2>4, <2>5 DEF SgInv, InviteOK, Minted
  <2>9. Owns(r, i) /\ \A j \in InviteId : Owns(r, j) \/ Owns(r, j)' => j = i
    BY <2>0, <2>1, <2>2 DEF Owns, Holding
  <2>10. \A q \in Request \ {r} : ~Owns(q, i)
    BY <2>1, <2>9 DEF SgInv, OneOwner
  <2> DEFINE R == {r}
             I == {i}
  <2>15. R = {r} /\ I = {i} /\ I \in SUBSET InviteId
    BY <2>1
  <2> HIDE DEF R, I
  <2> QED BY <1>1, <1>2, <1>3, <2>2, <2>4, <2>5, <2>6, <2>7, <2>8, <2>9, <2>10, <2>15, Frame
<1> QED BY <1>4, <1>5, <1>6

(* Time passes for an invite or for a code. *)
LEMMA ExpiryStep ==
  ASSUME SgInv,
         (\E i \in Minted : InviteExpires(i)) \/ \E c \in otp : CodeExpires(c)
  PROVE  SgInv'
<1> USE DEF kcVars, dbVars
<1>0. Tables /\ CodesOK
  BY DEF SgInv
<1>1. ASSUME NEW i \in Minted, InviteExpires(i)
      PROVE  SgInv'
  <2> DEFINE row == [invite[i] EXCEPT !.live = FALSE]
  <2>1. i \in InviteId /\ i \in known /\ invite[i].status = "pending" /\ invite[i] \in Invite
    BY <1>0, <1>1 DEF InviteExpires, validate, Tables, Minted
  <2>2. /\ invite' = [invite EXCEPT ![i] = row]
        /\ UNCHANGED <<known, otp, codes, kcOrg, kcUser, organization, property, interest, signup,
                       became, interrupted>>
    BY <1>1 DEF InviteExpires
  <2>3. row \in Invite /\ row.status = "pending" /\ row.org = invite[i].org
        /\ row.email = invite[i].email
    BY <2>1 DEF Invite
  <2> HIDE DEF row
  <2>4. /\ invite' \in [InviteId -> Invite \cup {NoRow}]
        /\ invite'[i] = row
        /\ \A j \in InviteId \ {i} : invite'[j] = invite[j]
        /\ Minted' = Minted
    BY <1>0, <1>1, <2>1, <2>2, <2>3, RowsKept DEF Tables
  <2>5. Tables'
    BY <1>0, <2>2, <2>4 DEF Tables
  <2>6. /\ \A a \in Alias, e \in Email : CanSignIn(a, e) => CanSignIn(a, e)'
        /\ Granted'
    BY <2>2 DEF SgInv, Granted, CanSignIn
  <2>7. CodesOK'
    BY <1>0, <2>2, CodesKept
  <2>8. InviteOK(i)'
    BY <1>1, <2>1, <2>2, <2>3, <2>4 DEF SgInv, InviteOK, Minted
  <2>9. \A q \in Request : ~Owns(q, i)
    BY <2>1 DEF SgInv, RequestOK, Owns, Holding
  <2> DEFINE R == {}
             I == {i}
  <2>10. R = {} /\ I = {i} /\ I \in SUBSET InviteId
    BY <2>1
  <2> HIDE DEF R, I
  <2> QED BY <2>2, <2>3, <2>4, <2>5, <2>6, <2>7, <2>8, <2>9, <2>10, Frame
<1>2. ASSUME NEW c \in otp, CodeExpires(c)
      PROVE  SgInv'
  <2> DEFINE d == [c EXCEPT !.live = FALSE]
  <2>1. /\ UNCHANGED <<invite, known, codes, kcOrg, kcUser, organization, property, interest,
                       signup, became, interrupted>>
        /\ otp' = (otp \ {c}) \cup {d}
    BY <1>2 DEF CodeExpires
  <2>2. DOMAIN d = DOMAIN c /\ d.code = c.code /\ d.attempts = c.attempts
    BY <1>0 DEF CodesOK
  <2> HIDE DEF d
  <2>3. CodesOK'
    BY <1>0, <2>1, <2>2 DEF CodesOK
  <2>4. Tables' /\ Granted' /\ OneOwner'
    BY <2>1 DEF SgInv, Tables, Minted, Granted, CanSignIn, OneOwner, Owns
  <2>5. /\ \A r \in Request : RequestOK(r)'
        /\ \A i \in InviteId : InviteOK(i)'
    BY <2>1, SMTT(30) DEF SgInv, RequestOK, InviteOK, CanSignIn, InviteEmail, Minted
  <2> QED BY <2>3, <2>4, <2>5 DEF SgInv
<1> QED BY <1>1, <1>2

(* The UPDATE ... WHERE: one request gets the invite, the others go home. *)
LEMMA ClaimStep ==
  ASSUME SgInv, NEW r \in Request, claim(r)
  PROVE  SgInv'
<1> USE DEF Goes, GoesTo, At, kcVars, dbVars
<1>0. Tables /\ CodesOK /\ RequestOK(r) /\ signup[r].pc = "claim"
  BY DEF SgInv, claim
<1>1. /\ UNCHANGED <<known, codes, kcOrg, kcUser, organization, property, interest, became,
                     interrupted>>
      /\ otp' \subseteq otp
      /\ DOMAIN signup = Request
      /\ \A q \in Request \ {r} : signup'[q] = signup[q]
      /\ DOMAIN signup' = Request
  BY DEF claim, SgInv, Tables
<1>2. /\ \A a \in Alias, e \in Email : CanSignIn(a, e) => CanSignIn(a, e)'
      /\ Granted'
  BY <1>1 DEF SgInv, Granted, CanSignIn
<1>3. PICK i \in InviteId : i = signup[r].i
  BY <1>0 DEF RequestOK, Minted
<1>4. i \in Minted /\ i \in known /\ invite[i] \in Invite
  BY <1>0, <1>3 DEF RequestOK, Minted, Tables, Holding
<1>5. signup'[r].pc \in {"idle", "keycloak"}
  BY <1>0, <1>1 DEF claim, RequestOK, Idle
<1>6. CodesOK'
  BY <1>0, <1>1, <1>5 DEF CodesOK
<1>7. \A j \in InviteId : ~Owns(r, j)
  BY <1>0 DEF Owns, Holding
<1>8. CASE Wins(i)
  <2> DEFINE row == [invite[i] EXCEPT !.status = "consumed"]
  <2>1. invite' = [invite EXCEPT ![i] = row] /\ signup' = [signup EXCEPT ![r].pc = "keycloak"]
    BY <1>3, <1>8 DEF claim
  <2>2. row \in Invite /\ row.status = "consumed" /\ row.org = invite[i].org
        /\ row.email = invite[i].email
    BY <1>4 DEF Invite
  <2> HIDE DEF row
  <2>3. /\ invite' \in [InviteId -> Invite \cup {NoRow}]
        /\ invite'[i] = row
        /\ \A j \in InviteId \ {i} : invite'[j] = invite[j]
        /\ Minted' = Minted
    BY <1>0, <1>4, <2>1, <2>2, RowsKept DEF Tables
  <2>4. Tables'
    BY <1>0, <1>1, <2>3 DEF Tables
  <2>5. /\ signup'[r].pc = "keycloak" /\ signup'[r].i = i /\ signup'[r].alias = signup[r].alias
        /\ DOMAIN signup'[r] = DOMAIN signup[r]
    BY <1>0, <1>1, <1>3, <2>1 DEF RequestOK
  <2>6. i \notin interrupted => became[i] = {} /\ invite[i].org = NoOrg
    BY <1>4, <1>8 DEF Wins, SgInv, InviteOK, Minted
  <2>7. RequestOK(r)'
    BY <1>0, <1>1, <1>4, <2>2, <2>3, <2>5, <2>6 DEF RequestOK, Holding
  <2>8. InviteOK(i)'
    BY <1>1, <1>4, <2>2, <2>3, <2>5 DEF InviteOK, Holding, Invite, NoRow
  <2>9. \A q \in Request : ~Owns(q, i)
    BY <1>4, <1>8 DEF SgInv, RequestOK, Owns, Holding, Wins
  <2>10. \A j \in InviteId : Owns(r, j)' => j = i
    BY <2>5 DEF Owns
  <2> DEFINE R == {r}
             I == {i}
  <2>11. R = {r} /\ I = {i} /\ I \in SUBSET InviteId
    OBVIOUS
  <2> HIDE DEF R, I
  <2> QED BY <1>1, <1>2, <1>6, <1>7, <2>2, <2>3, <2>4, <2>7, <2>8, <2>9, <2>10, <2>11, Frame
<1>9. CASE ~Wins(i)
  <2>1. invite' = invite /\ signup'[r].pc = "idle"
    BY <1>1, <1>3, <1>9 DEF claim, Idle
  <2>2. Tables' /\ Minted' = Minted
    BY <1>0, <1>1, <2>1 DEF Tables, Minted
  <2>3. RequestOK(r)' /\ \A j \in InviteId : ~Owns(r, j)'
    BY <2>1 DEF RequestOK, Holding, Owns
  <2> DEFINE R == {r}
             I == {}
  <2>4. R = {r} /\ I = {}
    OBVIOUS
  <2> HIDE DEF R, I
  <2> QED BY <1>1, <1>2, <1>6, <1>7, <2>1, <2>2, <2>3, <2>4, Frame
<1> QED BY <1>8, <1>9

(* A request that holds an invite is alone with it. *)
LEMMA Holder ==
  ASSUME SgInv, NEW r \in Request, signup[r].pc \in Holding
  PROVE  \E i \in InviteId :
            /\ i = signup[r].i
            /\ i \in Minted /\ i \in known /\ invite[i] \in Invite
            /\ Owns(r, i)
            /\ \A j \in InviteId : Owns(r, j) => j = i
            /\ \A q \in Request \ {r} : ~Owns(q, i)
<1>1. RequestOK(r)
  BY DEF SgInv
<1>2. PICK i \in InviteId : i = signup[r].i
  BY <1>1 DEF RequestOK, Minted, Holding
<1>3. i \in Minted /\ i \in known /\ invite[i] \in Invite
  BY <1>1, <1>2 DEF SgInv, Tables, RequestOK, Minted
<1>4. Owns(r, i) /\ \A j \in InviteId : Owns(r, j) => j = i
  BY <1>2 DEF Owns
<1>5. \A q \in Request \ {r} : ~Owns(q, i)
  BY <1>4 DEF SgInv, OneOwner
<1> QED BY <1>2, <1>3, <1>4, <1>5

(* The calls to Keycloak only add: whoever could sign in still can, and     *)
(* when all five got through the invited address can.                       *)
LEMMA KeycloakAdds ==
  ASSUME SgInv, NEW e \in Email, NEW a \in Alias, NEW n \in 0..KcCalls,
         kcOrg' = IF n = 0 THEN kcOrg
                  ELSE [b \in DOMAIN kcOrg \cup {a} |->
                           IF b = a THEN MembersAfter(e, a, n) ELSE kcOrg[b]],
         kcUser' = IF n < 2 THEN kcUser ELSE [kcUser EXCEPT ![e] = AccountAfter(e, a, n)]
  PROVE  /\ \A b, f : f \in Email /\ CanSignIn(b, f) => CanSignIn(b, f)'
         /\ n = KcCalls => CanSignIn(a, e)'
         /\ DOMAIN kcOrg \subseteq DOMAIN kcOrg'
         /\ DOMAIN kcUser' = Email
         /\ \A f \in Email : kcUser'[f] # NoUser => DOMAIN kcUser'[f] = AccountFields
<1> DEFINE old == Adopted(e, a)
           new == AccountAfter(e, a, n)
<1>1. /\ DOMAIN kcUser = Email
      /\ \A f \in Email : kcUser[f] # NoUser => DOMAIN kcUser[f] = AccountFields
  BY DEF SgInv, Tables
<1>2. DOMAIN old = AccountFields /\ (kcUser[e] # NoUser => old = kcUser[e])
  BY <1>1 DEF Adopted, AccountFields
<1>3. DOMAIN new = AccountFields
  BY <1>2 DEF AccountAfter
<1>4. (old.operator => new.operator) /\ (n >= 3 => new.operator)
  BY <1>2 DEF AccountAfter, AccountFields
<1>5. (old.password => new.password) /\ (n >= 5 => new.password)
  BY <1>2 DEF AccountAfter, AccountFields
<1>6. DOMAIN NoUser # AccountFields
  BY DEF NoUser, AccountFields
<1> HIDE DEF old, new
<1>7. /\ DOMAIN kcUser' = Email
      /\ \A f \in Email : f # e => kcUser'[f] = kcUser[f]
      /\ n >= 2 => kcUser'[e] = new
      /\ n < 2 => kcUser' = kcUser
  BY <1>1 DEF new, KcCalls
<1>8. /\ DOMAIN kcOrg \subseteq DOMAIN kcOrg'
      /\ \A b \in DOMAIN kcOrg : kcOrg[b] \subseteq kcOrg'[b]
      /\ n >= 4 => a \in DOMAIN kcOrg' /\ e \in kcOrg'[a]
  BY DEF MembersAfter, KcCalls
<1>9. ASSUME NEW b, NEW f, f \in Email, CanSignIn(b, f)
      PROVE  CanSignIn(b, f)'
  <2>1. b \in DOMAIN kcOrg' /\ f \in kcOrg'[b]
    BY <1>8, <1>9 DEF CanSignIn
  <2>2. CASE f # e \/ n < 2
    BY <1>7, <1>9, <2>1, <2>2 DEF CanSignIn
  <2>3. CASE f = e /\ n >= 2
    <3>1. kcUser[e] # NoUser
      BY <1>6, <1>9, <2>3 DEF CanSignIn
    <3>2. old.operator /\ old.password
      BY <1>2, <1>9, <2>3, <3>1 DEF CanSignIn
    <3> QED BY <1>3, <1>4, <1>5, <1>7, <2>1, <2>3, <3>2 DEF CanSignIn
  <2> QED BY <2>2, <2>3 DEF KcCalls
<1>10. n = KcCalls => CanSignIn(a, e)'
  BY <1>3, <1>4, <1>5, <1>7, <1>8 DEF CanSignIn, KcCalls
<1>11. \A f \in Email : kcUser'[f] # NoUser => DOMAIN kcUser'[f] = AccountFields
  BY <1>1, <1>3, <1>7 DEF KcCalls
<1> QED BY <1>7, <1>8, <1>9, <1>10, <1>11

(* The saga's calls and commits. *)
LEMMA SagaStep ==
  ASSUME SgInv, NEW r \in Request,
         \/ \E n \in 0..KcCalls : Keycloak(r, n)
         \/ \E answered \in BOOLEAN : ProvisionRows(r, answered)
         \/ RowsFail(r)
         \/ \E s \in BOOLEAN : FirstProperty(r, s)
  PROVE  SgInv'
<1> USE DEF Goes, GoesTo, At, kcVars, dbVars
<1>0. Tables /\ CodesOK /\ RequestOK(r) /\ signup[r].pc \in {"keycloak", "rows", "first"}
  BY DEF SgInv, Keycloak, ProvisionRows, RowsFail, FirstProperty
<1>1. PICK i \in InviteId :
            /\ i = signup[r].i
            /\ i \in Minted /\ i \in known /\ invite[i] \in Invite
            /\ Owns(r, i)
            /\ \A j \in InviteId : Owns(r, j) => j = i
            /\ \A q \in Request \ {r} : ~Owns(q, i)
  BY <1>0, Holder DEF Holding
<1> DEFINE a == signup[r].alias
           e == invite[i].email
<1>2. a \in Alias /\ e \in Email /\ InviteEmail(r) = e
  BY <1>0, <1>1 DEF RequestOK, InviteEmail, Invite, Holding
<1>3. /\ UNCHANGED <<invite, known, otp, codes>>
      /\ DOMAIN signup = Request
      /\ \A q \in Request \ {r} : signup'[q] = signup[q]
      /\ DOMAIN signup' = Request
      /\ Minted' = Minted
      /\ interrupted \subseteq interrupted'
  BY <1>0 DEF Keycloak, ProvisionRows, RowsFail, FirstProperty, Tables, Minted
<1>4. /\ signup'[r].pc \in {"rows", "revert", "first", "mark"}
      /\ signup'[r].i = i /\ signup'[r].alias = a
      /\ DOMAIN signup'[r] = DOMAIN signup[r]
  BY <1>0, <1>1, <1>3 DEF RequestOK, Holding, Keycloak, ProvisionRows, RowsFail, FirstProperty
<1>5. CodesOK'
  BY <1>0, <1>3, <1>4, CodesKept
<1>6. /\ \A j \in InviteId : Owns(r, j)' => j = i
      /\ invite[i] # NoRow
      /\ invite[i].status = "consumed"
  BY <1>0, <1>1, <1>4 DEF Owns, Minted, RequestOK, Holding
<1>7. InviteOK(i)'
  BY <1>1, <1>3, <1>4, <1>6 DEF InviteOK, Holding
<1>8. ASSUME Tables', Granted',
             \A b \in Alias, f \in Email : CanSignIn(b, f) => CanSignIn(b, f)',
             DOMAIN organization \subseteq DOMAIN organization',
             \A j \in InviteId \ {i} : became'[j] = became[j],
             i \notin interrupted' =>
                became'[i] = IF signup'[r].pc \in {"first", "mark"} THEN {a} ELSE {},
             signup'[r].pc = "rows" =>
                /\ a \in DOMAIN kcOrg' /\ e \in kcOrg'[a] /\ DOMAIN kcUser'[e] = AccountFields
                /\ kcUser'[e].operator /\ kcUser'[e].password,
             signup'[r].pc \in {"first", "mark"} => a \in DOMAIN organization'
      PROVE  SgInv'
  <2>1. i \notin interrupted => invite[i].org = NoOrg
    BY <1>0, <1>1 DEF RequestOK, Holding
  <2>2. signup'[r].pc = "rows" => CanSignIn(signup[r].alias, InviteEmail(r))'
    BY <1>3, <1>4, <1>8 DEF CanSignIn, InviteEmail
  <2>3. RequestOK(r)'
    BY <1>0, <1>1, <1>2, <1>3, <1>4, <1>6, <1>8, <2>1, <2>2 DEF RequestOK, Holding
  <2> DEFINE R == {r}
             I == {i}
  <2>4. R = {r} /\ I = {i} /\ I \in SUBSET InviteId
    OBVIOUS
  <2> HIDE DEF R, I, a, e
  <2> QED BY <1>1, <1>3, <1>5, <1>6, <1>7, <1>8, <2>3, <2>4, Frame
<1>9. i \notin interrupted => became[i] = IF signup[r].pc = "first" THEN {a} ELSE {}
  BY <1>0, <1>1 DEF RequestOK, Holding
<1>10. ASSUME NEW n \in 0..KcCalls, Keycloak(r, n)
       PROVE  SgInv'
  <2>1. /\ kcOrg' = IF n = 0 THEN kcOrg
                    ELSE [b \in DOMAIN kcOrg \cup {a} |->
                             IF b = a THEN MembersAfter(e, a, n) ELSE kcOrg[b]]
        /\ kcUser' = IF n < 2 THEN kcUser ELSE [kcUser EXCEPT ![e] = AccountAfter(e, a, n)]
        /\ UNCHANGED <<organization, property, interest, became, interrupted>>
        /\ signup[r].pc = "keycloak"
        /\ signup'[r].pc = IF n = KcCalls THEN "rows" ELSE "revert"
    BY <1>0, <1>2, <1>3, <1>10 DEF Keycloak, RequestOK, Holding
  <2>2. PICK x \in Alias, y \in Email : x = a /\ y = e
    BY <1>2
  <2>3. /\ \A b, f : f \in Email /\ CanSignIn(b, f) => CanSignIn(b, f)'
        /\ n = KcCalls => CanSignIn(x, y)'
        /\ DOMAIN kcOrg \subseteq DOMAIN kcOrg'
        /\ DOMAIN kcUser' = Email
        /\ \A f \in Email : kcUser'[f] # NoUser => DOMAIN kcUser'[f] = AccountFields
    <3> HIDE DEF a, e
    <3> QED BY <2>1, <2>2, KeycloakAdds
  <2>4. Tables'
    BY <1>0, <1>3, <2>1, <2>3 DEF Tables
  <2>5. Granted'
    BY <2>1, <2>3 DEF SgInv, Granted
  <2>6. signup'[r].pc = "rows" =>
                /\ a \in DOMAIN kcOrg' /\ e \in kcOrg'[a] /\ DOMAIN kcUser'[e] = AccountFields
                /\ kcUser'[e].operator /\ kcUser'[e].password
    BY <2>1, <2>2, <2>3 DEF CanSignIn
  <2> QED BY <1>8, <1>9, <2>1, <2>3, <2>4, <2>5, <2>6
<1>11. ASSUME UNCHANGED <<kcOrg, kcUser>>
       PROVE  \A b, f : CanSignIn(b, f) <=> CanSignIn(b, f)'
  BY <1>11 DEF CanSignIn
<1>12. ASSUME NEW answered \in BOOLEAN, ProvisionRows(r, answered)
       PROVE  SgInv'
  <2> DEFINE had == IF a \in DOMAIN organization THEN organization[a] ELSE {}
  <2>1. /\ organization' = [b \in DOMAIN organization \cup {a} |->
                              IF b = a THEN had \cup {e} ELSE organization[b]]
        /\ became' = [became EXCEPT ![i] = @ \cup {a}]
        /\ interrupted' = IF answered THEN interrupted ELSE interrupted \cup {i}
        /\ UNCHANGED <<kcOrg, kcUser, property, interest>>
        /\ signup[r].pc = "rows"
        /\ signup'[r].pc = IF answered THEN "first" ELSE "revert"
    BY <1>0, <1>1, <1>2, <1>3, <1>12 DEF ProvisionRows, RequestOK, Holding
  <2>2. PICK x \in Alias, y \in Email : x = a /\ y = e
    BY <1>2
  <2>3. CanSignIn(x, y)
    BY <1>0, <1>2, <2>1, <2>2 DEF RequestOK
  <2>4. DOMAIN organization' = DOMAIN organization \cup {a}
    BY <2>1
  <2>5. Tables'
    <3>1. a \in DOMAIN kcOrg
      BY <2>2, <2>3 DEF CanSignIn
    <3>2. DOMAIN became' = InviteId
      BY <1>0, <2>1 DEF Tables
    <3> HIDE DEF a, e, had
    <3> QED BY <1>0, <1>3, <2>1, <2>4, <3>1, <3>2 DEF Tables
  <2>6. Granted'
    <3> SUFFICES ASSUME NEW b \in DOMAIN organization', NEW f \in organization'[b]
                 PROVE  f \in Email /\ CanSignIn(b, f)
      BY <1>11, <2>1 DEF Granted
    <3>1. CASE b = x /\ f = y
      BY <2>3, <3>1
    <3>2. CASE ~(b = x /\ f = y)
      <4>1. b \in DOMAIN organization /\ f \in organization[b]
        BY <2>1, <2>2, <3>2
      <4> QED BY <4>1 DEF SgInv, Granted
    <3> QED BY <3>1, <3>2
  <2>7. /\ \A j \in InviteId \ {i} : became'[j] = became[j]
        /\ became'[i] = became[i] \cup {a}
    BY <1>0, <1>1, <2>1 DEF Tables
  <2>8. i \notin interrupted' =>
                became'[i] = IF signup'[r].pc \in {"first", "mark"} THEN {a} ELSE {}
    BY <1>9, <2>1, <2>7
  <2> QED BY <1>8, <1>11, <2>1, <2>4, <2>5, <2>6, <2>7, <2>8
<1>13. CASE RowsFail(r)
  <2>1. /\ UNCHANGED <<kcOrg, kcUser, organization, property, interest, became, interrupted>>
        /\ signup[r].pc = "rows"
        /\ signup'[r].pc = "revert"
    BY <1>0, <1>3, <1>13 DEF RowsFail, RequestOK, Holding
  <2>2. Tables' /\ Granted'
    BY <1>0, <1>3, <1>11, <2>1 DEF SgInv, Tables, Granted
  <2> QED BY <1>8, <1>9, <1>11, <2>1, <2>2
<1>14. ASSUME NEW s \in BOOLEAN, FirstProperty(r, s)
       PROVE  SgInv'
  <2>1. /\ UNCHANGED <<kcOrg, kcUser, organization, became, interrupted>>
        /\ property' \cup interest' \subseteq property \cup interest \cup {a}
        /\ signup[r].pc = "first"
        /\ signup'[r].pc = "mark"
    BY <1>0, <1>3, <1>14 DEF FirstProperty, RequestOK, Holding
  <2>2. a \in DOMAIN organization
    BY <1>0, <2>1 DEF RequestOK
  <2>3. Tables' /\ Granted'
    <3> HIDE DEF a
    <3> QED BY <1>0, <1>3, <1>11, <2>1, <2>2 DEF SgInv, Tables, Granted
  <2> QED BY <1>8, <1>9, <1>11, <2>1, <2>2, <2>3
<1> QED BY <1>10, <1>12, <1>13, <1>14

(* How a request ends: the claim taken back, the tenant noted on the       *)
(* invite, or the process gone.                                            *)
LEMMA EndStep ==
  ASSUME SgInv, NEW r \in Request,
         revert_claim(r) \/ mark_consumed_org(r) \/ Dies(r)
  PROVE  SgInv'
<1> USE DEF Goes, At, kcVars, dbVars
<1>0. Tables /\ CodesOK /\ RequestOK(r)
  BY DEF SgInv
<1>1. /\ UNCHANGED <<known, otp, codes, kcOrg, kcUser, organization, property, interest, became>>
      /\ DOMAIN signup = Request
      /\ \A q \in Request \ {r} : signup'[q] = signup[q]
      /\ DOMAIN signup' = Request
      /\ signup'[r].pc = "idle"
      /\ interrupted \subseteq interrupted'
  BY <1>0 DEF revert_claim, mark_consumed_org, Dies, Tables, Idle
<1>2. /\ \A a \in Alias, e \in Email : CanSignIn(a, e) => CanSignIn(a, e)'
      /\ Granted'
  BY <1>1 DEF SgInv, Granted, CanSignIn
<1>3. CodesOK'
  BY <1>0, <1>1, CodesKept
<1>4. RequestOK(r)' /\ \A j \in InviteId : ~Owns(r, j)'
  BY <1>1 DEF RequestOK, Holding, Owns
<1>5. ASSUME NEW i \in InviteId, i \in Minted, i = signup[r].i, Owns(r, i), i \in known,
             NEW row \in Invite, invite' = [invite EXCEPT ![i] = row],
             row.email = invite[i].email,
             i \notin interrupted' => /\ row.status # "consumed" => became[i] = {} /\ row.org = NoOrg
                                      /\ row.status = "consumed" => became[i] = {row.org}
      PROVE  SgInv'
  <2>1. \A q \in Request \ {r} : ~Owns(q, i)
    BY <1>5 DEF SgInv, OneOwner
  <2>2. \A j \in InviteId : Owns(r, j) => j = i
    BY <1>5 DEF Owns
  <2>3. /\ invite' \in [InviteId -> Invite \cup {NoRow}]
        /\ invite'[i] = row
        /\ \A j \in InviteId \ {i} : invite'[j] = invite[j]
        /\ Minted' = Minted
    BY <1>0, <1>5, RowsKept DEF Tables
  <2>4. Tables'
    BY <1>0, <1>1, <2>3 DEF Tables
  <2>5. InviteOK(i)'
    BY <1>1, <1>5, <2>3 DEF InviteOK, Invite, NoRow
  <2> DEFINE R == {r}
             I == {i}
  <2>6. R = {r} /\ I = {i} /\ I \in SUBSET InviteId
    OBVIOUS
  <2> HIDE DEF R, I
  <2> QED BY <1>1, <1>2, <1>3, <1>4, <1>5, <2>1, <2>2, <2>3, <2>4, <2>5, <2>6, Frame
<1>6. CASE revert_claim(r) \/ mark_consumed_org(r)
  <2>1. signup[r].pc \in {"revert", "mark"}
    BY <1>6 DEF revert_claim, mark_consumed_org
  <2>2. PICK i \in InviteId :
            /\ i = signup[r].i
            /\ i \in Minted /\ i \in known /\ invite[i] \in Invite
            /\ Owns(r, i)
            /\ \A j \in InviteId : Owns(r, j) => j = i
            /\ \A q \in Request \ {r} : ~Owns(q, i)
    BY <2>1, Holder DEF Holding
  <2>3. /\ i \notin interrupted =>
             invite[i].org = NoOrg
               /\ became[i] = IF signup[r].pc = "mark" THEN {signup[r].alias} ELSE {}
        /\ invite[i].status = "consumed"
        /\ signup[r].alias \in Alias
    BY <1>0, <2>1, <2>2 DEF RequestOK, Holding
  <2>4. CASE mark_consumed_org(r)
    <3> DEFINE row == [invite[i] EXCEPT !.org = signup[r].alias]
    <3>1. /\ invite' = [invite EXCEPT ![i] = row] /\ interrupted' = interrupted
          /\ signup[r].pc = "mark"
      BY <2>2, <2>4 DEF mark_consumed_org
    <3>2. row \in Invite /\ row.email = invite[i].email /\ row.status = "consumed"
          /\ row.org = signup[r].alias
      BY <2>2, <2>3 DEF Invite
    <3> HIDE DEF row
    <3> QED BY <1>5, <2>2, <2>3, <3>1, <3>2
  <2>5. CASE revert_claim(r) /\ invite[i].org = NoOrg
    <3> DEFINE row == [invite[i] EXCEPT !.status = "pending"]
    <3>1. /\ invite' = [invite EXCEPT ![i] = row] /\ interrupted' = interrupted
          /\ signup[r].pc = "revert"
      BY <2>2, <2>3, <2>5 DEF revert_claim
    <3>2. row \in Invite /\ row.email = invite[i].email /\ row.status = "pending"
          /\ row.org = invite[i].org
      BY <2>2 DEF Invite
    <3> HIDE DEF row
    <3> QED BY <1>5, <2>2, <2>3, <3>1, <3>2
  <2>6. CASE revert_claim(r) /\ invite[i].org # NoOrg
    <3>1. invite' = invite /\ interrupted' = interrupted /\ i \in interrupted
      BY <2>2, <2>3, <2>6 DEF revert_claim
    <3>2. invite' = [invite EXCEPT ![i] = invite[i]]
      BY <1>0, <3>1 DEF Tables
    <3> QED BY <1>5, <2>2, <3>1, <3>2
  <2> QED BY <1>6, <2>4, <2>5, <2>6
<1>7. CASE Dies(r)
  <2>1. invite' = invite /\ interrupted' = interrupted \cup {signup[r].i}
    BY <1>7 DEF Dies
  <2>2. Tables' /\ Minted' = Minted
    BY <1>0, <1>1, <2>1 DEF Tables, Minted
  <2>3. CASE \E i \in InviteId : Owns(r, i)
    <3>1. PICK i \in InviteId : Owns(r, i)
      BY <2>3
    <3>2. /\ \A q \in Request \ {r} : ~Owns(q, i)
          /\ \A j \in InviteId : Owns(r, j) => j = i
          /\ i \in interrupted' /\ i \in Minted
      BY <1>0, <2>1, <3>1 DEF SgInv, OneOwner, Owns, RequestOK, Holding
    <3>3. InviteOK(i)'
      BY <2>1, <3>2 DEF InviteOK, Minted
    <3> DEFINE R == {r}
               I == {i}
    <3>4. R = {r} /\ I = {i} /\ I \in SUBSET InviteId
      OBVIOUS
    <3> HIDE DEF R, I
    <3> QED BY <1>1, <1>2, <1>3, <1>4, <2>1, <2>2, <3>2, <3>3, <3>4, Frame
  <2>4. CASE ~\E i \in InviteId : Owns(r, i)
    <3> DEFINE R == {r}
               I == {}
    <3>1. R = {r} /\ I = {}
      OBVIOUS
    <3> HIDE DEF R, I
    <3> QED BY <1>1, <1>2, <1>3, <1>4, <2>1, <2>2, <2>4, <3>1, Frame
  <2> QED BY <2>3, <2>4
<1> QED BY <1>6, <1>7

(* Every step keeps the invariant. *)
LEMMA SgInvStep == ASSUME SgInv, [SgNext]_sgVars PROVE SgInv'
<1>1. CASE SgNext
  BY <1>1, QuietStep, InviteStep, ExpiryStep, ClaimStep, SagaStep, EndStep DEF SgNext
<1>2. CASE UNCHANGED sgVars
  <2>1. UNCHANGED <<invite, known, otp, codes, kcOrg, kcUser, organization, property, interest,
                    signup, became, interrupted>>
    BY <1>2 DEF sgVars
  <2>2. Tables' /\ Granted' /\ CodesOK' /\ OneOwner'
    BY <2>1 DEF SgInv, Tables, Minted, Granted, CanSignIn, CodesOK, OneOwner, Owns
  <2>3. \A r \in Request : RequestOK(r)'
    BY <2>1 DEF SgInv, RequestOK, CanSignIn, InviteEmail, Minted
  <2>4. \A i \in InviteId : InviteOK(i)'
    BY <2>1 DEF SgInv, InviteOK
  <2> QED BY <2>2, <2>3, <2>4 DEF SgInv
<1> QED BY <1>1, <1>2

(* SignupSafe (signup_api.complete, invites.claim, provision_tenant): one   *)
(* tenant per invite, a spent invite accounted for, an administrator who    *)
(* can sign in, no undelivered invite left pending; for any number of       *)
(* concurrent requests, addresses, aliases, invites and codes, and for a    *)
(* request that dies between any two of its commits.                        *)
THEOREM SignupIsSafe == SgSpec => []SignupSafe
<1>1. SgInit => SgInv
  BY SgInitInv
<1>2. SgInv /\ [SgNext]_sgVars => SgInv'
  BY SgInvStep
<1>3. SgInv => SignupSafe
  BY SgInvSafe
<1> QED BY <1>1, <1>2, <1>3, PTL DEF SgSpec

-----------------------------------------------------------------------------
(* Mail intake *)

AddressRow == [property : Hotel, revoked : BOOLEAN, senders : Policies]

(* Addresses are numbered as they are minted, one of a property live. *)
AddressesOK ==
    /\ DOMAIN address = AddressId
    /\ \E n \in 0..MaxAddress : Rows = 1..n
    /\ \A a \in Rows : address[a] \in AddressRow
    /\ \A p \in Hotel : (\E a \in Rows : address[a].property = p) => \E b : Live(p) = {b}

Sent(m) == mail[m] # NotSent
Known(m) == Sent(m) /\ mail[m].to \in Rows /\ mail[m].letter \in Letter

MailsOK ==
    /\ DOMAIN mail = Mail
    /\ \A m \in Mail : Sent(m) => /\ DOMAIN mail[m] = {"letter", "to", "again"}
                                  /\ mail[m].to = Nobody \/ Known(m)
    /\ mailbox \subseteq {m \in Mail : Sent(m)}
    /\ \A b \in batch : /\ b = [doc |-> b.doc, status |-> b.status]
                         /\ b.status \in {"transformed", "failed"}

Ingested(doc) == [doc |-> doc, status |-> "transformed"]
Entries == {"ingested", "failed", "duplicate", "wrong_property", "not_a_night_audit_report"}

(* An attachment that was disposed of, beside what was in when it arrived. *)
EntryOK(e, doc, held) ==
    /\ e \in Entries
    /\ e \in {"ingested", "duplicate"} => Ingested(doc) \in batch
    /\ doc \in held /\ ~doc.large => e = "duplicate"

EntriesOK(entries, docs, held) ==
    /\ entries \in Seq(Entries)
    /\ Len(entries) <= Len(docs) /\ Len(entries) <= MaxAttachments
    /\ \A i \in 1..Len(entries) : EntryOK(entries[i], docs[i], held)

(* The attachment at the gate was judged, and was not in when it arrived. *)
JudgedOK(doc, p, held) ==
    /\ validate_document(doc, p) \in {"passed", "unreadable"}
    /\ ~doc.large /\ doc \notin held

(* A request between its steps. *)
Carrying == {"arrived", "attachments", "gate", "record"}
PostOK(t) ==
    /\ t.pc \in {"idle", "rotate", "senders"} \cup Carrying
    /\ t.pc = "idle" <=> t = Idle
    /\ t.pc \in {"rotate", "senders"} => DOMAIN t = {"pc", "row"} /\ t.row \in Rows
    /\ t.pc \in Carrying => "m" \in DOMAIN t /\ t.m \in Mail /\ Sent(t.m)
    /\ t.pc = "record" =>
         Known(t.m) /\ t.outcome \in {"revoked_address", "sender_rejected", "no_attachment"}
    /\ t.pc \in {"attachments", "gate"} =>
         /\ DOMAIN t = {"pc", "m", "entries", "held"} /\ Known(t.m)
         /\ \A doc \in t.held : Ingested(doc) \in batch
         /\ EntriesOK(t.entries, mail[t.m].letter.docs, t.held)
    /\ t.pc = "gate" =>
         /\ Len(t.entries) < Len(mail[t.m].letter.docs) /\ Len(t.entries) < MaxAttachments
         /\ JudgedOK(mail[t.m].letter.docs[Len(t.entries) + 1], address[mail[t.m].to].property, t.held)

PostsOK == DOMAIN post = Delivery /\ \A d \in Delivery : \A t \in {post[d]} : PostOK(t)

EventOK(m, e) ==
    LET docs == mail[m].letter.docs
    IN  /\ e.outcome \in IntakeOutcomes /\ Known(m)
        /\ \A i \in DOMAIN e.entries :
             /\ e.entries[i] \in {"ingested", "duplicate"} => Ingested(docs[i]) \in batch
             /\ e.entries[i] = "failed" => e.outcome \in {"partial", "failed"}
             /\ i <= Len(docs) /\ i <= MaxAttachments /\ docs[i] \in e.held /\ ~docs[i].large
                  => e.entries[i] = "duplicate"
        /\ e.outcome = "ingested" => Len(e.entries) = Len(docs)

EventsOK == DOMAIN event = Mail /\ \A m \in Mail : \A e \in event[m] : EventOK(m, e)

InInv == AddressesOK /\ MailsOK /\ PostsOK /\ EventsOK /\ MailIsAccounted /\ LandedWasAsked

(* It holds before the first address is minted. *)
LEMMA InInitInv == ASSUME InInit PROVE InInv
<1> USE IntakeConstants DEF InInit
<1>1. Rows = {} /\ Rows = 1..0
  BY DEF Rows
<1>2. AddressesOK
  BY <1>1 DEF AddressesOK
<1>3. \A m \in Mail : ~Sent(m)
  BY DEF Sent
<1>4. MailsOK
  BY <1>3 DEF MailsOK
<1>5. PostsOK
  BY DEF PostsOK, PostOK, Idle, Carrying
<1>6. EventsOK /\ MailIsAccounted /\ LandedWasAsked
  BY DEF EventsOK, MailIsAccounted, LandedWasAsked
<1> QED BY <1>2, <1>4, <1>5, <1>6 DEF InInv

(* The invariant has the four properties in it. *)
LEMMA InInvSafe == ASSUME InInv PROVE IntakeSafe
<1> USE DEF InInv
<1>1. InTypeOK
  <2>1. \A a \in Rows : address[a].property \in Hotel /\ address[a].senders \in Policies
    BY DEF AddressesOK, AddressRow
  <2>2. mailbox \subseteq {m \in Mail : mail[m] # NotSent}
    BY DEF MailsOK, Sent
  <2>3. \A b \in batch : b.status \in {"transformed", "failed"}
    BY DEF MailsOK
  <2>4. \A m \in Mail : \A e \in event[m] : e.outcome \in IntakeOutcomes
    BY DEF EventsOK, EventOK
  <2> QED BY <2>1, <2>2, <2>3, <2>4 DEF InTypeOK
<1>2. OutcomeIsTrue
  BY DEF EventsOK, EventOK, OutcomeIsTrue, Ingested
<1>3. ExactlyOneLiveAddress
  <2> SUFFICES ASSUME NEW p \in Hotel, \E a \in Rows : address[a].property = p
               PROVE  Cardinality(Live(p)) = 1
    BY DEF ExactlyOneLiveAddress
  <2>1. PICK b : Live(p) = {b}
    BY DEF AddressesOK
  <2>2. Cardinality({b}) = 1
    BY FS_Singleton, Zenon
  <2> QED BY <2>1, <2>2
<1> QED BY <1>1, <1>2, <1>3 DEF IntakeSafe

-----------------------------------------------------------------------------
(* Frames *)

(* Addresses, messages and batches are never taken back. *)
Grows ==
    /\ \A a \in Rows : a \in Rows' /\ address'[a].property = address[a].property
    /\ \A m \in Mail : Sent(m) => /\ Sent(m)'
                                  /\ mail'[m].to = mail[m].to /\ mail'[m].letter = mail[m].letter
    /\ batch \subseteq batch'

(* A request that stands still is as good as it was. *)
LEMMA PostKept ==
  ASSUME Grows, NEW t, PostOK(t)
  PROVE  PostOK(t)'
<1>1. ASSUME NEW m \in Mail, Known(m) PROVE Known(m)'
  BY <1>1 DEF Grows, Known
<1>2. \A e, doc, held : EntryOK(e, doc, held) => EntryOK(e, doc, held)'
  BY DEF Grows, EntryOK
<1>3. \A es, docs, held : EntriesOK(es, docs, held) => EntriesOK(es, docs, held)'
  BY <1>2 DEF EntriesOK
<1>4. t.pc \in {"rotate", "senders"} => t.row \in Rows'
  BY DEF PostOK, Grows
<1>5. t.pc \in Carrying => Sent(t.m)'
  BY DEF PostOK, Grows
<1>6. t.pc = "record" => Known(t.m)'
  BY <1>1 DEF PostOK, Carrying
<1>7. ASSUME t.pc \in {"attachments", "gate"}
      PROVE  /\ Known(t.m)' /\ \A doc \in t.held : Ingested(doc) \in batch'
             /\ mail'[t.m].letter = mail[t.m].letter
             /\ EntriesOK(t.entries, mail[t.m].letter.docs, t.held)'
             /\ address'[mail'[t.m].to].property = address[mail[t.m].to].property
  <2>1. t.m \in Mail /\ Known(t.m) /\ Sent(t.m) /\ mail[t.m].to \in Rows
    BY <1>7 DEF PostOK, Carrying, Known
  <2>2. PICK docs : docs = mail[t.m].letter.docs
    OBVIOUS
  <2>3. mail'[t.m].letter = mail[t.m].letter /\ mail'[t.m].to = mail[t.m].to
    BY <2>1 DEF Grows
  <2>4. EntriesOK(t.entries, docs, t.held)'
    BY <1>3, <1>7, <2>2 DEF PostOK
  <2>5. EntriesOK(t.entries, mail[t.m].letter.docs, t.held)'
    BY <2>2, <2>3, <2>4
  <2>6. \A doc \in t.held : Ingested(doc) \in batch'
    BY <1>7 DEF PostOK, Grows
  <2> QED BY <1>1, <2>1, <2>3, <2>5, <2>6 DEF Grows
<1>8. t.pc = "gate" => t.pc \in {"attachments", "gate"}
  OBVIOUS
<1>9. \A doc, p, held : JudgedOK(doc, p, held)' <=> JudgedOK(doc, p, held)
  BY DEF JudgedOK
<1>10. t.pc = "gate" =>
         /\ Len(t.entries) < Len(mail'[t.m].letter.docs) /\ Len(t.entries) < MaxAttachments
         /\ JudgedOK(mail[t.m].letter.docs[Len(t.entries) + 1], address[mail[t.m].to].property, t.held)'
  BY <1>7, <1>8 DEF PostOK, JudgedOK
<1> QED BY <1>4, <1>5, <1>6, <1>7, <1>10 DEF PostOK

(* An event that was true stays true. *)
LEMMA EventKept ==
  ASSUME Grows, NEW m \in Mail, NEW e, EventOK(m, e)
  PROVE  EventOK(m, e)'
<1>1. Known(m) /\ Sent(m)
  BY DEF EventOK, Known
<1>2. Known(m)' /\ mail'[m].letter = mail[m].letter
  BY <1>1 DEF Grows, Known
<1> QED BY <1>2 DEF EventOK, Grows

Carries(t, m) == t # Idle /\ "m" \in DOMAIN t /\ t.m = m

(* Requests go on, and no message is put down that is not accounted for. *)
LEMMA PostsStep ==
  ASSUME InInv, Grows, AddressesOK', MailsOK', LandedWasAsked',
         DOMAIN post' = Delivery, DOMAIN event' = Mail, mailbox \subseteq mailbox',
         \A v \in Delivery : post'[v] = post[v] \/ \A t \in {post'[v]} : PostOK(t)',
         \A m \in Mail : event[m] \subseteq event'[m],
         \A m \in Mail : \A e \in event'[m] : e \in event[m] \/ EventOK(m, e)',
         \A m \in Mail : Sent(m)' /\ ~Sent(m) => \E v \in Delivery : Carries(post'[v], m),
         \A v \in Delivery, m \in Mail : Carries(post[v], m) =>
            Carries(post'[v], m) \/ event'[m] # {} \/ m \in mailbox' \/ mail'[m].to = Nobody
  PROVE  InInv'
<1>1. PostsOK'
  <2>1. ASSUME NEW v \in Delivery, NEW t, t = post'[v] PROVE PostOK(t)'
    <3>1. CASE post'[v] = post[v]
      <4>1. PostOK(t)
        BY <2>1, <3>1 DEF InInv, PostsOK
      <4> QED BY <4>1, PostKept
    <3>2. CASE post'[v] # post[v]
      BY <2>1, <3>2
    <3> QED BY <3>1, <3>2
  <2> QED BY <2>1 DEF PostsOK
<1>2. EventsOK'
  <2>1. ASSUME NEW m \in Mail, NEW e \in event'[m] PROVE EventOK(m, e)'
    <3>1. CASE e \in event[m]
      <4>1. EventOK(m, e)
        BY <3>1 DEF InInv, EventsOK
      <4> QED BY <4>1, EventKept
    <3>2. CASE e \notin event[m]
      BY <3>2
    <3> QED BY <3>1, <3>2
  <2> QED BY <2>1 DEF EventsOK
<1>3. MailIsAccounted'
  <2> SUFFICES ASSUME NEW m \in Mail, Sent(m)', mail'[m].to # Nobody, event'[m] = {}, m \notin mailbox'
               PROVE  \E v \in Delivery : Carries(post'[v], m)
    BY DEF MailIsAccounted, Carries, Sent
  <2>1. CASE ~Sent(m)
    BY <2>1
  <2>2. CASE Sent(m)
    <3>1. mail[m].to # Nobody /\ event[m] = {} /\ m \notin mailbox
      BY <2>2 DEF Grows
    <3>2. \E v \in Delivery : Carries(post[v], m)
      BY <2>2, <3>1 DEF InInv, MailIsAccounted, Carries, Sent
    <3> QED BY <3>2
  <2> QED BY <2>1, <2>2
<1> QED BY <1>1, <1>2, <1>3 DEF InInv

(* Only one request moved. *)
LEMMA OneMoves ==
  ASSUME InInv, NEW d \in Delivery, NEW k, post' = Goes(post, d, k)
  PROVE  DOMAIN post' = Delivery /\ post'[d] = k /\ \A v \in Delivery \ {d} : post'[v] = post[v]
BY DEF InInv, PostsOK, Goes

(* What a request that is not carrying a message is. *)
LEMMA NotCarrying ==
  ASSUME NEW t, PostOK(t), t.pc \notin Carrying
  PROVE  \A m : ~Carries(t, m)
BY DEF PostOK, Carries, Carrying, Idle

(* Steps that leave all but the requests alone. *)
LEMMA Quiet ==
  ASSUME InInv, NEW d \in Delivery, NEW k, post' = Goes(post, d, k), PostOK(k),
         UNCHANGED <<address, mail, mailbox, batch, landed, event>>,
         \A m \in Mail : Carries(post[d], m) => Carries(k, m) \/ mail[m].to = Nobody
  PROVE  InInv'
<1>1. DOMAIN post' = Delivery /\ post'[d] = k /\ \A v \in Delivery \ {d} : post'[v] = post[v]
  BY OneMoves
<1>2. Grows
  BY DEF Grows, Rows, Sent
<1>3. AddressesOK'
  BY DEF InInv, AddressesOK, Rows, Live
<1>4. MailsOK' /\ LandedWasAsked' /\ DOMAIN event' = Mail
  BY DEF InInv, MailsOK, Sent, Known, Rows, LandedWasAsked, EventsOK
<1>5. PostOK(k)'
  BY <1>2, PostKept
<1>6. \A v \in Delivery, m \in Mail : Carries(post[v], m) => Carries(post'[v], m) \/ mail'[m].to = Nobody
  BY <1>1
<1>7. \A m \in Mail : Sent(m)' <=> Sent(m)
  BY DEF Sent
<1> QED BY <1>1, <1>2, <1>3, <1>4, <1>5, <1>6, <1>7, PostsStep

-----------------------------------------------------------------------------
(* Addresses *)

(* The next row is the next number. *)
LEMMA NextRow ==
  ASSUME AddressesOK, Rows # AddressId
  PROVE  LET n == Cardinality(Rows)
         IN  n \in Nat /\ Rows = 1..n /\ n + 1 \in AddressId /\ n + 1 \notin Rows
<1>1. PICK n \in 0..MaxAddress : Rows = 1..n
  BY DEF AddressesOK
<1>2. Cardinality(1..n) = n
  BY IntakeConstants, FS_Interval
<1>3. n # MaxAddress
  BY <1>1 DEF AddressId
<1> QED BY <1>1, <1>2, <1>3, IntakeConstants DEF AddressId

(* A row is added: what the properties of all rows are afterwards. *)
LEMMA MintsRow ==
  ASSUME AddressesOK, Rows # AddressId, NEW p \in Hotel,
         NEW n, n = Cardinality(Rows) + 1, DOMAIN address' = AddressId,
         address'[n] = NewAddress(p),
         \A a \in AddressId \ {n} : a \in Rows <=> address'[a] # NoAddress,
         \A a \in Rows : address'[a] \in AddressRow /\ address'[a].property = address[a].property,
         \A a \in Rows : address[a].property # p => address'[a] = address[a],
         \A a \in Rows : address[a].property = p => address'[a].revoked
  PROVE  AddressesOK' /\ Rows' = Rows \cup {n}
<1>1. n \in AddressId /\ n \notin Rows /\ n \in Nat \ {0} /\ Rows = 1..(n - 1)
  BY NextRow
<1>2. NewAddress(p) \in AddressRow /\ NewAddress(p) # NoAddress /\ NewAddress(p).property = p
      /\ ~NewAddress(p).revoked
  BY IntakeConstants DEF NewAddress, AddressRow, NoAddress
<1>3. Rows' = Rows \cup {n}
  BY <1>1, <1>2 DEF Rows
<1>4. n \in 0..MaxAddress /\ Rows' = 1..n
  <2>1. 1..n = (1..(n - 1)) \cup {n}
    BY <1>1
  <2>2. n \in 0..MaxAddress
    BY <1>1, IntakeConstants DEF AddressId
  <2> QED BY <1>1, <1>3, <2>1, <2>2
<1>5. \A a \in Rows' : address'[a] \in AddressRow
  BY <1>2, <1>3
<1>6. ASSUME NEW q \in Hotel, NEW a \in Rows', address'[a].property = q
      PROVE  \E b : Live(q)' = {b}
  <2>1. CASE q = p
    <3>1. Live(p)' = {n}
      <4>1. \A b \in Rows : ~(address'[b].property = p /\ ~address'[b].revoked)
        OBVIOUS
      <4>2. address'[n].property = p /\ ~address'[n].revoked
        BY <1>2
      <4>3. Live(p)' = {b \in Rows' : address'[b].property = p /\ ~address'[b].revoked}
        BY DEF Live
      <4> QED BY <1>3, <4>1, <4>2, <4>3
    <3> QED BY <2>1, <3>1
  <2>2. CASE q # p
    <3>1. a \in Rows /\ address[a].property = q
      BY <1>2, <1>3, <1>6, <2>2
    <3>2. PICK b : Live(q) = {b}
      BY <3>1 DEF AddressesOK
    <3>3. Live(q)' = Live(q)
      BY <1>1, <1>2, <1>3, <2>2, ZenonT(40) DEF Live
    <3> QED BY <3>2, <3>3
  <2> QED BY <2>1, <2>2
<1> QED BY <1>3, <1>4, <1>5, <1>6 DEF AddressesOK

(* Nothing but the addresses and the request that asked changes. *)
LEMMA AddressStep ==
  ASSUME InInv, AddressesOK', UNCHANGED <<mail, mailbox, batch, landed, event>>,
         \A a \in Rows : a \in Rows' /\ address'[a].property = address[a].property,
         DOMAIN post' = Delivery,
         \A v \in Delivery : post'[v] = post[v] \/ (post'[v] = Idle /\ post[v].pc \notin Carrying)
  PROVE  InInv'
<1>1. Grows
  BY DEF Grows, Sent
<1>2. \A m \in Mail : (Sent(m)' <=> Sent(m)) /\ (Known(m) => Known(m)')
  BY DEF Sent, Known
<1>3. MailsOK' /\ LandedWasAsked' /\ DOMAIN event' = Mail
  BY <1>2 DEF InInv, MailsOK, LandedWasAsked, EventsOK
<1>4. PostOK(Idle)'
  BY DEF PostOK, Idle, Carrying
<1>5. \A v \in Delivery : post'[v] = post[v] \/ \A t \in {post'[v]} : PostOK(t)'
  BY <1>4
<1>6. ASSUME NEW v \in Delivery, NEW m \in Mail, Carries(post[v], m) PROVE Carries(post'[v], m)
  <2>1. PICK t : t = post[v]
    OBVIOUS
  <2>2. PostOK(t)
    BY <2>1 DEF InInv, PostsOK
  <2>3. t.pc \in Carrying
    BY <1>6, <2>1, <2>2, NotCarrying
  <2> QED BY <1>6, <2>1, <2>3
<1> QED BY <1>1, <1>2, <1>3, <1>5, <1>6, PostsStep

(* A first address: the property has none. *)
LEMMA CreateStep ==
  ASSUME InInv, NEW p \in Hotel, create_intake_address(p)
  PROVE  InInv'
<1> DEFINE n == Cardinality(Rows) + 1
<1>1. /\ Rows # AddressId /\ Live(p) = {} /\ address' = [address EXCEPT ![n] = NewAddress(p)]
      /\ UNCHANGED <<mail, mailbox, post, batch, landed, event>>
  BY DEF create_intake_address
<1>2. AddressesOK /\ n \in AddressId /\ n \notin Rows /\ DOMAIN address = AddressId
  BY <1>1, NextRow DEF InInv, AddressesOK
<1>3. /\ DOMAIN address' = AddressId /\ address'[n] = NewAddress(p)
      /\ \A a \in AddressId \ {n} : address'[a] = address[a]
  BY <1>1, <1>2
<1>4. \A a \in Rows : address[a].property # p /\ address[a] \in AddressRow /\ a \in AddressId \ {n}
  BY <1>1, <1>2 DEF AddressesOK, Rows
<1> HIDE DEF n
<1>5. AddressesOK' /\ Rows' = Rows \cup {n}
  <2>1. \A a \in AddressId \ {n} : a \in Rows <=> address'[a] # NoAddress
    BY <1>3 DEF Rows
  <2> QED BY <1>1, <1>2, <1>3, <1>4, <2>1, MintsRow DEF n
<1>6. DOMAIN post = Delivery
  BY DEF InInv, PostsOK
<1> QED BY <1>1, <1>3, <1>4, <1>5, <1>6, AddressStep

(* The live row is read. *)
LEMMA RequireStep ==
  ASSUME InInv, NEW d \in Delivery, NEW p \in Hotel, NEW then \in {"rotate", "senders"},
         _require_active(d, p, then)
  PROVE  InInv'
<1>1. PICK a \in Live(p) : post' = Goes(post, d, [pc |-> then, row |-> a])
  BY DEF _require_active
<1> DEFINE k == [pc |-> then, row |-> a]
<1>2. a \in Rows /\ post[d] = Idle
  BY <1>1 DEF Live, _require_active
<1>3. PostOK(k)
  BY <1>2 DEF PostOK, Carrying, Idle
<1>4. \A m \in Mail : ~Carries(post[d], m)
  BY <1>2 DEF Carries
<1> HIDE DEF k
<1> QED BY <1>1, <1>3, <1>4, Quiet DEF _require_active, k

(* The row read is revoked and another minted, or the index refuses. *)
LEMMA RotateStep ==
  ASSUME InInv, NEW d \in Delivery, rotate(d)
  PROVE  InInv'
<1>1. PICK t : t = post[d]
  OBVIOUS
<1>2. PostOK(t) /\ t.pc = "rotate"
  BY <1>1 DEF InInv, PostsOK, rotate, At
<1>3. PICK old \in Rows : old = t.row
  BY <1>2 DEF PostOK
<1>4. AddressesOK /\ Rows # AddressId /\ DOMAIN address = AddressId
  BY DEF InInv, AddressesOK, rotate
<1>5. PICK p \in Hotel : p = address[old].property
  BY <1>4 DEF AddressesOK, AddressRow
<1> DEFINE n == Cardinality(Rows) + 1
<1>6. /\ address' = IF Live(p) \ {old} # {} THEN address
                    ELSE [address EXCEPT ![old].revoked = TRUE, ![n] = NewAddress(p)]
      /\ post' = Goes(post, d, Idle)
      /\ UNCHANGED <<mail, mailbox, batch, landed, event>>
  BY <1>1, <1>3, <1>5 DEF rotate
<1>7. /\ DOMAIN post' = Delivery /\ post'[d] = Idle /\ \A v \in Delivery \ {d} : post'[v] = post[v]
      /\ post[d].pc \notin Carrying
  BY <1>1, <1>2, <1>6, OneMoves DEF Carrying
<1>8. CASE Live(p) \ {old} # {}
  <2>1. address' = address
    BY <1>6, <1>8
  <2>2. AddressesOK' /\ Rows' = Rows
    BY <1>4, <2>1 DEF AddressesOK, Rows, Live
  <2> QED BY <1>6, <1>7, <2>1, <2>2, AddressStep
<1>9. CASE Live(p) \ {old} = {}
  <2>1. n \in AddressId /\ n \notin Rows /\ old \in AddressId /\ old # n
    BY <1>4, NextRow DEF Rows
  <2>2. \A a \in Rows : address[a] \in AddressRow /\ a \in AddressId /\ a # n
    BY <1>4, <2>1 DEF AddressesOK, Rows
  <2>3. /\ DOMAIN address' = AddressId /\ address'[n] = NewAddress(p)
        /\ \A a \in AddressId \ {n, old} : address'[a] = address[a]
        /\ address'[old] = [address[old] EXCEPT !.revoked = TRUE]
    BY <1>4, <1>6, <1>9, <2>1
  <2>4. /\ address'[old] \in AddressRow /\ address'[old].revoked
        /\ address'[old].property = p /\ address'[old] # NoAddress
    BY <1>5, <2>2, <2>3 DEF AddressRow, NoAddress
  <2>5. \A a \in Rows \ {old} : address[a].property = p => address[a].revoked
    BY <1>9 DEF Live
  <2> HIDE DEF n
  <2>6. AddressesOK' /\ Rows' = Rows \cup {n}
    <3>1. \A a \in AddressId \ {n} : a \in Rows <=> address'[a] # NoAddress
      BY <2>3, <2>4 DEF Rows
    <3>2. \A a \in Rows : address'[a] \in AddressRow /\ address'[a].property = address[a].property
      BY <1>5, <2>2, <2>3, <2>4
    <3>3. \A a \in Rows : address[a].property # p => address'[a] = address[a]
      BY <1>5, <2>2, <2>3
    <3>4. \A a \in Rows : address[a].property = p => address'[a].revoked
      BY <2>2, <2>3, <2>4, <2>5
    <3> QED BY <1>4, <2>3, <3>1, <3>2, <3>3, <3>4, MintsRow DEF n
  <2>7. \A a \in Rows : a \in Rows' /\ address'[a].property = address[a].property
    BY <1>5, <2>2, <2>3, <2>4, <2>6
  <2> QED BY <1>6, <1>7, <2>6, <2>7, AddressStep
<1> QED BY <1>8, <1>9

(* The row read gets its allowlist. *)
LEMMA SendersStep ==
  ASSUME InInv, NEW d \in Delivery, NEW senders \in Policies, set_sender_domains(d, senders)
  PROVE  InInv'
<1>1. PICK t : t = post[d]
  OBVIOUS
<1>2. PostOK(t) /\ t.pc = "senders"
  BY <1>1 DEF InInv, PostsOK, set_sender_domains, At
<1>3. PICK a \in Rows : a = t.row
  BY <1>2 DEF PostOK
<1>4. /\ address' = [address EXCEPT ![a].senders = senders]
      /\ post' = Goes(post, d, Idle)
      /\ UNCHANGED <<mail, mailbox, batch, landed, event>>
  BY <1>1, <1>3 DEF set_sender_domains
<1>5. AddressesOK /\ DOMAIN address = AddressId /\ a \in AddressId /\ address[a] \in AddressRow
  BY DEF InInv, AddressesOK, Rows
<1>6. /\ DOMAIN address' = AddressId /\ \A b \in AddressId \ {a} : address'[b] = address[b]
      /\ address'[a] = [address[a] EXCEPT !.senders = senders]
  BY <1>4, <1>5
<1>7. /\ address'[a] \in AddressRow /\ address'[a] # NoAddress /\ address'[a].property = address[a].property
      /\ (address'[a].revoked <=> address[a].revoked)
  BY <1>5, <1>6 DEF AddressRow, NoAddress
<1>8. Rows' = Rows
  BY <1>6, <1>7 DEF Rows
<1>9. \A p : Live(p)' = Live(p)
  BY <1>6, <1>7, <1>8, ZenonT(40) DEF Live, Rows
<1>10. \A b \in Rows : address'[b].property = address[b].property /\ address'[b] \in AddressRow
  BY <1>5, <1>6, <1>7 DEF AddressesOK, Rows
<1>11. AddressesOK'
  BY <1>5, <1>6, <1>8, <1>9, <1>10 DEF AddressesOK
<1>12. /\ DOMAIN post' = Delivery /\ post'[d] = Idle /\ \A v \in Delivery \ {d} : post'[v] = post[v]
       /\ post[d].pc \notin Carrying
  BY <1>1, <1>2, <1>4, OneMoves DEF Carrying
<1> QED BY <1>4, <1>8, <1>10, <1>11, <1>12, AddressStep

-----------------------------------------------------------------------------
(* Deliveries *)

(* A message is sent, or sent again, and a request carries it. *)
LEMMA Arrives ==
  ASSUME InInv, NEW d \in Delivery, NEW m \in Mail, NEW r, mail' = [mail EXCEPT ![m] = r],
         DOMAIN r = {"letter", "to", "again"},
         r.to = Nobody \/ (r.to \in Rows /\ r.letter \in Letter),
         Sent(m) => r.to = mail[m].to /\ r.letter = mail[m].letter,
         post[d] = Idle, post' = Goes(post, d, [pc |-> "arrived", m |-> m]),
         UNCHANGED <<address, mailbox, batch, landed, event>>
  PROVE  InInv'
<1> DEFINE k == [pc |-> "arrived", m |-> m]
<1>1. DOMAIN post' = Delivery /\ post'[d] = k /\ \A v \in Delivery \ {d} : post'[v] = post[v]
  BY OneMoves
<1>2. /\ DOMAIN mail' = Mail /\ mail'[m] = r /\ \A n \in Mail \ {m} : mail'[n] = mail[n]
  BY DEF InInv, MailsOK
<1>3. r # NotSent
  BY DEF NotSent
<1>4. Rows' = Rows /\ Sent(m)' /\ \A n \in Mail \ {m} : Sent(n)' <=> Sent(n)
  BY <1>2, <1>3 DEF Rows, Sent
<1>5. \A n \in Mail : Sent(n) => Sent(n)' /\ mail'[n].to = mail[n].to /\ mail'[n].letter = mail[n].letter
  BY <1>2, <1>4
<1>6. Grows
  BY <1>4, <1>5 DEF Grows
<1>7. AddressesOK'
  BY DEF InInv, AddressesOK, Rows, Live
<1>8. MailsOK' /\ LandedWasAsked' /\ DOMAIN event' = Mail
  <2>1. ASSUME NEW n \in Mail, Sent(n)'
        PROVE  DOMAIN mail'[n] = {"letter", "to", "again"} /\ (mail'[n].to = Nobody \/ Known(n)')
    <3>1. CASE n = m
      BY <1>2, <1>4, <3>1 DEF Known
    <3>2. CASE n # m
      BY <1>2, <1>4, <2>1, <3>2 DEF InInv, MailsOK, Known
    <3> QED BY <3>1, <3>2
  <2> QED BY <1>2, <1>4, <2>1 DEF InInv, MailsOK, LandedWasAsked, EventsOK
<1>9. PostOK(k)'
  BY <1>4 DEF PostOK, Carrying, Idle
<1>10. \A n : ~Carries(post[d], n)
  BY DEF Carries
<1>11. Carries(k, m)
  BY DEF Carries, Idle
<1> HIDE DEF k
<1>12. \A v \in Delivery, n \in Mail : Carries(post[v], n) => Carries(post'[v], n)
  BY <1>1, <1>10
<1>13. \A n \in Mail : Sent(n)' /\ ~Sent(n) => \E v \in Delivery : Carries(post'[v], n)
  BY <1>1, <1>4, <1>11
<1> QED BY <1>1, <1>6, <1>7, <1>8, <1>9, <1>12, <1>13, PostsStep

(* The PMS sends a message. *)
LEMMA SendStep ==
  ASSUME InInv, NEW d \in Delivery, NEW m \in Mail, NEW letter \in Letter, NEW to \in Rows \cup {Nobody},
         Send(d, m, letter, to)
  PROVE  InInv'
<1> DEFINE r == [letter |-> IF to = Nobody THEN Unopened ELSE letter, to |-> to, again |-> 0]
<1>1. /\ mail' = [mail EXCEPT ![m] = r] /\ post[d] = Idle /\ ~Sent(m)
      /\ post' = Goes(post, d, [pc |-> "arrived", m |-> m])
      /\ UNCHANGED <<address, mailbox, batch, landed, event>>
  BY DEF Send, Sent
<1>2. DOMAIN r = {"letter", "to", "again"} /\ (r.to = Nobody \/ (r.to \in Rows /\ r.letter \in Letter))
  OBVIOUS
<1> HIDE DEF r
<1> QED BY <1>1, <1>2, Arrives

(* A copy is delivered again. *)
LEMMA RedeliverStep ==
  ASSUME InInv, NEW d \in Delivery, NEW m \in Mail, Redeliver(d, m)
  PROVE  InInv'
<1> DEFINE r == [mail[m] EXCEPT !.again = @ + 1]
<1>1. m \in Mail /\ Sent(m) /\ DOMAIN mail = Mail
  BY DEF InInv, MailsOK, Redeliver
<1>2. /\ mail' = [mail EXCEPT ![m] = r] /\ post[d] = Idle
      /\ post' = Goes(post, d, [pc |-> "arrived", m |-> m])
      /\ UNCHANGED <<address, mailbox, batch, landed, event>>
  BY DEF Redeliver
<1>3. DOMAIN mail[m] = {"letter", "to", "again"} /\ (mail[m].to = Nobody \/ Known(m))
  BY <1>1 DEF InInv, MailsOK
<1>4. DOMAIN r = {"letter", "to", "again"} /\ r.to = mail[m].to /\ r.letter = mail[m].letter
  BY <1>3
<1> HIDE DEF r
<1> QED BY <1>1, <1>2, <1>3, <1>4, Arrives DEF Known

(* Whatever was not answered is in the mailbox. *)
LEMMA ForwardStep ==
  ASSUME InInv, NEW d \in Delivery, Forward(d)
  PROVE  InInv'
<1>1. PICK t : t = post[d]
  OBVIOUS
<1>2. /\ PostOK(t) /\ t # Idle /\ "m" \in DOMAIN t
      /\ mailbox' = mailbox \cup {t.m} /\ post' = Goes(post, d, Idle)
      /\ UNCHANGED <<address, mail, batch, landed, event>>
  BY <1>1 DEF InInv, PostsOK, Forward
<1>3. t.m \in Mail /\ Sent(t.m)
  BY <1>2 DEF PostOK, Carrying
<1>4. DOMAIN post' = Delivery /\ post'[d] = Idle /\ \A v \in Delivery \ {d} : post'[v] = post[v]
  BY <1>2, OneMoves
<1>5. Grows /\ Rows' = Rows /\ \A m \in Mail : (Sent(m)' <=> Sent(m)) /\ (Known(m)' <=> Known(m))
  BY <1>2 DEF Grows, Rows, Sent, Known
<1>6. AddressesOK'
  BY <1>2 DEF InInv, AddressesOK, Rows, Live
<1>7. MailsOK' /\ LandedWasAsked' /\ DOMAIN event' = Mail
  BY <1>2, <1>3, <1>5 DEF InInv, MailsOK, LandedWasAsked, EventsOK
<1>8. PostOK(Idle)'
  BY DEF PostOK, Idle, Carrying
<1>9. \A v \in Delivery, m \in Mail : Carries(post[v], m) => Carries(post'[v], m) \/ m \in mailbox'
  BY <1>1, <1>2, <1>4 DEF Carries
<1> QED BY <1>2, <1>4, <1>5, <1>6, <1>7, <1>8, <1>9, PostsStep

(* The address row is read, and what is in already is noted. *)
LEMMA ResolveStep ==
  ASSUME InInv, NEW d \in Delivery, _resolve_address(d)
  PROVE  InInv'
<1>1. PICK t : t = post[d]
  OBVIOUS
<1>2. PICK m : m = t.m
  OBVIOUS
<1>3. PostOK(t) /\ t.pc = "arrived" /\ m \in Mail /\ Sent(m)
  BY <1>1, <1>2 DEF InInv, PostsOK, _resolve_address, At, PostOK, Carrying
<1>4. mail[m].to = Nobody \/ Known(m)
  BY <1>3 DEF InInv, MailsOK
<1> DEFINE finish(o) == [pc |-> "record", m |-> m, outcome |-> o]
           docs == mail[m].letter.docs
           go == [pc |-> "attachments", m |-> m, entries |-> <<>>, held |-> Held(docs)]
<1>5. PICK k : /\ post' = Goes(post, d, k)
               /\ \/ k = Idle /\ mail[m].to = Nobody
                  \/ mail[m].to # Nobody /\ k \in {finish("revoked_address"), finish("sender_rejected"),
                                                  finish("no_attachment"), go}
  BY <1>1, <1>2 DEF _resolve_address
<1>6. \A n \in Mail : Carries(post[d], n) => n = m
  BY <1>1, <1>2 DEF Carries
<1>7. UNCHANGED <<address, mail, mailbox, batch, landed, event>>
  BY DEF _resolve_address
<1>8. CASE k = Idle /\ mail[m].to = Nobody
  <2>1. PostOK(Idle)
    BY DEF PostOK, Idle, Carrying
  <2> QED BY <1>5, <1>6, <1>7, <1>8, <2>1, Quiet
<1>9. ASSUME mail[m].to # Nobody, NEW o \in {"revoked_address", "sender_rejected", "no_attachment"},
             k = finish(o)
      PROVE  InInv'
  <2>1. PostOK(finish(o))
    BY <1>3, <1>4, <1>9 DEF PostOK, Idle, Carrying
  <2>2. Carries(finish(o), m)
    BY DEF Carries, Idle
  <2> QED BY <1>5, <1>6, <1>7, <1>9, <2>1, <2>2, Quiet
<1>10. CASE mail[m].to # Nobody /\ k = go
  <2>1. \A doc \in Held(docs) : Ingested(doc) \in batch
    <3>1. \A doc \in Held(docs) : \E b \in batch : b.doc = doc /\ b.status = "transformed"
      BY DEF Held, _transformed_batch_ids
    <3> QED BY <3>1 DEF Ingested, InInv, MailsOK
  <2>2. EntriesOK(<<>>, docs, Held(docs))
    BY <1>4, <1>10, IntakeConstants DEF EntriesOK, Known
  <2>3. PostOK(go)
    <3>1. /\ DOMAIN go = {"pc", "m", "entries", "held"} /\ go.pc = "attachments" /\ go.m = m
          /\ go.entries = <<>> /\ go.held = Held(docs) /\ go # Idle
      BY DEF Idle
    <3> HIDE DEF go
    <3> QED BY <1>3, <1>4, <1>10, <2>1, <2>2, <3>1 DEF PostOK, Carrying
  <2>4. Carries(go, m)
    BY DEF Carries, Idle
  <2> HIDE DEF go
  <2> QED BY <1>5, <1>6, <1>7, <1>10, <2>3, <2>4, Quiet
<1> QED BY <1>5, <1>8, <1>9, <1>10

-----------------------------------------------------------------------------
(* Attachments *)

(* What the validator may answer. *)
LEMMA Verdicts ==
  ASSUME NEW doc, NEW p
  PROVE  validate_document(doc, p) \in {"passed", "unreadable", "wrong_property", "not_a_night_audit_report"}
<1>1. \A r : _validate_detected(r, p) \in {"passed", "wrong_property", "not_a_night_audit_report"}
  BY DEF _validate_detected
<1>2. validate_sections(doc, p) \in {"passed", "wrong_property", "not_a_night_audit_report"}
  BY <1>1 DEF validate_sections
<1> QED BY <1>1, <1>2 DEF validate_document

(* The validator and the gate read a document alike: what the first lets    *)
(* through, the second lands as the property's own night audit.             *)
LEMMA PassedLands ==
  ASSUME NEW doc, NEW p, DOMAIN doc.sections \subseteq Nat,
         validate_document(doc, p) \in {"passed", "unreadable"}
  PROVE  \A report \in process_document_bytes(doc) : report.property = p /\ report.type \in Required
<1>1. \A r : /\ _validate_detected(r, p) \in {"passed", "wrong_property", "not_a_night_audit_report"}
             /\ _validate_detected(r, p) = "passed" => r.property = p /\ r.type \in Required
  BY DEF _validate_detected
<1> DEFINE verdict(i) == _validate_detected(doc.sections[i], p)
           failing == {i \in Recognized(doc) : verdict(i) # "passed"}
<1>2. ASSUME failing # {} PROVE Min(failing) \in failing
  <2>1. failing \in SUBSET Nat
    BY DEF Recognized
  <2>2. \E n \in failing : \A i \in failing : n <= i
    BY <1>2, <2>1, LeastElement
  <2> HIDE DEF failing
  <2> QED BY <2>2 DEF Min
<1>3. ASSUME validate_sections(doc, p) = "passed"
      PROVE  \A i \in Recognized(doc) : verdict(i) = "passed"
  <2>1. validate_sections(doc, p) = IF Recognized(doc) = {} THEN "not_a_night_audit_report"
                                    ELSE IF failing = {} THEN "passed" ELSE verdict(Min(failing))
    BY DEF validate_sections
  <2>2. failing = {}
    BY <1>2, <1>3, <2>1
  <2> QED BY <2>2
<1>4. validate_sections(doc, p) # "unreadable"
  BY <1>1 DEF validate_sections
<1>5. CASE ~doc.readable
  BY <1>5 DEF process_document_bytes
<1>6. CASE doc.readable /\ doc.whole # NoReport
  <2>1. _validate_detected(doc.whole, p) = "passed"
    BY <1>1, <1>6 DEF validate_document
  <2> QED BY <1>1, <1>6, <2>1 DEF process_document_bytes
<1>7. CASE doc.readable /\ doc.whole = NoReport
  <2>1. doc.pdf /\ validate_sections(doc, p) = "passed"
    BY <1>4, <1>7 DEF validate_document
  <2>2. \A i \in Recognized(doc) : doc.sections[i].property = p /\ doc.sections[i].type \in Required
    BY <1>1, <1>3, <2>1
  <2> QED BY <1>7, <2>1, <2>2 DEF process_document_bytes
<1> QED BY <1>5, <1>6, <1>7

(* An attachment is disposed of, with an entry that says so. *)
LEMMA EnterStep ==
  ASSUME InInv, NEW d \in Delivery, NEW o, NEW t, t = post[d], t.pc \in {"attachments", "gate"},
         post' = Entered(d, o), Here(d) <= Len(Docs(d)), Here(d) <= MaxAttachments,
         NEW doc, doc = Doc(d), EntryOK(o, doc, t.held)',
         batch \subseteq batch',
         \A b \in batch' : b = [doc |-> b.doc, status |-> b.status] /\ b.status \in {"transformed", "failed"},
         LandedWasAsked', UNCHANGED <<address, mail, mailbox, event>>
  PROVE  InInv'
<1> DEFINE k == [t EXCEPT !.entries = Append(t.entries, o), !.pc = "attachments"]
<1>1. PostOK(t) /\ DOMAIN post = Delivery
  BY DEF InInv, PostsOK
<1>2. /\ DOMAIN t = {"pc", "m", "entries", "held"} /\ Known(t.m) /\ t.m \in Mail /\ Sent(t.m)
      /\ \A x \in t.held : Ingested(x) \in batch
      /\ EntriesOK(t.entries, mail[t.m].letter.docs, t.held)
  BY <1>1 DEF PostOK, Carrying
<1>3. post' = Goes(post, d, k)
  BY <1>1 DEF Entered, Goes
<1>4. /\ DOMAIN k = {"pc", "m", "entries", "held"} /\ k.pc = "attachments" /\ k.m = t.m
      /\ k.entries = Append(t.entries, o) /\ k.held = t.held /\ k # Idle
  BY <1>2 DEF Idle
<1> HIDE DEF k
<1>5. DOMAIN post' = Delivery /\ post'[d] = k /\ \A v \in Delivery \ {d} : post'[v] = post[v]
  BY <1>3, OneMoves
<1>6. Grows /\ Rows' = Rows /\ \A m \in Mail : (Sent(m)' <=> Sent(m)) /\ (Known(m)' <=> Known(m))
  BY DEF Grows, Rows, Sent, Known
<1>7. AddressesOK'
  BY DEF InInv, AddressesOK, Rows, Live
<1>8. MailsOK' /\ DOMAIN event' = Mail
  BY <1>6 DEF InInv, MailsOK, EventsOK
<1>9. PICK docs : docs = mail[t.m].letter.docs
  OBVIOUS
<1>10. PICK n \in Nat : n = Len(t.entries)
  BY <1>2 DEF EntriesOK
<1>11. doc = docs[n + 1] /\ n + 1 <= Len(docs) /\ n + 1 <= MaxAttachments
  BY <1>9, <1>10 DEF Doc, Docs, Here
<1>12. EntriesOK(t.entries, docs, t.held)'
  <2>1. \A e, x, held : EntryOK(e, x, held) => EntryOK(e, x, held)'
    BY DEF EntryOK
  <2> QED BY <1>2, <1>9, <2>1 DEF EntriesOK
<1>13. EntriesOK(k.entries, docs, t.held)'
  <2>1. /\ t.entries \in Seq(Entries) /\ o \in Entries
        /\ \A i \in 1..n : EntryOK(t.entries[i], docs[i], t.held)'
    BY <1>10, <1>12 DEF EntriesOK, EntryOK
  <2>2. /\ k.entries \in Seq(Entries) /\ Len(k.entries) = n + 1 /\ k.entries[n + 1] = o
        /\ \A i \in 1..n : k.entries[i] = t.entries[i]
    BY <1>4, <1>10, <2>1
  <2>3. \A i \in 1..(n + 1) : i = n + 1 \/ i \in 1..n
    BY <1>10
  <2>4. \A i \in 1..(n + 1) : EntryOK(k.entries[i], docs[i], t.held)'
    BY <1>11, <2>1, <2>2, <2>3
  <2> QED BY <1>11, <2>2, <2>4 DEF EntriesOK
<1>14. PostOK(k)'
  BY <1>2, <1>4, <1>6, <1>9, <1>13 DEF PostOK, Carrying
<1>15. \A v \in Delivery, m \in Mail : Carries(post[v], m) => Carries(post'[v], m)
  BY <1>4, <1>5 DEF Carries
<1> QED BY <1>5, <1>6, <1>7, <1>8, <1>14, <1>15, PostsStep

(* An attachment is judged; one that was in when it arrived is a duplicate. *)
LEMMA JudgeStep ==
  ASSUME InInv, NEW d \in Delivery, Judge(d)
  PROVE  InInv'
<1>1. PICK t : t = post[d]
  OBVIOUS
<1>2. PICK doc : doc = Doc(d)
  OBVIOUS
<1>3. PICK p : p = PropertyOf(d)
  OBVIOUS
<1> DEFINE verdict == validate_document(doc, p)
<1>4. /\ PostOK(t) /\ t.pc = "attachments" /\ Here(d) <= Len(Docs(d)) /\ Here(d) <= MaxAttachments
      /\ post' = IF doc.large THEN Entered(d, "failed")
                 ELSE IF _transformed_batch_ids(doc) # {} THEN Entered(d, "duplicate")
                 ELSE IF verdict \notin {"passed", "unreadable"} THEN Entered(d, verdict)
                 ELSE GoesTo(post, d, "gate")
      /\ UNCHANGED <<address, mail, mailbox, batch, landed, event>>
  BY <1>1, <1>2, <1>3 DEF Judge, At, InInv, PostsOK
<1>5. /\ \A x \in t.held : Ingested(x) \in batch
      /\ DOMAIN t = {"pc", "m", "entries", "held"} /\ Known(t.m) /\ t.m \in Mail /\ Sent(t.m)
      /\ EntriesOK(t.entries, mail[t.m].letter.docs, t.held)
  BY <1>4 DEF PostOK, Carrying
<1>6. _transformed_batch_ids(doc) # {} <=> Ingested(doc) \in batch
  <2>1. Ingested(doc).doc = doc /\ Ingested(doc).status = "transformed"
    BY DEF Ingested
  <2>2. \A b \in batch : b.doc = doc /\ b.status = "transformed" => b = Ingested(doc)
    BY DEF InInv, MailsOK, Ingested
  <2> QED BY <2>1, <2>2 DEF _transformed_batch_ids
<1>7. \A b \in batch' : b = [doc |-> b.doc, status |-> b.status] /\ b.status \in {"transformed", "failed"}
  BY <1>4 DEF InInv, MailsOK
<1>8. LandedWasAsked'
  BY <1>4 DEF InInv, LandedWasAsked
<1>9. ASSUME NEW o, post' = Entered(d, o), EntryOK(o, doc, t.held)
      PROVE  InInv'
  <2>1. EntryOK(o, doc, t.held)'
    BY <1>4, <1>9 DEF EntryOK
  <2> QED BY <1>1, <1>2, <1>4, <1>7, <1>8, <1>9, <2>1, EnterStep
<1>10. CASE doc.large
  <2>1. EntryOK("failed", doc, t.held)
    BY <1>10 DEF EntryOK, Entries
  <2> QED BY <1>4, <1>9, <1>10, <2>1
<1>11. CASE ~doc.large /\ _transformed_batch_ids(doc) # {}
  <2>1. EntryOK("duplicate", doc, t.held)
    BY <1>6, <1>11 DEF EntryOK, Entries
  <2> QED BY <1>4, <1>9, <1>11, <2>1
<1>12. CASE ~doc.large /\ _transformed_batch_ids(doc) = {} /\ verdict \notin {"passed", "unreadable"}
  <2>1. verdict \in {"wrong_property", "not_a_night_audit_report"}
    BY <1>12, Verdicts
  <2>2. doc \notin t.held
    BY <1>5, <1>6, <1>12
  <2> HIDE DEF verdict
  <2>3. EntryOK(verdict, doc, t.held)
    BY <2>1, <2>2 DEF EntryOK, Entries
  <2> QED BY <1>4, <1>9, <1>12, <2>3
<1>13. CASE ~doc.large /\ _transformed_batch_ids(doc) = {} /\ verdict \in {"passed", "unreadable"}
  <2> DEFINE k == [t EXCEPT !.pc = "gate"]
  <2>1. post' = Goes(post, d, k)
    BY <1>1, <1>4, <1>13 DEF Goes, GoesTo
  <2>2. /\ DOMAIN k = {"pc", "m", "entries", "held"} /\ k.pc = "gate" /\ k.m = t.m
        /\ k.entries = t.entries /\ k.held = t.held /\ k # Idle
    BY <1>5 DEF Idle
  <2> HIDE DEF k, verdict
  <2>3. doc = mail[t.m].letter.docs[Len(t.entries) + 1] /\ p = address[mail[t.m].to].property
    BY <1>1, <1>2, <1>3 DEF Doc, Docs, Here, PropertyOf
  <2>4. JudgedOK(doc, p, t.held)
    BY <1>5, <1>6, <1>13 DEF JudgedOK, verdict
  <2>5. Len(t.entries) < Len(mail[t.m].letter.docs) /\ Len(t.entries) < MaxAttachments
    <3>1. Len(t.entries) \in Nat
      BY <1>5 DEF EntriesOK
    <3>2. mail[t.m].letter \in Letter /\ Len(mail[t.m].letter.docs) \in Nat /\ MaxAttachments \in Nat
      BY <1>5, IntakeConstants DEF Known
    <3> QED BY <1>1, <1>4, <3>1, <3>2 DEF Docs, Here
  <2>6. PostOK(k)
    BY <1>5, <2>2, <2>3, <2>4, <2>5 DEF PostOK, Carrying
  <2>7. \A m \in Mail : Carries(post[d], m) => Carries(k, m)
    BY <1>1, <2>2 DEF Carries
  <2> QED BY <1>4, <2>1, <2>6, <2>7, Quiet
<1> QED BY <1>10, <1>11, <1>12, <1>13

(* What is known of a request at the gate. *)
LEMMA AtGate ==
  ASSUME InInv, NEW d \in Delivery, At(post, d, "gate"), NEW t, t = post[d], NEW doc, doc = Doc(d)
  PROVE  /\ t.pc \in {"attachments", "gate"} /\ Here(d) <= Len(Docs(d)) /\ Here(d) <= MaxAttachments
         /\ JudgedOK(doc, PropertyOf(d), t.held) /\ DOMAIN doc.sections \subseteq Nat
<1>1. PostOK(t) /\ t.pc = "gate"
  BY DEF InInv, PostsOK, At
<1>2. /\ Known(t.m) /\ EntriesOK(t.entries, mail[t.m].letter.docs, t.held)
      /\ Len(t.entries) < Len(mail[t.m].letter.docs) /\ Len(t.entries) < MaxAttachments
      /\ JudgedOK(mail[t.m].letter.docs[Len(t.entries) + 1], address[mail[t.m].to].property, t.held)
  BY <1>1 DEF PostOK
<1>3. PICK n \in Nat : n = Len(t.entries)
  <2>1. t.entries \in Seq(Entries)
    BY <1>2 DEF EntriesOK
  <2> QED BY <2>1
<1>4. PICK letter \in Letter : letter = mail[t.m].letter
  BY <1>2 DEF Known
<1>5. Len(letter.docs) \in Nat /\ MaxAttachments \in Nat /\ DOMAIN letter.docs = 1..Len(letter.docs)
  BY IntakeConstants
<1>6. n < Len(letter.docs) /\ n < MaxAttachments /\ n + 1 \in DOMAIN letter.docs
  <2>1. n < Len(letter.docs) /\ n < MaxAttachments
    BY <1>2, <1>3, <1>4
  <2> QED BY <1>5, <2>1
<1>7. doc = letter.docs[n + 1]
  BY <1>3, <1>4 DEF Doc, Docs, Here
<1>8. DOMAIN doc.sections \subseteq Nat
  BY <1>6, <1>7, IntakeConstants
<1>9. Here(d) <= Len(Docs(d)) /\ Here(d) <= MaxAttachments
  <2>1. Docs(d) = letter.docs /\ Here(d) = n + 1
    BY <1>3, <1>4 DEF Docs, Here
  <2> QED BY <1>5, <1>6, <2>1
<1>10. JudgedOK(doc, PropertyOf(d), t.held)
  BY <1>2, <1>3, <1>4, <1>7 DEF PropertyOf
<1> QED BY <1>1, <1>8, <1>9, <1>10

(* The gate commits a document. *)
LEMMA IngestStep ==
  ASSUME InInv, NEW d \in Delivery, NEW filed \in BOOLEAN, _ingest_attachment(d, filed)
  PROVE  InInv'
<1>1. PICK t : t = post[d]
  OBVIOUS
<1>2. PICK doc : doc = Doc(d)
  OBVIOUS
<1>3. PICK p : p = PropertyOf(d)
  OBVIOUS
<1>4. PICK o \in {"ingested", "failed"} : post' = Entered(d, o)
  BY DEF _ingest_attachment
<1>5. /\ At(post, d, "gate") /\ batch' = batch \cup {Ingested(doc)}
      /\ landed' = landed \cup {[for |-> p, report |-> r] : r \in process_document_bytes(doc)}
      /\ UNCHANGED <<address, mail, mailbox, event>>
  BY <1>2, <1>3 DEF _ingest_attachment, Ingested
<1>6. /\ t.pc \in {"attachments", "gate"} /\ Here(d) <= Len(Docs(d)) /\ Here(d) <= MaxAttachments
      /\ JudgedOK(doc, p, t.held) /\ DOMAIN doc.sections \subseteq Nat
  BY <1>1, <1>2, <1>3, <1>5, AtGate
<1>7. LandedWasAsked'
  <2>1. \A r \in process_document_bytes(doc) : r.property = p /\ r.type \in Required
    BY <1>6, PassedLands DEF JudgedOK
  <2> QED BY <1>5, <2>1 DEF InInv, LandedWasAsked
<1>8. \A b \in batch' : b = [doc |-> b.doc, status |-> b.status] /\ b.status \in {"transformed", "failed"}
  BY <1>5 DEF InInv, MailsOK, Ingested
<1>9. EntryOK(o, doc, t.held)'
  BY <1>5, <1>6 DEF EntryOK, Entries, JudgedOK
<1> QED BY <1>1, <1>2, <1>4, <1>5, <1>6, <1>7, <1>8, <1>9, EnterStep

(* The gate rolls a document back. *)
LEMMA FailureStep ==
  ASSUME InInv, NEW d \in Delivery, _record_failure(d)
  PROVE  InInv'
<1>1. PICK t : t = post[d]
  OBVIOUS
<1>2. PICK doc : doc = Doc(d)
  OBVIOUS
<1>3. /\ At(post, d, "gate") /\ batch' = batch \cup {[doc |-> doc, status |-> "failed"]}
      /\ post' = Entered(d, "failed") /\ UNCHANGED <<address, mail, mailbox, landed, event>>
  BY <1>2 DEF _record_failure
<1>4. /\ t.pc \in {"attachments", "gate"} /\ Here(d) <= Len(Docs(d)) /\ Here(d) <= MaxAttachments
      /\ JudgedOK(doc, PropertyOf(d), t.held)
  BY <1>1, <1>2, <1>3, AtGate
<1>5. LandedWasAsked'
  BY <1>3 DEF InInv, LandedWasAsked
<1>6. \A b \in batch' : b = [doc |-> b.doc, status |-> b.status] /\ b.status \in {"transformed", "failed"}
  BY <1>3 DEF InInv, MailsOK
<1>7. EntryOK("failed", doc, t.held)'
  BY <1>3, <1>4 DEF EntryOK, Entries, JudgedOK
<1> QED BY <1>1, <1>2, <1>3, <1>4, <1>5, <1>6, <1>7, EnterStep

-----------------------------------------------------------------------------
(* The event *)

(* What the outcome of a whole message says of its attachments. *)
LEMMA AggregateSays ==
  ASSUME NEW es \in Seq(Entries)
  PROVE  /\ _aggregate(es) \in IntakeOutcomes
         /\ \A i \in DOMAIN es : es[i] = "failed" => _aggregate(es) \in {"partial", "failed"}
         /\ _aggregate(es) = "ingested" => \A i \in DOMAIN es : es[i] = "ingested"
<1>1. CASE \A i \in DOMAIN es : es[i] = "ingested"
  BY <1>1 DEF _aggregate, IntakeOutcomes
<1>2. CASE \E i \in DOMAIN es : es[i] # "ingested"
  <2>1. 1 \in DOMAIN es /\ es[1] \in Entries
    BY <1>2
  <2> QED BY <1>2, <2>1 DEF _aggregate, IntakeOutcomes, Entries
<1> QED BY <1>1, <1>2

(* The event of a message all of whose attachments are disposed of. *)
LEMMA DisposedEvent ==
  ASSUME InInv, NEW d \in Delivery, Disposed(d), NEW t, t = post[d], NEW es, es = _attachment_entries(d)
  PROVE  \A e \in {[outcome |-> _aggregate(es), entries |-> es, held |-> t.held]} : EventOK(t.m, e)
<1> SUFFICES ASSUME NEW e, e = [outcome |-> _aggregate(es), entries |-> es, held |-> t.held]
             PROVE  EventOK(t.m, e)
  OBVIOUS
<1>1. PostOK(t) /\ t.pc = "attachments"
  BY DEF InInv, PostsOK, Disposed, At
<1>2. PICK docs : docs = mail[t.m].letter.docs
  OBVIOUS
<1>3. Known(t.m) /\ EntriesOK(t.entries, docs, t.held)
  BY <1>1, <1>2 DEF PostOK
<1>4. PICK n \in Nat : n = Len(t.entries)
  BY <1>3 DEF EntriesOK
<1>5. Len(docs) \in Nat /\ MaxAttachments \in Nat
  BY <1>2, <1>3, IntakeConstants DEF Known
<1>6. /\ n <= Len(docs) /\ n <= MaxAttachments /\ (n + 1 > Len(docs) \/ n + 1 > MaxAttachments)
      /\ es = t.entries \o (IF Len(docs) > MaxAttachments THEN <<"failed">> ELSE <<>>)
  BY <1>2, <1>3, <1>4 DEF EntriesOK, Disposed, Here, Docs, _attachment_entries
<1>7. t.entries \in Seq(Entries) /\ \A i \in 1..n : EntryOK(t.entries[i], docs[i], t.held)
  BY <1>3, <1>4 DEF EntriesOK
<1>8. /\ es \in Seq(Entries) /\ \A i \in 1..n : es[i] = t.entries[i]
      /\ \/ Len(docs) > MaxAttachments /\ Len(es) = n + 1 /\ es[n + 1] = "failed" /\ n = MaxAttachments
         \/ Len(docs) <= MaxAttachments /\ Len(es) = n /\ n = Len(docs)
  <2>1. CASE Len(docs) > MaxAttachments
    <3>1. es = Append(t.entries, "failed")
      BY <1>4, <1>6, <1>7, <2>1
    <3>2. "failed" \in Entries
      BY DEF Entries
    <3> QED BY <1>4, <1>5, <1>6, <1>7, <2>1, <3>1, <3>2
  <2>2. CASE ~(Len(docs) > MaxAttachments)
    <3>1. es = t.entries
      BY <1>6, <1>7, <2>2
    <3> QED BY <1>4, <1>5, <1>6, <1>7, <2>2, <3>1
  <2> QED BY <2>1, <2>2
<1>9. /\ _aggregate(es) \in IntakeOutcomes
      /\ \A i \in DOMAIN es : es[i] = "failed" => _aggregate(es) \in {"partial", "failed"}
      /\ _aggregate(es) = "ingested" => \A i \in DOMAIN es : es[i] = "ingested"
  BY <1>8, AggregateSays
<1>10. e.outcome = _aggregate(es) /\ e.entries = es /\ e.held = t.held
  OBVIOUS
<1>11. ASSUME NEW i \in DOMAIN es
       PROVE  /\ es[i] \in {"ingested", "duplicate"} => Ingested(docs[i]) \in batch
              /\ i <= Len(docs) /\ i <= MaxAttachments /\ docs[i] \in t.held /\ ~docs[i].large
                   => es[i] = "duplicate"
  <2>1. i \in 1..n \/ (i = n + 1 /\ n = MaxAttachments /\ es[i] = "failed")
    BY <1>8
  <2>2. CASE i \in 1..n
    BY <1>7, <1>8, <2>2 DEF EntryOK
  <2>3. CASE i = n + 1 /\ n = MaxAttachments /\ es[i] = "failed"
    BY <1>4, <2>3
  <2> QED BY <2>1, <2>2, <2>3
<1>12. _aggregate(es) = "ingested" => Len(es) = Len(docs)
  <2>1. ASSUME Len(docs) > MaxAttachments PROVE _aggregate(es) # "ingested"
    <3>1. n + 1 \in DOMAIN es /\ es[n + 1] = "failed"
      BY <1>4, <1>5, <1>8, <2>1
    <3> QED BY <1>9, <3>1
  <2> QED BY <1>5, <1>8, <2>1
<1> QED BY <1>2, <1>3, <1>9, <1>10, <1>11, <1>12 DEF EventOK

(* The event commits; an answer that is lost has the message forwarded too. *)
LEMMA RecordStep ==
  ASSUME InInv, NEW d \in Delivery, NEW answered \in BOOLEAN, _record(d, answered)
  PROVE  InInv'
<1>1. PICK t : t = post[d]
  OBVIOUS
<1>2. PICK m : m = t.m
  OBVIOUS
<1>3. PICK es : es = _attachment_entries(d)
  OBVIOUS
<1>4. PICK e : /\ event' = [event EXCEPT ![m] = @ \cup {e}]
               /\ \/ /\ At(post, d, "record")
                     /\ e = [outcome |-> t.outcome, entries |-> <<>>, held |-> {}]
                  \/ /\ Disposed(d)
                     /\ e = [outcome |-> _aggregate(es), entries |-> es, held |-> t.held]
  BY <1>1, <1>2, <1>3 DEF _record
<1>5. /\ mailbox' \in {mailbox, mailbox \cup {m}} /\ post' = Goes(post, d, Idle)
      /\ UNCHANGED <<address, mail, batch, landed>>
  BY <1>1, <1>2 DEF _record
<1>6. PostOK(t) /\ m \in Mail /\ Sent(m)
  BY <1>1, <1>2, <1>4 DEF InInv, PostsOK, PostOK, Carrying, At, Disposed
<1>7. EventOK(m, e)
  <2>1. CASE Disposed(d) /\ e = [outcome |-> _aggregate(es), entries |-> es, held |-> t.held]
    BY <1>1, <1>2, <1>3, <2>1, DisposedEvent
  <2>2. CASE At(post, d, "record") /\ e = [outcome |-> t.outcome, entries |-> <<>>, held |-> {}]
    <3>1. Known(m) /\ t.outcome \in {"revoked_address", "sender_rejected", "no_attachment"}
      BY <1>1, <1>2, <1>6, <2>2 DEF PostOK, At
    <3>2. e.outcome = t.outcome /\ DOMAIN e.entries = {}
      BY <2>2
    <3> QED BY <3>1, <3>2 DEF EventOK, IntakeOutcomes
  <2> QED BY <1>4, <2>1, <2>2
<1>8. /\ DOMAIN event = Mail /\ DOMAIN event' = Mail /\ event'[m] = event[m] \cup {e}
      /\ \A n \in Mail \ {m} : event'[n] = event[n]
  BY <1>4, <1>6 DEF InInv, EventsOK
<1>9. DOMAIN post' = Delivery /\ post'[d] = Idle /\ \A v \in Delivery \ {d} : post'[v] = post[v]
  BY <1>5, OneMoves
<1>10. Grows /\ Rows' = Rows /\ \A n \in Mail : (Sent(n)' <=> Sent(n)) /\ (Known(n)' <=> Known(n))
  BY <1>5 DEF Grows, Rows, Sent, Known
<1>11. AddressesOK'
  BY <1>5 DEF InInv, AddressesOK, Rows, Live
<1>12. MailsOK' /\ LandedWasAsked' /\ mailbox \subseteq mailbox'
  BY <1>5, <1>6, <1>10 DEF InInv, MailsOK, LandedWasAsked
<1>13. PostOK(Idle)'
  BY DEF PostOK, Idle, Carrying
<1>14. EventOK(m, e)'
  BY <1>6, <1>7, <1>10, EventKept
<1>15. \A n \in Mail : event[n] \subseteq event'[n] /\ \A x \in event'[n] : x \in event[n] \/ EventOK(n, x)'
  BY <1>8, <1>14
<1>16. \A v \in Delivery, n \in Mail : Carries(post[v], n) => Carries(post'[v], n) \/ event'[n] # {}
  BY <1>1, <1>2, <1>8, <1>9 DEF Carries
<1> QED BY <1>8, <1>9, <1>10, <1>11, <1>12, <1>13, <1>15, <1>16, PostsStep

-----------------------------------------------------------------------------
(* The invariant is inductive. *)
LEMMA InInvStep == ASSUME InInv, [InNext]_inVars PROVE InInv'
<1>1. CASE UNCHANGED inVars
  <2>1. Grows
    BY <1>1 DEF inVars, Grows, Rows, Sent
  <2>2. AddressesOK'
    BY <1>1 DEF inVars, InInv, AddressesOK, Rows, Live
  <2>3. MailsOK' /\ LandedWasAsked'
    BY <1>1 DEF inVars, InInv, MailsOK, Sent, Known, Rows, LandedWasAsked
  <2>4. DOMAIN post' = Delivery /\ DOMAIN event' = Mail
    BY <1>1 DEF inVars, InInv, PostsOK, EventsOK
  <2>5. \A m \in Mail : Sent(m)' <=> Sent(m)
    BY <1>1 DEF inVars, Sent
  <2>6. \A v \in Delivery, m \in Mail : Carries(post[v], m) => Carries(post'[v], m)
    BY <1>1 DEF inVars
  <2> QED BY <1>1, <2>1, <2>2, <2>3, <2>4, <2>5, <2>6, PostsStep DEF inVars
<1>2. ASSUME NEW p \in Hotel, create_intake_address(p) PROVE InInv'
  BY <1>2, CreateStep
<1>3. ASSUME NEW d \in Delivery, \E p \in Hotel, then \in {"rotate", "senders"} : _require_active(d, p, then)
      PROVE  InInv'
  BY <1>3, RequireStep
<1>4. ASSUME NEW d \in Delivery, rotate(d) \/ \E senders \in Policies : set_sender_domains(d, senders)
      PROVE  InInv'
  BY <1>4, RotateStep, SendersStep
<1>5. ASSUME NEW d \in Delivery, NEW m \in Mail,
             \/ \E letter \in Letter, to \in Rows \cup {Nobody} : Send(d, m, letter, to)
             \/ Redeliver(d, m)
      PROVE  InInv'
  BY <1>5, SendStep, RedeliverStep
<1>6. ASSUME NEW d \in Delivery, _resolve_address(d) \/ Judge(d) \/ _record_failure(d) \/ Forward(d)
      PROVE  InInv'
  BY <1>6, ResolveStep, JudgeStep, FailureStep, ForwardStep
<1>7. ASSUME NEW d \in Delivery, NEW b \in BOOLEAN, _ingest_attachment(d, b) \/ _record(d, b)
      PROVE  InInv'
  BY <1>7, IngestStep, RecordStep
<1> QED BY <1>1, <1>2, <1>3, <1>4, <1>5, <1>6, <1>7 DEF InNext

(* Mail is neither lost nor misfiled nor misreported, for any set of        *)
(* requests, messages, properties and documents, however often a message is *)
(* delivered again and at whatever step a delivery dies.                    *)
THEOREM MailIsSafe == InSpec => []IntakeSafe
<1>1. InInit => InInv
  BY InInitInv
<1>2. InInv /\ [InNext]_inVars => InInv'
  BY InInvStep
<1>3. InInv => IntakeSafe
  BY InInvSafe
<1> QED BY <1>1, <1>2, <1>3, PTL DEF InSpec
=============================================================================
