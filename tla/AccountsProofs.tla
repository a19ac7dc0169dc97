--------------------------- MODULE AccountsProofs ---------------------------
(***************************************************************************)
(* The accounting connection and the calculations beside it.  The stored   *)
(* refresh token lives, for any number of concurrent pushes, reconnects and*)
(* companies (QboTokens); the push ledger and QuickBooks agree on every    *)
(* day, for any number of days and plans and any run of lost, rejected and *)
(* repeated pushes, as long as sessions do not overlap (QboPush): two that *)
(* do may both find a day unpushed and book it under different plans.  The *)
(* fiscal calendars tile the days (Fiscal), hours are classified once and  *)
(* pay grows with them (WorkedHours), and a paycheck is one property's     *)
(* (Paychecks).                                                            *)
(***************************************************************************)
EXTENDS QboTokens, QboPush, Fiscal, WorkedHours, Paychecks, SumTheorems

-----------------------------------------------------------------------------
(* Refresh tokens (QboTokens) *)

(* A push that runs. *)
Running ==
    [pc : {"load", "grant", "store", "post"}, realm : Realm, spent : Token \cup {NoToken},
     new : Token \cup {NoToken}, retried : BOOLEAN, throttled : Nat]

ClientsOK ==
    /\ client \in [Client -> Running \cup {Idle}]
    /\ \A c \in Client : Pc(c, "grant") \/ Pc(c, "store") => client[c].spent \in Token
    /\ \A c \in Client : Pc(c, "store") => client[c].new \in Token

(* The serial numbers of tokens nobody has minted are unused. *)
MintedInOrder ==
    /\ \A t \in valid \cup granted : t.n <= minted
    /\ cred.connected => cred.token.n <= minted
    /\ \A c \in Client : Pc(c, "grant") => client[c].spent.n <= minted
    /\ \A c \in Client : Pc(c, "store") => client[c].new.n <= minted

(* A token on its way into the row has never been in it, so that no push    *)
(* can have loaded, let alone spent it: it is known to its carrier alone.   *)
Unseen(t) ==
    /\ t \in valid
    /\ cred.connected => cred.token # t
    /\ \A c \in Client : Pc(c, "grant") => client[c].spent # t

OnTheWayIsUnseen ==
    /\ \A t \in granted : Unseen(t)
    /\ \A c \in Client : Pc(c, "store") =>
         /\ Unseen(client[c].new)
         /\ client[c].new \notin granted
         /\ \A d \in Client : d # c /\ Pc(d, "store") => client[d].new # client[c].new

QtInv == ClientsOK /\ MintedInOrder /\ OnTheWayIsUnseen /\ StoredTokenLives

(* Nothing is connected and nobody pushes. *)
LEMMA QtInitInv == ASSUME QtInit PROVE QtInv
<1>1. \A c \in Client : client[c] = Idle /\ client[c].pc = "idle"
  BY DEF QtInit, Idle
<1>2. ClientsOK
  BY <1>1 DEF QtInit, ClientsOK, Pc
<1>3. ~cred.connected
  BY DEF QtInit, NoCred
<1>4. MintedInOrder /\ OnTheWayIsUnseen
  BY <1>1, <1>3 DEF QtInit, MintedInOrder, OnTheWayIsUnseen, Unseen, Pc
<1>5. consent \in BOOLEAN
  BY Zenon DEF QtInit
<1>6. QtTypeOK
  BY <1>5, TokenConstants DEF QtInit, QtTypeOK
<1> QED BY <1>2, <1>3, <1>4, <1>6 DEF QtInv, StoredTokenLives

(* What Intuit mints is a token nobody has. *)
LEMMA MintIsFresh ==
  ASSUME QtInv, minted < MaxToken, NEW r \in Realm
  PROVE  /\ Mint(r) \in Token /\ Mint(r).n = minted + 1 /\ Mint(r).realm = r
         /\ minted + 1 \in 0..MaxToken
         /\ Mint(r) \notin valid /\ Mint(r) \notin granted
         /\ cred.connected => cred.token # Mint(r)
         /\ \A c \in Client : Pc(c, "grant") => client[c].spent # Mint(r)
         /\ \A c \in Client : Pc(c, "store") => client[c].new # Mint(r)
<1>1. minted \in 0..MaxToken /\ minted + 1 \in 1..MaxToken
  BY TokenConstants DEF QtInv, StoredTokenLives, QtTypeOK
<1>2. Mint(r) \in Token /\ Mint(r).n = minted + 1 /\ Mint(r).realm = r
  BY <1>1 DEF Mint, Token
<1>3. \A t : t = Mint(r) => ~(t.n <= minted)
  BY <1>1, <1>2
<1> QED BY <1>1, <1>2, <1>3 DEF QtInv, MintedInOrder

(* The state of the consent is TRUE or FALSE, whoever last wrote it. *)
LEMMA ConsentStep == ASSUME QtInv, [QtNext]_qtVars PROVE consent' \in BOOLEAN
<1>1. consent \in BOOLEAN
  BY DEF QtInv, StoredTokenLives, QtTypeOK
<1>2. \/ consent' = consent \/ consent' = TRUE \/ consent' = FALSE
  BY ZenonT(40) DEF QtNext, qtVars, authorize, StateExpires, disconnect, callback, _store_credential,
         resolve_qbo, Push, load, Grant, store, PostJournalEntry, Crash
<1> QED BY <1>1, <1>2, Zenon

(* A connected row has its token. *)
LEMMA CredType == ASSUME QtTypeOK, cred.connected PROVE cred.token \in Token /\ cred.realm \in Realm
<1>1. CASE cred = NoCred
  BY <1>1 DEF NoCred
<1>2. CASE cred \in [connected : {TRUE}, realm : Realm, token : Token]
  BY <1>2
<1> QED BY <1>1, <1>2 DEF QtTypeOK

(* Steps outside the pushes. *)
LEMMA OutsideStep ==
  ASSUME QtInv,
         \/ authorize \/ StateExpires \/ disconnect
         \/ \E r \in Realm : callback(r)
         \/ \E t \in granted : _store_credential(t)
         \/ UNCHANGED qtVars
  PROVE  ClientsOK' /\ MintedInOrder' /\ OnTheWayIsUnseen' /\ (consent' \in BOOLEAN => StoredTokenLives')
<1> USE DEF QtInv, StoredTokenLives
<1>1. CASE authorize \/ StateExpires \/ UNCHANGED qtVars
  <2>1. UNCHANGED <<cred, valid, minted, lost, granted, client>>
    BY <1>1 DEF authorize, StateExpires, qtVars
  <2> QED BY <2>1 DEF ClientsOK, MintedInOrder, OnTheWayIsUnseen, Unseen, QtTypeOK, Pc
<1>2. CASE disconnect
  <2>1. ~cred'.connected /\ cred' = NoCred
    BY <1>2 DEF disconnect, NoCred
  <2> QED BY <1>2, <2>1 DEF disconnect, ClientsOK, MintedInOrder, OnTheWayIsUnseen,
              Unseen, QtTypeOK, Pc
<1>3. ASSUME NEW r \in Realm, callback(r)
      PROVE  ClientsOK' /\ MintedInOrder' /\ OnTheWayIsUnseen' /\ (consent' \in BOOLEAN => StoredTokenLives')
  <2>1. Reserved \in Nat
    <3>1. IsFiniteSet({c \in Client : client[c] # Idle})
      BY TokenConstants, FS_Subset
    <3> QED BY <3>1, FS_CardinalityType DEF Reserved
  <2>2. minted < MaxToken
    BY <1>3, <2>1, TokenConstants DEF callback, QtTypeOK
  <2> DEFINE new == Mint(r)
  <2>3. /\ new \in Token /\ new.n = minted + 1 /\ minted + 1 \in 0..MaxToken
        /\ new \notin valid /\ new \notin granted
        /\ cred.connected => cred.token # new
        /\ \A c \in Client : Pc(c, "grant") => client[c].spent # new
        /\ \A c \in Client : Pc(c, "store") => client[c].new # new
    BY <2>2, MintIsFresh
  <2>4. /\ valid' = valid \cup {new} /\ granted' = granted \cup {new} /\ minted' = minted + 1
        /\ UNCHANGED <<cred, lost, client>>
    BY <1>3 DEF callback
  <2> HIDE DEF new
  <2>5. ClientsOK' /\ OnTheWayIsUnseen'
    BY <2>3, <2>4 DEF ClientsOK, OnTheWayIsUnseen, Unseen, Pc
  <2>6. MintedInOrder'
    <3>1. minted \in Nat
      BY DEF QtTypeOK
    <3>2. valid \subseteq Token /\ granted \subseteq Token /\ (cred.connected => cred.token \in Token)
      BY CredType DEF QtTypeOK
    <3> QED BY <2>3, <2>4, <3>1, <3>2 DEF MintedInOrder, Pc, ClientsOK, Token
  <2>7. consent' \in BOOLEAN => StoredTokenLives'
    BY <2>3, <2>4 DEF QtTypeOK, Pc
  <2> QED BY <2>5, <2>6, <2>7
<1>4. ASSUME NEW t \in granted, _store_credential(t)
      PROVE  ClientsOK' /\ MintedInOrder' /\ OnTheWayIsUnseen' /\ (consent' \in BOOLEAN => StoredTokenLives')
  <2>1. t \in Token /\ t.realm \in Realm /\ t \in valid
    BY DEF QtTypeOK, Token, OnTheWayIsUnseen, Unseen
  <2>2. cred' = Cred(t) /\ cred'.connected /\ cred'.token = t
    BY <1>4 DEF _store_credential, Cred
  <2>3. cred' \in [connected : {TRUE}, realm : Realm, token : Token]
    BY <2>1, <2>2 DEF Cred
  <2>4. granted' = granted \ {t} /\ UNCHANGED <<valid, minted, lost, client>>
    BY <1>4 DEF _store_credential
  <2> QED BY <2>1, <2>2, <2>3, <2>4, ZenonT(40) DEF ClientsOK, MintedInOrder, OnTheWayIsUnseen, Unseen,
              QtTypeOK, Pc
<1> QED BY <1>1, <1>2, <1>3, <1>4

(* Steps of one push that leave the tokens alone: the push is idle        *)
(* afterwards, or loads, or has loaded the stored token, or posts.        *)
Quiet(c) ==
    \E k \in Running \cup {Idle} :
        /\ client' = [client EXCEPT ![c] = k]
        /\ k.pc # "store"
        /\ k.pc = "grant" => cred.connected /\ k.spent = cred.token
        /\ ~Pc(c, "store")
        /\ UNCHANGED <<cred, valid, minted, lost, consent, granted>>

(* A step that moves one client and leaves the tokens where they are. *)
LEMMA QuietStep ==
  ASSUME QtInv, NEW c \in Client, Quiet(c)
  PROVE  QtInv'
<1> USE DEF QtInv, StoredTokenLives
<1>1. PICK k \in Running \cup {Idle} :
        /\ client' = [client EXCEPT ![c] = k]
        /\ k.pc # "store"
        /\ k.pc = "grant" => cred.connected /\ k.spent = cred.token
        /\ ~Pc(c, "store")
        /\ UNCHANGED <<cred, valid, minted, lost, consent, granted>>
  BY DEF Quiet
<1>2. \A d \in Client : client'[d] = IF d = c THEN k ELSE client[d]
  BY <1>1 DEF ClientsOK
<1>3. ClientsOK'
  <2>1. client' \in [Client -> Running \cup {Idle}]
    BY <1>1 DEF ClientsOK
  <2>2. k.pc = "grant" => k.spent \in Token
    BY <1>1, CredType
  <2> QED BY <1>1, <1>2, <2>1, <2>2 DEF ClientsOK, Pc
<1>4. MintedInOrder'
  BY <1>1, <1>2 DEF MintedInOrder, Pc
<1>5. OnTheWayIsUnseen'
  BY <1>1, <1>2 DEF OnTheWayIsUnseen, Unseen, Pc
<1>6. QtTypeOK'
  BY <1>1 DEF QtTypeOK
<1>7. cred'.connected =>
         \/ cred'.token \in valid'
         \/ cred'.token \in lost'
         \/ \E d \in Client : Pc(d, "store")' /\ client'[d].spent = cred'.token
  BY <1>1, <1>2 DEF Pc
<1> QED BY <1>3, <1>4, <1>5, <1>6, <1>7

(* The reads, answers and crashes are such steps. *)
LEMMA QuietActions ==
  ASSUME QtInv, NEW c \in Client,
         \/ resolve_qbo(c) \/ load(c)
         \/ \E s \in {200, 400, 401, 429} : PostJournalEntry(c, s)
         \/ Crash(c) /\ ~Pc(c, "store")
  PROVE  Quiet(c)
<1>0. client[c] \in Running \cup {Idle} /\ Idle.pc = "idle" /\ QtTypeOK
  BY DEF QtInv, ClientsOK, Idle, StoredTokenLives
<1>1. CASE resolve_qbo(c)
  <2> DEFINE k == [pc |-> "load", realm |-> cred.realm, spent |-> NoToken, new |-> NoToken,
                   retried |-> FALSE, throttled |-> 0]
  <2>1. cred.realm \in Realm
    BY <1>0, <1>1, CredType DEF resolve_qbo
  <2>2. k \in Running
    BY <2>1 DEF Running
  <2>3. /\ client' = [client EXCEPT ![c] = k] /\ k.pc = "load" /\ client[c] = Idle
        /\ UNCHANGED <<cred, valid, minted, lost, consent, granted>>
    BY <1>1 DEF resolve_qbo, Goto
  <2> HIDE DEF k
  <2> QED BY <1>0, <2>2, <2>3 DEF Quiet, Pc
<1>2. CASE load(c)
  <2>1. client[c] \in Running /\ Pc(c, "load")
    BY <1>0, <1>2 DEF load, Pc
  <2>2. CASE cred.connected
    <3> DEFINE k == [client[c] EXCEPT !.pc = "grant", !.spent = cred.token]
    <3>1. cred.token \in Token
      BY <1>0, <2>2, CredType
    <3>2. k \in Running /\ k.pc = "grant" /\ k.spent = cred.token
      BY <2>1, <3>1 DEF Running
    <3>3. client' = [client EXCEPT ![c] = k] /\ UNCHANGED <<cred, valid, minted, lost, consent, granted>>
      BY <1>2, <2>2 DEF load, Goto
    <3> QED BY <2>1, <2>2, <3>2, <3>3 DEF Quiet, Pc
  <2>3. CASE ~cred.connected
    BY <1>0, <1>2, <2>1, <2>3 DEF load, Quiet, Goto, Pc
  <2> QED BY <2>2, <2>3
<1>3. ASSUME NEW s \in {200, 400, 401, 429}, PostJournalEntry(c, s)
      PROVE  Quiet(c)
  <2>1. client[c] \in Running /\ Pc(c, "post") /\ client[c].pc = "post"
    BY <1>0, <1>3 DEF PostJournalEntry, Pc
  <2> DEFINE k == IF s = 401 THEN Unauthorized(client[c])
                  ELSE IF s = 429 THEN Throttled(client[c]) ELSE Idle
  <2>2. Unauthorized(client[c]) \in Running \cup {Idle} /\ Unauthorized(client[c]).pc \in {"idle", "load"}
    BY <1>0, <2>1, ZenonT(40) DEF Unauthorized, Running
  <2>3. Throttled(client[c]) \in Running \cup {Idle} /\ Throttled(client[c]).pc \in {"idle", "post"}
    BY <1>0, <2>1 DEF Throttled, Running
  <2>4. k \in Running \cup {Idle} /\ k.pc \in {"idle", "load", "post"}
    BY <1>0, <2>2, <2>3
  <2>5. client' = [client EXCEPT ![c] = k] /\ UNCHANGED <<cred, valid, minted, lost, consent, granted>>
    BY <1>3 DEF PostJournalEntry, Goto
  <2>6. k.pc # "store" /\ k.pc # "grant" /\ ~Pc(c, "store")
    BY <2>1, <2>4 DEF Pc
  <2> HIDE DEF k
  <2> QED BY <2>4, <2>5, <2>6 DEF Quiet
<1>4. CASE Crash(c) /\ ~Pc(c, "store")
  BY <1>0, <1>4 DEF Crash, Quiet, Goto
<1> QED BY <1>1, <1>2, <1>3, <1>4

(* The refresh grant: what it spends, if anybody needs it, is carried on    *)
(* by this push or counted as lost, and what it mints is unseen.            *)
LEMMA GrantStep ==
  ASSUME QtInv, NEW c \in Client, NEW answered \in BOOLEAN, Grant(c, answered)
  PROVE  QtInv'
<1> USE DEF QtInv
<1> DEFINE t == client[c].spent
<1> DEFINE new == Mint(t.realm)
<1>0. QtTypeOK /\ client \in [Client -> Running \cup {Idle}] /\ Idle.pc = "idle"
  BY DEF StoredTokenLives, ClientsOK, Idle
<1>1. Pc(c, "grant") /\ ~Pc(c, "store") /\ client[c] \in Running /\ t \in Token /\ t.realm \in Realm
  BY DEF Grant, ClientsOK, Pc, Idle, Token
<1>2. CASE t \notin valid
  <2>1. /\ client' = [client EXCEPT ![c] = Idle]
        /\ UNCHANGED <<cred, valid, minted, lost, consent, granted>>
    BY <1>2 DEF Grant, Goto
  <2>2. Quiet(c)
    BY <1>0, <1>1, <2>1 DEF Quiet
  <2> QED BY <2>2, QuietStep
<1>3. CASE t \in valid
  <2>1. minted < MaxToken /\ valid' = (valid \ {t}) \cup {new} /\ minted' = minted + 1
        /\ UNCHANGED <<cred, granted>>
    BY <1>3 DEF Grant
  <2>2. /\ new \in Token /\ new.n = minted + 1 /\ minted + 1 \in 0..MaxToken
        /\ new \notin valid /\ new \notin granted
        /\ cred.connected => cred.token # new
        /\ \A d \in Client : Pc(d, "grant") => client[d].spent # new
        /\ \A d \in Client : Pc(d, "store") => client[d].new # new
    BY <1>1, <2>1, MintIsFresh
  <2>3. consent' \in BOOLEAN
    BY <1>0 DEF Grant, QtTypeOK
  <2>4. PICK k \in Running \cup {Idle} :
          /\ client' = [client EXCEPT ![c] = k]
          /\ \/ k.pc = "store" /\ k.spent = t /\ k.new = new /\ lost' = lost
             \/ k.pc = "idle" /\ lost' = lost \cup {t}
    <3>1. CASE answered
      <4> DEFINE k == [client[c] EXCEPT !.pc = "store", !.new = new]
      <4>1. k \in Running /\ k.pc = "store" /\ k.spent = t /\ k.new = new
        BY <1>1, <2>2 DEF Running
      <4>2. client' = [client EXCEPT ![c] = k] /\ lost' = lost
        BY <1>3, <3>1 DEF Grant, Goto
      <4> HIDE DEF k
      <4> QED BY <4>1, <4>2
    <3>2. CASE ~answered
      BY <1>0, <1>3, <3>2 DEF Grant, Goto
    <3> QED BY <3>1, <3>2
  <2> HIDE DEF new, t
  <2>5. \A d \in Client : client'[d] = IF d = c THEN k ELSE client[d]
    BY <1>0, <2>4
  <2>6. ClientsOK'
    <3>1. client' \in [Client -> Running \cup {Idle}]
      BY <1>0, <2>4
    <3> QED BY <1>1, <2>2, <2>4, <2>5, <3>1 DEF ClientsOK, Pc
  <2>7. MintedInOrder'
    <3>1. minted \in Nat /\ valid \cup granted \subseteq Token
      BY <1>0 DEF QtTypeOK
    <3>2. cred.connected => cred.token \in Token
      BY <1>0, CredType
    <3>3. \A u \in Token : u.n \in Nat
      BY DEF Token
    <3> QED BY <2>1, <2>2, <2>4, <2>5, <3>1, <3>2, <3>3 DEF MintedInOrder, Pc, ClientsOK
  <2>8. OnTheWayIsUnseen'
    <3>1. \A u \in granted : u # t
      BY <1>1 DEF OnTheWayIsUnseen, Unseen, t
    <3>2. \A d \in Client : Pc(d, "store") => client[d].new # t
      BY <1>1 DEF OnTheWayIsUnseen, Unseen, t
    <3> QED BY <2>1, <2>2, <2>4, <2>5, <3>1, <3>2 DEF OnTheWayIsUnseen, Unseen, Pc
  <2>9. QtTypeOK'
    BY <1>0, <1>1, <2>1, <2>2, <2>3, <2>4 DEF QtTypeOK
  <2>10. cred'.connected =>
         \/ cred'.token \in valid'
         \/ cred'.token \in lost'
         \/ \E d \in Client : Pc(d, "store")' /\ client'[d].spent = cred'.token
    BY <1>1, <2>1, <2>4, <2>5 DEF Pc, StoredTokenLives
  <2> QED BY <2>6, <2>7, <2>8, <2>9, <2>10 DEF StoredTokenLives
<1> QED BY <1>2, <1>3

(* The write-back, and a death in front of it. *)
LEMMA StoreStep ==
  ASSUME QtInv, NEW c \in Client, store(c) \/ (Crash(c) /\ Pc(c, "store"))
  PROVE  QtInv'
<1> USE DEF QtInv
<1>0. QtTypeOK /\ client \in [Client -> Running \cup {Idle}]
  BY DEF StoredTokenLives, ClientsOK
<1>1. Pc(c, "store") /\ client[c] \in Running /\ client[c].new \in Token /\ client[c].spent \in Token
  BY DEF store, ClientsOK, Pc, Idle
<1>2. PICK k \in Running \cup {Idle} :
        /\ client' = [client EXCEPT ![c] = k]
        /\ k.pc \in {"idle", "post"}
        /\ UNCHANGED <<valid, minted, consent, granted>>
        /\ lost' = lost \/ lost' = lost \cup {client[c].spent}
        /\ \/ /\ cred.connected /\ cred' = [cred EXCEPT !.token = client[c].new]
           \/ /\ ~cred.connected /\ cred' = cred
           \/ /\ cred' = cred /\ lost' = lost \cup {client[c].spent}
  <2>1. CASE store(c) /\ cred.connected
    <3> DEFINE k == [client[c] EXCEPT !.pc = "post"]
    <3>1. k \in Running /\ k.pc = "post"
      BY <1>1 DEF Running
    <3>2. client' = [client EXCEPT ![c] = k]
      BY <2>1 DEF store, Goto
    <3> HIDE DEF k
    <3> QED BY <2>1, <3>1, <3>2 DEF store
  <2>2. CASE store(c) /\ ~cred.connected
    BY <2>2 DEF store, Goto, Idle
  <2>3. CASE Crash(c) /\ Pc(c, "store")
    BY <2>3 DEF Crash, Goto, Idle
  <2> QED BY <2>1, <2>2, <2>3
<1>3. \A d \in Client : client'[d] = IF d = c THEN k ELSE client[d]
  BY <1>0, <1>2
<1>4. cred' = cred \/ (cred'.connected /\ cred'.token = client[c].new)
  <2>1. ASSUME cred.connected, cred' = [cred EXCEPT !.token = client[c].new]
        PROVE  cred'.connected /\ cred'.token = client[c].new
    <3>1. cred \in [connected : {TRUE}, realm : Realm, token : Token]
      <4>1. cred # NoCred
        BY <2>1 DEF NoCred
      <4> QED BY <1>0, <4>1 DEF QtTypeOK
    <3> QED BY <2>1, <3>1
  <2> QED BY <1>2, <2>1
<1>5. ClientsOK'
  <2>1. client' \in [Client -> Running \cup {Idle}]
    BY <1>0, <1>2
  <2> QED BY <1>2, <1>3, <2>1 DEF ClientsOK, Pc
<1>6. MintedInOrder'
  BY <1>1, <1>2, <1>3, <1>4 DEF MintedInOrder, Pc
<1>7. OnTheWayIsUnseen'
  BY <1>1, <1>2, <1>3, <1>4 DEF OnTheWayIsUnseen, Unseen, Pc
<1>8. QtTypeOK'
  <2>1. cred' = NoCred \/ cred' \in [connected : {TRUE}, realm : Realm, token : Token]
    <3>1. CASE cred = NoCred
      BY <1>2, <3>1 DEF NoCred
    <3>2. CASE cred \in [connected : {TRUE}, realm : Realm, token : Token]
      BY <1>1, <1>2, <3>2
    <3> QED BY <1>0, <3>1, <3>2 DEF QtTypeOK
  <2> QED BY <1>0, <1>1, <1>2, <2>1 DEF QtTypeOK
<1>9. cred'.connected =>
         \/ cred'.token \in valid'
         \/ cred'.token \in lost'
         \/ \E d \in Client : Pc(d, "store")' /\ client'[d].spent = cred'.token
  <2>1. CASE cred' # cred
    BY <1>1, <1>2, <1>4, <2>1 DEF OnTheWayIsUnseen, Unseen
  <2>2. CASE cred' = cred /\ cred.connected
    <3>1. CASE lost' = lost \cup {client[c].spent}
      BY <1>2, <1>3, <2>2, <3>1 DEF StoredTokenLives, Pc
    <3>2. CASE cred' = [cred EXCEPT !.token = client[c].new]
      BY <1>1, <1>2, <1>4, <2>2, <3>2 DEF OnTheWayIsUnseen, Unseen, QtTypeOK
    <3> QED BY <1>2, <2>2, <3>1, <3>2
  <2> QED BY <2>1, <2>2
<1> QED BY <1>5, <1>6, <1>7, <1>8, <1>9 DEF StoredTokenLives

(* The invariant is inductive. *)
LEMMA QtStep == ASSUME QtInv, [QtNext]_qtVars PROVE QtInv'
<1>1. ASSUME NEW c \in Client, resolve_qbo(c) \/ Push(c) \/ Grant(c, FALSE) \/ Crash(c)
      PROVE  QtInv'
  BY <1>1, QuietActions, QuietStep, GrantStep, StoreStep, ZenonT(40) DEF Push
<1>2. ASSUME \/ authorize \/ StateExpires \/ disconnect
             \/ \E r \in Realm : callback(r)
             \/ \E t \in granted : _store_credential(t)
             \/ UNCHANGED qtVars
      PROVE  QtInv'
  BY <1>2, OutsideStep, ConsentStep DEF QtInv
<1> QED BY <1>1, <1>2 DEF QtNext

(* However pushes, reconnects, disconnects, crashes and lost answers        *)
(* interleave, the token on the row works at Intuit, or is about to be      *)
(* replaced by its successor, or a crash or a lost answer ate that one      *)
(* (DbTokenStore: "the winner's rotated token is in the row").              *)
THEOREM TokenLives == QtSpec => []StoredTokenLives
<1>1. QtInit => QtInv
  BY QtInitInv
<1>2. QtInv /\ [QtNext]_qtVars => QtInv'
  BY QtStep
<1>3. QtInv => StoredTokenLives
  BY DEF QtInv
<1> QED BY <1>1, <1>2, <1>3, PTL DEF QtSpec

-----------------------------------------------------------------------------
(* The daily push (QboPush) *)

Unpushed == {"absent", "failed"}

(* A row that says pushed names an entry that is in QuickBooks, and one     *)
(* that does not names none.                                                *)
RowOK(r, booked) ==
    /\ r.status \in {"pushed", "stale"} => r.hash \in booked /\ r.je = r.hash
    /\ r.status \in Unpushed => r.je = NoPlan

(* Rows drafted for days whose answer did not parse. *)
PendingOK(pending, todo, races) ==
    /\ \A x \in pending :
         /\ x.day \in Day \ todo /\ x.loaded \in Row /\ x.loaded.status \in Unpushed
         /\ x.day \notin races => x.loaded.je = NoPlan
         /\ \E c \in Content : x.draft = Attempt(x.loaded, c)
    /\ \A x, y \in pending : x.day = y.day => x = y

(* What the session holds about the day it is at. *)
Stale(t) == t.loaded.status = "pushed" /\ t.draft = [t.loaded EXCEPT !.status = "stale"]
Restored(t) == t.loaded.status = "stale" /\ t.draft = [t.loaded EXCEPT !.status = "pushed"]
Answered(t) ==
    /\ t.loaded.status \in Unpushed
    /\ t.draft = [status |-> "pushed", hash |-> t.plan, je |-> t.plan]
Refused(t) ==
    /\ t.loaded.status \in Unpushed
    /\ t.draft = [status |-> "failed", hash |-> t.plan, je |-> NoPlan]

Fields == {"pc", "todo", "month", "pending", "plan", "loaded", "draft"}

(* A session knows the row as it once was, whatever the row is now: right   *)
(* unless the day is a raced one.  More entries in QuickBooks and more raced *)
(* days leave it so.                                                        *)
SessionOK(t, books, races) ==
    /\ t.pc \in {"idle", "plan", "row", "post", "commit"}
    /\ t.pc # "idle" => /\ DOMAIN t = Fields /\ t.todo \subseteq Day /\ t.todo # {}
                        /\ PendingOK(t.pending, t.todo, races)
    /\ t.pc \in {"row", "post", "commit"} => t.plan \in Content
    /\ t.pc \in {"post", "commit"} =>
         /\ t.loaded \in Row
         /\ First(t.todo) \notin races => RowOK(t.loaded, books[First(t.todo)])
    /\ t.pc = "post" => t.loaded.status \in Unpushed /\ t.draft = Attempt(t.loaded, t.plan)
    /\ t.pc = "commit" =>
         \/ Stale(t) \/ Restored(t) \/ Refused(t)
         \/ Answered(t) /\ t.plan \in books[First(t.todo)]

(* An entry is in QuickBooks whose answer the session has not yet recorded. *)
Owes(t) == t.pc = "commit" /\ t.draft.status = "pushed" /\ t.loaded.status # "stale"
OwesFor(t, d, c) == Owes(t) /\ First(t.todo) = d /\ c = t.plan

Accounted(rows, books, eaten, sessions, races) ==
    \A d \in Day \ races : \A c \in books[d] :
        c = rows[d].je \/ c \in eaten[d] \/ \E w \in Worker : OwesFor(sessions[w], d, c)

RowsOK(rows, books, races) == \A d \in Day \ races : RowOK(rows[d], books[d])

Tables ==
    /\ content \in [Day -> Content \cup {NoPlan}]
    /\ entry \in [Day -> Content \cup {NoPlan}]
    /\ chartOn \in BOOLEAN
    /\ row \in [Day -> Row]
    /\ qbo \in [Day -> SUBSET Content]
    /\ orphan \in [Day -> SUBSET Content]
    /\ DOMAIN pusher = Worker
    /\ raced \subseteq Day

QpInv ==
    /\ Tables
    /\ RowsOK(row, qbo, raced)
    /\ \A w \in Worker : SessionOK(pusher[w], qbo, raced)
    /\ Accounted(row, qbo, orphan, pusher, raced)

(* Nothing is pushed and nobody pushes. *)
LEMMA QpInitInv == ASSUME QpInit PROVE QpInv
<1> USE QboConstants
<1>1. chartOn \in BOOLEAN
  BY Zenon DEF QpInit
<1>2. NoRow \in Row /\ NoRow.status = "absent" /\ NoRow.je = NoPlan
  BY DEF NoRow, Row
<1>3. Tables
  BY <1>1, <1>2 DEF QpInit, Tables
<1>4. RowsOK(row, qbo, raced)
  BY <1>2 DEF QpInit, RowsOK, RowOK, Unpushed
<1>5. ASSUME NEW w \in Worker PROVE SessionOK(pusher[w], qbo, raced)
  <2>1. pusher[w].pc = "idle"
    BY DEF QpInit, Idle
  <2> QED BY <2>1 DEF SessionOK
<1>6. Accounted(row, qbo, orphan, pusher, raced)
  BY DEF QpInit, Accounted
<1> QED BY <1>3, <1>4, <1>5, <1>6 DEF QpInv

(* A set of days has a first one. *)
LEMMA FirstDay ==
  ASSUME NEW S \in SUBSET Day, S # {}
  PROVE  First(S) \in S
<1> DEFINE R == OpToRel(<, Nat)
<1>1. IsWellFoundedOn(R, Nat)
  BY NatLessThanWellFounded, Zenon
<1>2. \A x, y \in Nat : y < x => <<y, x>> \in R
  BY Zenon DEF OpToRel
<1> HIDE DEF R
<1>3. S \subseteq Nat
  BY QboConstants
<1>4. PICK x \in S : \A y \in S : ~(<<y, x>> \in R)
  BY <1>1, <1>3, WFMin, Zenon
<1>5. \A y \in S : ~(y < x)
  BY <1>2, <1>3, <1>4, Zenon
<1>6. \A y \in S : x <= y
  BY <1>3, <1>5
<1> QED BY <1>6 DEF First

(* What a session knows stays right as QuickBooks and the raced days grow. *)
LEMMA StaysOK ==
  ASSUME NEW t, NEW books, NEW races, NEW more, NEW later, SessionOK(t, books, races),
         \A d \in Day : books[d] \subseteq more[d], races \subseteq later
  PROVE  SessionOK(t, more, later)
<1>1. t.pc # "idle" => First(t.todo) \in Day
  BY FirstDay DEF SessionOK
<1>2. PendingOK(t.pending, t.todo, races) => PendingOK(t.pending, t.todo, later)
  BY DEF PendingOK
<1>3. t.pc \in {"post", "commit"} =>
        /\ t.loaded \in Row
        /\ First(t.todo) \notin later => RowOK(t.loaded, more[First(t.todo)])
  BY <1>1 DEF SessionOK, RowOK
<1>4. t.pc = "commit" => \/ Stale(t) \/ Restored(t) \/ Refused(t)
                         \/ Answered(t) /\ t.plan \in more[First(t.todo)]
  BY <1>1 DEF SessionOK
<1> QED BY <1>2, <1>3, <1>4 DEF SessionOK

(* A session's move, once the tables and what it holds are in order. *)
LEMMA Moves ==
  ASSUME QpInv, NEW w \in Worker, NEW k, pusher' = [pusher EXCEPT ![w] = k],
         content' = content, entry' = entry, chartOn' = chartOn,
         row' \in [Day -> Row], qbo' \in [Day -> SUBSET Content], orphan' \in [Day -> SUBSET Content],
         \A d \in Day : qbo[d] \subseteq qbo'[d], raced \subseteq raced', raced' \subseteq Day,
         RowsOK(row', qbo', raced'), SessionOK(k, qbo', raced'),
         Accounted(row', qbo', orphan', pusher', raced')
  PROVE  QpInv'
<1>1. pusher'[w] = k /\ DOMAIN pusher' = Worker /\ \A v \in Worker \ {w} : pusher'[v] = pusher[v]
  BY DEF QpInv, Tables
<1>2. Tables'
  BY <1>1 DEF QpInv, Tables
<1>3. RowsOK(row, qbo, raced)'
  BY DEF RowsOK, RowOK, Unpushed
<1>4. ASSUME NEW v \in Worker PROVE SessionOK(pusher[v], qbo, raced)'
  <2>1. PICK t, books, races : t = pusher'[v] /\ books = qbo' /\ races = raced'
    OBVIOUS
  <2>2. SessionOK(t, books, races)
    <3>1. CASE v = w
      BY <1>1, <2>1, <3>1
    <3>2. CASE v # w
      <4>1. SessionOK(pusher[v], qbo, raced)
        BY DEF QpInv
      <4> QED BY <1>1, <2>1, <3>2, <4>1, StaysOK
    <3> QED BY <3>1, <3>2
  <2>3. SessionOK(pusher'[v], qbo', raced')
    BY <2>1, <2>2
  <2> QED BY ONLY <2>3 DEF SessionOK, PendingOK, Stale, Restored, Refused, Answered, First, Unpushed,
                           Attempt, RowOK
<1>5. Accounted(row, qbo, orphan, pusher, raced)'
  BY DEF Accounted, OwesFor, Owes, First
<1> QED BY <1>2, <1>3, <1>4, <1>5 DEF QpInv

(* What other sessions owe they still owe. *)
LEMMA OthersOwe ==
  ASSUME QpInv, NEW w \in Worker, NEW k, pusher' = [pusher EXCEPT ![w] = k], NEW d, NEW c,
         \E v \in Worker : OwesFor(pusher[v], d, c), ~OwesFor(pusher[w], d, c)
  PROVE  \E v \in Worker : OwesFor(pusher'[v], d, c)
<1>1. PICK v \in Worker : OwesFor(pusher[v], d, c)
  OBVIOUS
<1>2. v # w /\ pusher'[v] = pusher[v]
  BY <1>1 DEF QpInv, Tables
<1>3. OwesFor(pusher'[v], d, c)
  BY <1>1, <1>2
<1> QED BY <1>3

(* The same when the tables stay as they are. *)
LEMMA Reads ==
  ASSUME QpInv, NEW w \in Worker, NEW k, pusher' = [pusher EXCEPT ![w] = k],
         UNCHANGED <<content, entry, chartOn, row, qbo, orphan, raced>>,
         SessionOK(k, qbo, raced), ~Owes(pusher[w])
  PROVE  QpInv'
<1>1. Tables /\ RowsOK(row, qbo, raced) /\ Accounted(row, qbo, orphan, pusher, raced)
  BY DEF QpInv
<1>2. Accounted(row, qbo, orphan, pusher', raced)
  <2> SUFFICES ASSUME NEW d \in Day \ raced, NEW c \in qbo[d], c # row[d].je, c \notin orphan[d]
               PROVE  \E v \in Worker : OwesFor(pusher'[v], d, c)
    BY DEF Accounted
  <2>1. \E v \in Worker : OwesFor(pusher[v], d, c)
    BY <1>1 DEF Accounted
  <2>2. ~OwesFor(pusher[w], d, c)
    BY DEF OwesFor
  <2> QED BY <2>1, <2>2, OthersOwe
<1>3. Accounted(row', qbo', orphan', pusher', raced')
  BY <1>2
<1> QED BY <1>1, <1>3, Moves DEF Tables

(* The session goes on with the next day. *)
LEMMA GoesOn ==
  ASSUME NEW t, NEW books, NEW races, t.todo \subseteq Day, t.todo # {},
         PendingOK(t.pending, t.todo \ {First(t.todo)}, races)
  PROVE  SessionOK(NextDay(t), books, races) /\ ~Owes(NextDay(t))
<1> DEFINE left == t.todo \ {First(t.todo)}
<1>1. CASE left = {}
  <2>1. NextDay(t) = Idle /\ Idle.pc = "idle"
    BY <1>1 DEF NextDay, Idle
  <2> QED BY <2>1 DEF SessionOK, Owes
<1>2. CASE left # {}
  <2> DEFINE k == Session(left, t.month, t.pending)
  <2>1. NextDay(t) = k
    BY <1>2 DEF NextDay
  <2>2. k.pc = "plan" /\ k.todo = left /\ k.pending = t.pending /\ DOMAIN k = Fields
    BY DEF Session, Fields
  <2> HIDE DEF k
  <2> QED BY <1>2, <2>1, <2>2 DEF SessionOK, Owes
<1> QED BY <1>1, <1>2

(* The steps before the POST, and the ones that answer it without a book. *)
LEMMA ReadStep ==
  ASSUME QpInv, NEW w \in Worker,
         \/ push_month(w) \/ \E d \in Day : push_day(w, d)
         \/ ReadPlan(w) \/ ReadRow(w) \/ PostRejected(w) \/ PostUnreachable(w)
  PROVE  QpInv'
<1>0. SessionOK(pusher[w], qbo, raced) /\ Tables
  BY DEF QpInv
<1>1. SessionOK(Idle, qbo, raced)
  BY DEF SessionOK, Idle
<1>2. ASSUME NEW todo \in SUBSET Day, todo # {}, NEW month
      PROVE  SessionOK(Session(todo, month, {}), qbo, raced)
  <2> DEFINE k == Session(todo, month, {})
  <2>1. k.pc = "plan" /\ k.todo = todo /\ k.pending = {} /\ DOMAIN k = Fields
    BY DEF Session, Fields
  <2>2. PendingOK({}, todo, raced)
    BY DEF PendingOK
  <2> HIDE DEF k
  <2>3. SessionOK(k, qbo, raced)
    BY <1>2, <2>1, <2>2 DEF SessionOK
  <2> QED BY <2>3 DEF k
<1>3. CASE push_month(w)
  <2>1. ~Owes(pusher[w])
    BY <1>3 DEF push_month, Owes, Idle
  <2>2. SessionOK(Session(fact_dates, TRUE, {}), qbo, raced)
    BY <1>2, <1>3 DEF push_month, fact_dates
  <2> QED BY <1>3, <2>1, <2>2, Reads DEF push_month
<1>4. ASSUME NEW d \in Day, push_day(w, d) PROVE QpInv'
  <2>1. ~Owes(pusher[w])
    BY <1>4 DEF push_day, Owes, Idle
  <2>2. SessionOK(Session({d}, FALSE, {}), qbo, raced)
    BY <1>2
  <2> QED BY <1>4, <2>1, <2>2, Reads DEF push_day
<1> DEFINE t == pusher[w]
           d == First(t.todo)
<1>5. ASSUME ~At(pusher, w, "idle")
      PROVE  /\ DOMAIN t = Fields /\ t.todo \subseteq Day /\ t.todo # {} /\ d \in Day
             /\ PendingOK(t.pending, t.todo, raced)
             /\ SessionOK(NextDay(t), qbo, raced)
  <2>1. /\ DOMAIN t = Fields /\ t.todo \subseteq Day /\ t.todo # {}
        /\ PendingOK(t.pending, t.todo, raced)
    BY <1>0, <1>5 DEF SessionOK, At
  <2>2. PendingOK(t.pending, t.todo \ {d}, raced)
    BY <2>1 DEF PendingOK
  <2>3. d \in Day
    BY <2>1, FirstDay
  <2> QED BY <2>1, <2>2, <2>3, GoesOn
<1>6. CASE ReadPlan(w)
  <2>0. t.pc = "plan" /\ ~At(pusher, w, "idle") /\ ~Owes(t)
    BY <1>6 DEF ReadPlan, At, Owes
  <2>1. CASE plan_for_push(d) = NoPlan \/ ~Builds(d)
    <3>1. PICK k : (k = NextDay(t) \/ k = Idle) /\ pusher' = [pusher EXCEPT ![w] = k]
      BY <1>6, <2>1 DEF ReadPlan
    <3> QED BY <1>1, <1>5, <1>6, <2>0, <3>1, Reads DEF ReadPlan
  <2>2. CASE ~(plan_for_push(d) = NoPlan \/ ~Builds(d))
    <3> DEFINE k == [t EXCEPT !.pc = "row", !.plan = plan_for_push(d)]
    <3>1. pusher' = [pusher EXCEPT ![w] = k]
      BY <1>6, <2>2 DEF ReadPlan
    <3>2. plan_for_push(d) \in Content
      BY <1>0, <1>5, <2>0, <2>2 DEF plan_for_push, Tables
    <3>3. /\ k.pc = "row" /\ k.todo = t.todo /\ k.pending = t.pending
          /\ k.plan = plan_for_push(d) /\ DOMAIN k = Fields
      BY <1>5, <2>0 DEF Fields
    <3> HIDE DEF k
    <3>4. SessionOK(k, qbo, raced)
      BY <1>5, <2>0, <3>2, <3>3 DEF SessionOK
    <3> QED BY <1>6, <2>0, <3>1, <3>4, Reads DEF ReadPlan
  <2> QED BY <2>1, <2>2
<1>7. ASSUME NEW k, DOMAIN k = Fields, k.todo = t.todo, k.pending = t.pending, k.plan = t.plan,
             k.pc = "commit", k.loaded \in Row, d \notin raced => RowOK(k.loaded, qbo[d]), t.plan \in Content,
             Stale(k) \/ Restored(k) \/ Refused(k),
             ~At(pusher, w, "idle"), ~Owes(t), pusher' = [pusher EXCEPT ![w] = k],
             UNCHANGED <<content, entry, chartOn, row, qbo, orphan, raced>>
      PROVE  QpInv'
  <2>1. SessionOK(k, qbo, raced)
    BY <1>5, <1>7 DEF SessionOK
  <2> QED BY <1>7, <2>1, Reads
<1>8. CASE ReadRow(w)
  <2> DEFINE r == row[d]
             what == Decision(r, t.plan)
             Mark(st) == [t EXCEPT !.pc = "commit", !.loaded = r, !.draft = [r EXCEPT !.status = st]]
  <2>0. /\ t.pc = "row" /\ ~At(pusher, w, "idle") /\ ~Owes(t) /\ t.plan \in Content
        /\ UNCHANGED <<content, entry, chartOn, row, qbo, orphan, raced>>
    BY <1>0, <1>8 DEF ReadRow, At, Owes, SessionOK
  <2>1. /\ r \in Row /\ r.status \in {"absent", "pushed", "failed", "stale"}
        /\ d \notin raced => RowOK(r, qbo[d])
    BY <1>0, <1>5, <2>0 DEF Tables, Row, QpInv, RowsOK
  <2>2. CASE what \in {"already-pushed", "refused"}
    <3>1. pusher' = [pusher EXCEPT ![w] = NextDay(t)]
      BY <1>8, <2>2 DEF ReadRow
    <3> QED BY <1>5, <2>0, <3>1, Reads
  <2>3. CASE what = "stale"
    <3>1. pusher' = [pusher EXCEPT ![w] = Mark("stale")] /\ r.status = "pushed"
      BY <1>8, <2>3 DEF ReadRow, Decision
    <3> DEFINE k == Mark("stale")
    <3>2. /\ DOMAIN k = Fields /\ k.todo = t.todo /\ k.pending = t.pending /\ k.plan = t.plan
          /\ k.pc = "commit" /\ k.loaded = r /\ k.draft = [r EXCEPT !.status = "stale"]
      BY <1>5, <2>0 DEF Fields
    <3> HIDE DEF k
    <3>3. Stale(k)
      BY <3>1, <3>2 DEF Stale
    <3> QED BY <1>7, <2>0, <2>1, <3>1, <3>2, <3>3 DEF k
  <2>4. CASE what = "restore"
    <3>1. pusher' = [pusher EXCEPT ![w] = Mark("pushed")] /\ r.status = "stale"
      BY <1>8, <2>4 DEF ReadRow, Decision
    <3> DEFINE k == Mark("pushed")
    <3>2. /\ DOMAIN k = Fields /\ k.todo = t.todo /\ k.pending = t.pending /\ k.plan = t.plan
          /\ k.pc = "commit" /\ k.loaded = r /\ k.draft = [r EXCEPT !.status = "pushed"]
      BY <1>5, <2>0 DEF Fields
    <3>4. pusher' = [pusher EXCEPT ![w] = k]
      BY <3>1
    <3> HIDE DEF k
    <3>3. Restored(k)
      BY <3>1, <3>2 DEF Restored
    <3> QED BY <1>7, <2>0, <2>1, <3>2, <3>3, <3>4
  <2>5. CASE what = "post"
    <3> DEFINE k == [t EXCEPT !.pc = "post", !.loaded = r, !.draft = Attempt(r, t.plan)]
    <3>1. pusher' = [pusher EXCEPT ![w] = k]
      BY <1>8, <2>5 DEF ReadRow
    <3>2. /\ DOMAIN k = Fields /\ k.todo = t.todo /\ k.pending = t.pending /\ k.plan = t.plan
          /\ k.pc = "post" /\ k.loaded = r /\ k.draft = Attempt(r, t.plan)
      BY <1>5, <2>0 DEF Fields
    <3>3. r.status \in Unpushed
      BY <2>1, <2>5 DEF Decision, Unpushed
    <3> HIDE DEF k
    <3>4. SessionOK(k, qbo, raced)
      BY <1>5, <2>0, <2>1, <3>2, <3>3 DEF SessionOK
    <3> QED BY <2>0, <3>1, <3>4, Reads
  <2> QED BY <2>2, <2>3, <2>4, <2>5 DEF Decision
<1>9. CASE PostRejected(w)
  <2> DEFINE k == [t EXCEPT !.pc = "commit",
                            !.draft = [status |-> "failed", hash |-> t.plan, je |-> NoPlan]]
  <2>0. /\ t.pc = "post" /\ ~At(pusher, w, "idle") /\ ~Owes(t) /\ t.plan \in Content
        /\ t.loaded \in Row /\ (d \notin raced => RowOK(t.loaded, qbo[d])) /\ t.loaded.status \in Unpushed
    BY <1>0, <1>9 DEF PostRejected, At, Owes, SessionOK
  <2>1. /\ DOMAIN k = Fields /\ k.todo = t.todo /\ k.pending = t.pending /\ k.plan = t.plan
        /\ k.pc = "commit" /\ k.loaded = t.loaded
        /\ k.draft = [status |-> "failed", hash |-> t.plan, je |-> NoPlan]
    BY <1>5, <2>0 DEF Fields
  <2>2. pusher' = [pusher EXCEPT ![w] = k] /\ UNCHANGED <<content, entry, chartOn, row, qbo, orphan, raced>>
    BY <1>9 DEF PostRejected
  <2> HIDE DEF k
  <2>3. Refused(k)
    BY <2>0, <2>1 DEF Refused
  <2> QED BY <1>7, <2>0, <2>1, <2>2, <2>3
<1>10. CASE PostUnreachable(w)
  <2>1. ~Owes(t)
    BY <1>10 DEF PostUnreachable, At, Owes
  <2> QED BY <1>1, <1>10, <2>1, Reads DEF PostUnreachable
<1> QED BY <1>3, <1>4, <1>6, <1>8, <1>9, <1>10

(* More entries in QuickBooks leave the rows right. *)
LEMMA BookKeeps ==
  ASSUME QpInv, NEW d \in Day, NEW c \in Content, Book(d, c)
  PROVE  /\ RowsOK(row, qbo', raced) /\ qbo' \in [Day -> SUBSET Content]
         /\ \A e \in Day : qbo'[e] = IF e = d THEN qbo[e] \cup {c} ELSE qbo[e]
         /\ \A e \in Day : qbo[e] \subseteq qbo'[e]
<1>1. /\ \A e \in Day : qbo'[e] = IF e = d THEN qbo[e] \cup {c} ELSE qbo[e]
      /\ qbo' \in [Day -> SUBSET Content]
  BY DEF QpInv, Tables, Book
<1>2. RowsOK(row, qbo', raced)
  BY <1>1 DEF QpInv, RowsOK, RowOK
<1> QED BY <1>1, <1>2

(* QuickBooks books the plan, and the answer arrives or not. *)
LEMMA PostStep ==
  ASSUME QpInv, NEW w \in Worker,
         PostAccepted(w) \/ \E parsed \in BOOLEAN : PostLost(w, parsed)
  PROVE  QpInv'
<1> DEFINE t == pusher[w]
           d == First(t.todo)
<1>1. /\ SessionOK(t, qbo, raced) /\ Accounted(row, qbo, orphan, pusher, raced) /\ Tables
      /\ t.pc = "post" /\ ~Owes(t)
  BY DEF QpInv, PostAccepted, PostLost, At, Owes
<1>2. /\ DOMAIN t = Fields /\ t.todo \subseteq Day /\ t.todo # {}
      /\ PendingOK(t.pending, t.todo, raced) /\ t.plan \in Content
      /\ t.loaded \in Row /\ (d \notin raced => RowOK(t.loaded, qbo[d]))
      /\ t.loaded.status \in Unpushed /\ t.draft = Attempt(t.loaded, t.plan)
  BY <1>1 DEF SessionOK
<1>3. d \in t.todo /\ d \in Day
  BY <1>2, FirstDay
<1>4. /\ Book(d, t.plan)
      /\ UNCHANGED <<content, entry, chartOn, row, raced>>
  BY DEF PostAccepted, PostLost
<1>5. /\ RowsOK(row, qbo', raced) /\ qbo' \in [Day -> SUBSET Content]
      /\ \A e \in Day : qbo'[e] = IF e = d THEN qbo[e] \cup {t.plan} ELSE qbo[e]
      /\ \A e \in Day : qbo[e] \subseteq qbo'[e]
  BY <1>2, <1>3, <1>4, BookKeeps
<1>m. ASSUME NEW k, pusher' = [pusher EXCEPT ![w] = k], SessionOK(k, qbo', raced),
             orphan' \in [Day -> SUBSET Content], \A e \in Day : orphan[e] \subseteq orphan'[e],
             d \notin raced => t.plan \in orphan'[d] \/ OwesFor(k, d, t.plan)
      PROVE  QpInv'
  <2>1. Accounted(row, qbo', orphan', pusher', raced)
    <3> SUFFICES ASSUME NEW e \in Day \ raced, NEW c \in qbo'[e], c # row[e].je, c \notin orphan'[e]
                 PROVE  \E v \in Worker : OwesFor(pusher'[v], e, c)
      BY DEF Accounted
    <3>1. pusher'[w] = k
      BY <1>1, <1>m DEF Tables
    <3>2. CASE c \in qbo[e]
      <4>1. \E v \in Worker : OwesFor(pusher[v], e, c)
        BY <1>1, <1>m, <3>2 DEF Accounted
      <4>2. ~OwesFor(pusher[w], e, c)
        BY <1>1 DEF OwesFor
      <4> QED BY <1>m, <4>1, <4>2, OthersOwe
    <3>3. CASE c \notin qbo[e]
      <4>1. e = d /\ c = t.plan
        BY <1>5, <3>3
      <4>2. OwesFor(pusher'[w], e, c)
        BY <1>m, <3>1, <4>1
      <4> QED BY <4>2
    <3> QED BY <3>2, <3>3
  <2>2. /\ RowsOK(row', qbo', raced') /\ SessionOK(k, qbo', raced')
        /\ Accounted(row', qbo', orphan', pusher', raced')
    BY <1>4, <1>5, <1>m, <2>1
  <2> QED BY <1>1, <1>4, <1>5, <1>m, <2>2, Moves DEF Tables
<1>6. CASE PostAccepted(w)
  <2> DEFINE k == [t EXCEPT !.pc = "commit",
                            !.draft = [status |-> "pushed", hash |-> t.plan, je |-> t.plan]]
  <2>1. /\ DOMAIN k = Fields /\ k.todo = t.todo /\ k.pending = t.pending /\ k.plan = t.plan
        /\ k.pc = "commit" /\ k.loaded = t.loaded
        /\ k.draft = [status |-> "pushed", hash |-> t.plan, je |-> t.plan]
    BY <1>2 DEF Fields
  <2>2. pusher' = [pusher EXCEPT ![w] = k] /\ orphan' = orphan
    BY <1>6 DEF PostAccepted
  <2> HIDE DEF k
  <2>3. Answered(k) /\ OwesFor(k, d, t.plan)
    BY <1>2, <2>1 DEF Answered, Owes, OwesFor, Unpushed
  <2>4. d \notin raced => RowOK(k.loaded, qbo'[d])
    BY <1>2, <1>3, <1>5, <2>1 DEF RowOK
  <2>5. t.plan \in qbo'[d]
    BY <1>3, <1>5
  <2>6. SessionOK(k, qbo', raced)
    BY <1>2, <1>3, <2>1, <2>3, <2>4, <2>5 DEF SessionOK
  <2> QED BY <1>1, <1>m, <2>2, <2>3, <2>6 DEF Tables
<1>7. ASSUME NEW parsed \in BOOLEAN, PostLost(w, parsed) PROVE QpInv'
  <2>1. orphan' = [orphan EXCEPT ![d] = @ \cup {t.plan}]
    BY <1>7 DEF PostLost
  <2>2. /\ orphan' \in [Day -> SUBSET Content]
        /\ \A e \in Day : orphan'[e] = IF e = d THEN orphan[e] \cup {t.plan} ELSE orphan[e]
    BY <1>1, <1>2, <1>3, <2>1 DEF Tables
  <2>3. (\A e \in Day : orphan[e] \subseteq orphan'[e]) /\ t.plan \in orphan'[d]
    BY <1>3, <2>2
  <2>4. CASE parsed \/ ~t.month
    <3>1. pusher' = [pusher EXCEPT ![w] = Idle]
      BY <1>7, <2>4 DEF PostLost
    <3>2. SessionOK(Idle, qbo', raced)
      BY DEF SessionOK, Idle
    <3> QED BY <1>m, <2>2, <2>3, <3>1, <3>2
  <2>5. CASE ~(parsed \/ ~t.month)
    <3> DEFINE x == [day |-> d, loaded |-> t.loaded, draft |-> t.draft]
               u == [t EXCEPT !.pending = @ \cup {x}]
               left == t.todo \ {d}
    <3>1. pusher' = [pusher EXCEPT ![w] = NextDay(u)]
      BY <1>7, <2>5 DEF PostLost
    <3>2. u.todo = t.todo /\ u.pending = t.pending \cup {x}
      BY <1>2 DEF Fields
    <3>3. x.day = d /\ x.loaded = t.loaded /\ x.draft = t.draft
      OBVIOUS
    <3> HIDE DEF u, x
    <3>4. PendingOK(u.pending, left, raced)
      <4>1. \A y \in t.pending : y.day # d
        BY <1>2, <1>3 DEF PendingOK
      <4>2. d \notin raced => t.loaded.je = NoPlan
        BY <1>2 DEF RowOK
      <4> QED BY <1>2, <1>3, <3>2, <3>3, <4>1, <4>2 DEF PendingOK
    <3>5. SessionOK(NextDay(u), qbo', raced)
      BY <1>2, <3>2, <3>4, GoesOn
    <3> QED BY <1>m, <2>2, <2>3, <3>1, <3>5
  <2> QED BY <2>4, <2>5
<1> QED BY <1>6, <1>7

(* A write leaves a row; on a row that is as it was loaded, the draft. *)
LEMMA WrittenIsDraft ==
  ASSUME NEW x, x.draft \in Row, NEW r \in Row, row[x.day] = r
  PROVE  Written(x) \in Row /\ (x.loaded = r => Written(x) = x.draft)
<1>1. DOMAIN NoRow = {"status", "hash", "je"}
  BY DEF NoRow
<1>2. PICK y : y = Written(x)
  OBVIOUS
<1>3. y = [col \in {"status", "hash", "je"} |->
             IF x.loaded.status = "absent" \/ x.draft[col] # x.loaded[col] THEN x.draft[col] ELSE r[col]]
  BY <1>1, <1>2 DEF Written
<1>4. y = [status |-> y.status, hash |-> y.hash, je |-> y.je]
  BY <1>3
<1>5. y.status \in {x.draft.status, r.status} /\ y.hash \in {x.draft.hash, r.hash} /\ y.je \in {x.draft.je, r.je}
  BY <1>3
<1>6. y \in Row
  BY <1>4, <1>5 DEF Row
<1>7. ASSUME x.loaded = r PROVE y = x.draft
  <2>1. x.draft = [status |-> x.draft.status, hash |-> x.draft.hash, je |-> x.draft.je]
    BY DEF Row
  <2>2. y.status = x.draft.status /\ y.hash = x.draft.hash /\ y.je = x.draft.je
    BY <1>3, <1>7
  <2> QED BY <1>4, <2>1, <2>2
<1> QED BY <1>2, <1>6, <1>7

(* The commit: every drafted row, over what another session may have left. *)
LEMMA CommitStep ==
  ASSUME QpInv, NEW w \in Worker, Commit(w)
  PROVE  QpInv'
<1> DEFINE t == pusher[w]
           d == First(t.todo)
           h == [day |-> d, loaded |-> t.loaded, draft |-> t.draft]
           W == Writes(t)
<1>1. /\ SessionOK(t, qbo, raced) /\ Accounted(row, qbo, orphan, pusher, raced) /\ Tables
      /\ RowsOK(row, qbo, raced) /\ t.pc = "commit"
  BY DEF QpInv, Commit, At
<1>2. /\ DOMAIN t = Fields /\ t.todo \subseteq Day /\ t.todo # {}
      /\ PendingOK(t.pending, t.todo, raced) /\ t.plan \in Content
      /\ t.loaded \in Row /\ (d \notin raced => RowOK(t.loaded, qbo[d]))
      /\ \/ Stale(t) \/ Restored(t) \/ Refused(t)
         \/ Answered(t) /\ t.plan \in qbo[d]
  BY <1>1 DEF SessionOK
<1>3. d \in t.todo /\ d \in Day
  BY <1>2, FirstDay
<1>4. h.day = d /\ h.loaded = t.loaded /\ h.draft = t.draft /\ W = t.pending \cup {h}
  BY DEF Writes
<1> HIDE DEF h, W
<1>5. t.draft \in Row
  BY <1>2 DEF Stale, Restored, Refused, Answered, Row
<1>6. \A x \in t.pending : /\ x.day \in Day /\ x.day # d /\ x.loaded \in Row
                           /\ x.loaded.status \in Unpushed /\ x.draft \in Row
                           /\ x.draft.status = "failed" /\ x.draft.je = x.loaded.je
                           /\ x.day \notin raced => x.loaded.je = NoPlan
  <2> SUFFICES ASSUME NEW x \in t.pending
               PROVE  /\ x.day \in Day /\ x.day # d /\ x.loaded \in Row
                      /\ x.loaded.status \in Unpushed /\ x.draft \in Row
                      /\ x.draft.status = "failed" /\ x.draft.je = x.loaded.je
                      /\ x.day \notin raced => x.loaded.je = NoPlan
    OBVIOUS
  <2>1. PICK c \in Content : x.draft = Attempt(x.loaded, c)
    BY <1>2 DEF PendingOK
  <2>2. /\ x.day \in Day /\ x.day # d /\ x.loaded \in Row /\ x.loaded.status \in Unpushed
        /\ x.day \notin raced => x.loaded.je = NoPlan
    BY <1>2, <1>3 DEF PendingOK
  <2> QED BY <2>1, <2>2 DEF Attempt, Row
<1>7. \A x \in W : x.draft \in Row /\ x.day \in Day
  BY <1>3, <1>4, <1>5, <1>6
<1>8. \A x \in W : Written(x) \in Row /\ (x.loaded = row[x.day] => Written(x) = x.draft)
  <2> SUFFICES ASSUME NEW x \in W
               PROVE  Written(x) \in Row /\ (x.loaded = row[x.day] => Written(x) = x.draft)
    OBVIOUS
  <2>1. row[x.day] \in Row
    BY <1>1, <1>7 DEF Tables
  <2> QED BY <1>7, <2>1, WrittenIsDraft
<1>9. /\ \A e \in Day : row'[e] = IF \E x \in W : x.day = e
                                 THEN Written(CHOOSE x \in W : x.day = e) ELSE row[e]
      /\ raced' = raced \cup {x.day : x \in {y \in W : y.loaded # row[y.day]}}
  BY DEF Commit, W
<1>10. UNCHANGED <<content, entry, chartOn, qbo, orphan>>
  BY DEF Commit
<1>11. raced \subseteq raced' /\ raced' \subseteq Day
  BY <1>1, <1>7, <1>9 DEF Tables
<1>12. ASSUME NEW x \in W PROVE row'[x.day] = Written(x)
  <2>1. \A y \in W : y.day = x.day => y = x
    BY <1>2, <1>4, <1>6 DEF PendingOK
  <2>2. (CHOOSE y \in W : y.day = x.day) = x
    BY <2>1
  <2> QED BY <1>7, <1>9, <2>2
<1>13. \A x \in W : x.day \notin raced' => row[x.day] = x.loaded /\ row'[x.day] = x.draft
  BY <1>8, <1>9, <1>12
<1>14. ASSUME NEW e \in Day, e \notin raced'
       PROVE  \/ row'[e] = row[e]
              \/ e = d /\ row[e] = t.loaded /\ row'[e] = t.draft
              \/ /\ row[e].status \in Unpushed /\ row[e].je = NoPlan
                 /\ row'[e].status = "failed" /\ row'[e].je = NoPlan
  <2>1. CASE \E x \in W : x.day = e
    <3>1. PICK x \in W : x.day = e
      BY <2>1
    <3>2. row[e] = x.loaded /\ row'[e] = x.draft
      BY <1>13, <1>14, <3>1
    <3>3. CASE x = h
      BY <1>4, <3>1, <3>2, <3>3
    <3>4. CASE x \in t.pending
      BY <1>6, <1>11, <1>14, <3>1, <3>2, <3>4
    <3> QED BY <1>4, <3>3, <3>4
  <2>2. CASE ~\E x \in W : x.day = e
    BY <1>9, <2>2
  <2> QED BY <2>1, <2>2
<1>15. row' \in [Day -> Row]
  <2>1. \A e \in Day : row'[e] \in Row
    <3> SUFFICES ASSUME NEW e \in Day PROVE row'[e] \in Row
      OBVIOUS
    <3>1. CASE \E x \in W : x.day = e
      BY <1>8, <1>12, <3>1
    <3>2. CASE ~\E x \in W : x.day = e
      BY <1>1, <1>9, <3>2 DEF Tables
    <3> QED BY <3>1, <3>2
  <2>2. row' = [e \in Day |-> row'[e]]
    BY DEF Commit
  <2> QED BY <2>1, <2>2
<1>16. d \notin raced =>
         /\ RowOK(t.draft, qbo[d])
         /\ t.draft.je = t.loaded.je \/ t.loaded.je = NoPlan
         /\ Owes(t) => t.draft.je = t.plan
  <2> SUFFICES ASSUME d \notin raced
               PROVE  /\ RowOK(t.draft, qbo[d])
                      /\ t.draft.je = t.loaded.je \/ t.loaded.je = NoPlan
                      /\ Owes(t) => t.draft.je = t.plan
    OBVIOUS
  <2>1. /\ t.loaded.status \in {"pushed", "stale"} =>
             t.loaded.hash \in qbo[d] /\ t.loaded.je = t.loaded.hash
        /\ t.loaded.status \in Unpushed => t.loaded.je = NoPlan
    BY <1>2 DEF RowOK
  <2>2. CASE Stale(t)
    <3>1. /\ t.draft.status = "stale" /\ t.draft.hash = t.loaded.hash /\ t.draft.je = t.loaded.je
          /\ t.loaded.status = "pushed"
      BY <1>2, <2>2 DEF Stale, Row
    <3> QED BY <2>1, <3>1 DEF Unpushed, Owes, RowOK
  <2>3. CASE Restored(t)
    <3>1. /\ t.draft.status = "pushed" /\ t.draft.hash = t.loaded.hash /\ t.draft.je = t.loaded.je
          /\ t.loaded.status = "stale"
      BY <1>2, <2>3 DEF Restored, Row
    <3> QED BY <2>1, <3>1 DEF Unpushed, Owes, RowOK
  <2>4. CASE Refused(t)
    BY <2>1, <2>4 DEF Refused, Owes, Unpushed, RowOK
  <2>5. CASE Answered(t) /\ t.plan \in qbo[d]
    BY <2>1, <2>5 DEF Answered, Owes, Unpushed, RowOK
  <2> QED BY <1>2, <2>2, <2>3, <2>4, <2>5
<1>17. RowsOK(row', qbo, raced')
  <2> SUFFICES ASSUME NEW e \in Day \ raced' PROVE RowOK(row'[e], qbo[e])
    BY DEF RowsOK
  <2>1. RowOK(row[e], qbo[e]) /\ e \notin raced
    BY <1>1, <1>11 DEF RowsOK
  <2> QED BY <1>14, <1>16, <2>1 DEF RowOK
<1> DEFINE u == [t EXCEPT !.pending = {}]
           k == NextDay(u)
<1>18. SessionOK(k, qbo, raced') /\ ~Owes(k)
  <2>1. u.todo = t.todo /\ u.pending = {}
    BY <1>2 DEF Fields
  <2>2. PICK races : races = raced'
    OBVIOUS
  <2>3. PendingOK({}, t.todo \ {d}, races)
    BY DEF PendingOK
  <2> HIDE DEF u
  <2>4. SessionOK(NextDay(u), qbo, races) /\ ~Owes(NextDay(u))
    BY <1>2, <2>1, <2>3, GoesOn
  <2> QED BY <2>2, <2>4
<1>19. pusher' = [pusher EXCEPT ![w] = k]
  BY DEF Commit
<1> HIDE DEF k
<1>20. Accounted(row', qbo, orphan, pusher', raced')
  <2> SUFFICES ASSUME NEW e \in Day \ raced', NEW c \in qbo[e], c # row'[e].je, c \notin orphan[e]
               PROVE  \E v \in Worker : OwesFor(pusher'[v], e, c)
    BY DEF Accounted
  <2>1. c = row[e].je \/ \E v \in Worker : OwesFor(pusher[v], e, c)
    BY <1>1, <1>11 DEF Accounted
  <2>2. c # NoPlan
    BY <1>1, QboConstants DEF Tables
  <2>3. e \notin raced
    BY <1>11
  <2>4. c # row[e].je
    BY <1>14, <1>16, <2>2, <2>3
  <2>5. ~OwesFor(pusher[w], e, c)
    <3> SUFFICES ASSUME Owes(t), d = e, c = t.plan PROVE FALSE
      BY DEF OwesFor
    <3>1. h \in W
      BY <1>4
    <3>2. row'[e] = t.draft
      BY <1>4, <1>13, <3>1
    <3> QED BY <1>16, <2>3, <3>2
  <2> QED BY <1>19, <2>1, <2>4, <2>5, OthersOwe
<1>21. /\ RowsOK(row', qbo', raced') /\ SessionOK(k, qbo', raced')
       /\ Accounted(row', qbo', orphan', pusher', raced')
  BY <1>10, <1>17, <1>18, <1>20
<1> QED BY <1>1, <1>10, <1>11, <1>15, <1>19, <1>21, Moves DEF Tables

(* Nothing of an aborted session is recorded, and an entry it leaves in     *)
(* QuickBooks is counted as lost.                                            *)
LEMMA AbortStep ==
  ASSUME QpInv, NEW w \in Worker, Abort(w)
  PROVE  QpInv'
<1> DEFINE t == pusher[w]
           d == First(t.todo)
<1>1. /\ SessionOK(t, qbo, raced) /\ Accounted(row, qbo, orphan, pusher, raced) /\ Tables
      /\ RowsOK(row, qbo, raced) /\ (Uncommitted(w) <=> Owes(t))
      /\ pusher' = [pusher EXCEPT ![w] = Idle] /\ UNCHANGED <<content, entry, chartOn, row, qbo, raced>>
  BY DEF QpInv, Abort, Uncommitted, Owes, At
<1>2. SessionOK(Idle, qbo, raced) /\ ~Owes(Idle)
  BY DEF SessionOK, Idle, Owes
<1>3. CASE Owes(t)
  <2>1. t.todo \subseteq Day /\ t.todo # {} /\ t.plan \in Content
    BY <1>1, <1>3 DEF Owes, SessionOK
  <2>2. d \in Day
    BY <2>1, FirstDay
  <2>3. orphan' = [orphan EXCEPT ![d] = @ \cup {t.plan}]
    BY <1>1, <1>3 DEF Abort
  <2>4. /\ orphan' \in [Day -> SUBSET Content]
        /\ \A e \in Day : orphan'[e] = IF e = d THEN orphan[e] \cup {t.plan} ELSE orphan[e]
    BY <1>1, <2>1, <2>2, <2>3 DEF Tables
  <2>5. Accounted(row, qbo, orphan', pusher', raced)
    <3> SUFFICES ASSUME NEW e \in Day \ raced, NEW c \in qbo[e], c # row[e].je, c \notin orphan'[e]
                 PROVE  \E v \in Worker : OwesFor(pusher'[v], e, c)
      BY DEF Accounted
    <3>1. \E v \in Worker : OwesFor(pusher[v], e, c)
      BY <1>1, <2>4 DEF Accounted
    <3>2. ~OwesFor(pusher[w], e, c)
      BY <2>2, <2>4 DEF OwesFor
    <3> QED BY <1>1, <3>1, <3>2, OthersOwe
  <2>6. /\ RowsOK(row', qbo', raced') /\ SessionOK(Idle, qbo', raced')
        /\ Accounted(row', qbo', orphan', pusher', raced')
    BY <1>1, <1>2, <2>5
  <2> QED BY <1>1, <2>4, <2>6, Moves DEF Tables
<1>4. CASE ~Owes(t)
  <2>1. orphan' = orphan
    BY <1>1, <1>4 DEF Abort
  <2> QED BY <1>1, <1>2, <1>4, <2>1, Reads
<1> QED BY <1>3, <1>4

(* Facts, GL entries and charts change around the sessions. *)
LEMMA ElsewhereStep ==
  ASSUME QpInv, Elsewhere \/ UNCHANGED qpVars
  PROVE  QpInv'
<1>1. UNCHANGED <<row, qbo, orphan, pusher, raced>>
  BY DEF Elsewhere, qpVars
<1>2. content \in [Day -> Content \cup {NoPlan}] /\ entry \in [Day -> Content \cup {NoPlan}]
      /\ chartOn \in BOOLEAN
  BY DEF QpInv, Tables
<1>3. content' \in [Day -> Content \cup {NoPlan}] /\ entry' \in [Day -> Content \cup {NoPlan}]
  BY <1>2, QboConstants DEF Elsewhere, qpVars
<1>4. chartOn' \in BOOLEAN
  <2>1. chartOn' = chartOn \/ chartOn' = ~chartOn
    BY DEF Elsewhere, qpVars
  <2> QED BY <1>2, <2>1, Zenon
<1>5. Tables'
  BY <1>1, <1>3, <1>4 DEF QpInv, Tables
<1>6. RowsOK(row, qbo, raced)'
  BY <1>1 DEF QpInv, RowsOK, RowOK, Unpushed
<1>7. ASSUME NEW w \in Worker PROVE SessionOK(pusher[w], qbo, raced)'
  <2>1. SessionOK(pusher[w], qbo, raced)
    BY DEF QpInv
  <2> QED BY <1>1, <2>1 DEF SessionOK, PendingOK, Stale, Restored, Refused, Answered, First, Unpushed,
                            Attempt, RowOK
<1>8. Accounted(row, qbo, orphan, pusher, raced)'
  BY <1>1 DEF QpInv, Accounted, OwesFor, Owes, First
<1> QED BY <1>5, <1>6, <1>7, <1>8 DEF QpInv

(* Every step keeps the invariant. *)
LEMMA QpStep == QpInv /\ [QpNext]_qpVars => QpInv'
BY ReadStep, PostStep, CommitStep, AbortStep, ElsewhereStep DEF QpNext

(* However the pushing sessions interleave, and whatever is rejected, lost   *)
(* or retried: a pushed or stale row names an entry that is in QuickBooks,   *)
(* and every entry in QuickBooks is the one the ledger names, one whose      *)
(* answer was lost, or one about to be committed.  The only exception are    *)
(* days on which a session wrote over a row that another had changed since   *)
(* it was read (push_day, push_month).                                       *)
THEOREM PushesAccounted == QpSpec => []PushIsAccounted
<1>1. QpInv => PushIsAccounted
  <2> SUFFICES ASSUME QpInv PROVE PushIsAccounted
    OBVIOUS
  <2>1. QpTypeOK
    BY DEF QpInv, Tables, QpTypeOK, SessionOK
  <2>2. PushedRowIsInQbo
    BY DEF QpInv, RowsOK, RowOK, PushedRowIsInQbo
  <2>3. \A w \in Worker : Owes(pusher[w]) => Uncommitted(w)
    BY DEF Owes, Uncommitted, At
  <2>4. EntriesAccounted
    BY <2>3 DEF EntriesAccounted, QpInv, Accounted, OwesFor
  <2> QED BY <2>1, <2>2, <2>4 DEF PushIsAccounted
<1> QED BY <1>1, QpInitInv, QpStep, PTL DEF QpSpec

(* Once a day is pushed, QuickBooks gets nothing more for it, unless from a  *)
(* session that had read the row before another pushed the day (push_day:    *)
(* "re-pushing is refused").                                                 *)
THEOREM PushedIsFinal == QpSpec => PushedDayIsFinal
<1> DEFINE Final == \A d \in Day : row[d].status \in {"pushed", "stale"} /\ qbo'[d] # qbo[d]
                      => \E w \in Worker : Overtaken(w, d)
<1>1. QpInv /\ [QpNext]_qpVars => [Final]_qpVars
  <2> SUFFICES ASSUME QpInv, QpNext PROVE Final
    OBVIOUS
  <2>1. ASSUME NEW w \in Worker, PostAccepted(w) \/ \E parsed \in BOOLEAN : PostLost(w, parsed)
        PROVE  Final
    <3> SUFFICES ASSUME NEW d \in Day, row[d].status \in {"pushed", "stale"}, qbo'[d] # qbo[d]
                 PROVE  Overtaken(w, d)
      BY DEF Final
    <3> DEFINE t == pusher[w]
    <3>1. Book(First(t.todo), t.plan) /\ t.pc = "post"
      BY <2>1 DEF PostAccepted, PostLost, At
    <3>2. d = First(t.todo)
      BY <3>1 DEF Book, QpInv, Tables
    <3>3. t.loaded.status \in Unpushed
      BY <3>1 DEF QpInv, SessionOK
    <3> QED BY <3>1, <3>2, <3>3 DEF Unpushed, Overtaken, At
  <2>2. CASE ~\E w \in Worker : PostAccepted(w) \/ \E parsed \in BOOLEAN : PostLost(w, parsed)
    BY <2>2 DEF QpNext, push_month, push_day, ReadPlan, ReadRow, PostRejected, PostUnreachable,
                Commit, Abort, Elsewhere
  <2> QED BY <2>1, <2>2
<1> QED BY <1>1, QpInitInv, QpStep, PTL DEF QpSpec, PushedDayIsFinal

-----------------------------------------------------------------------------
(* The fiscal calendar (Fiscal) *)

(* Leap days before a year. *)
LeapsBefore(y) == Cardinality({x \in LeapYear : x < y})

(* They are finitely many, grow by one at most from year to year, and there  *)
(* is none before year zero.                                                 *)
LEMMA LeapsGrow ==
  ASSUME NEW y \in Int, NEW z \in Int, y <= z
  PROVE  /\ LeapsBefore(y) \in Nat /\ LeapsBefore(y) <= LeapsBefore(z)
         /\ LeapsBefore(y + 1) <= LeapsBefore(y) + 1
         /\ y <= 0 => LeapsBefore(y) = 0
         /\ 0 <= y => LeapsBefore(y) <= y
<1> DEFINE S(n) == {x \in LeapYear : x < n}
<1>0. \A x \in LeapYear : x \in Int /\ 0 <= x
  BY FiscalConstants
<1>1. ASSUME NEW n \in Int PROVE /\ IsFiniteSet(S(n))
                                 /\ 0 <= n => Cardinality(S(n)) <= n
                                 /\ n <= 0 => Cardinality(S(n)) = 0
  <2>1. IsFiniteSet(0..(n - 1))
    BY FS_Interval
  <2>2. S(n) \in SUBSET (0..(n - 1))
    <3>1. ASSUME NEW x \in S(n) PROVE x \in 0..(n - 1)
      BY <1>0, <3>1
    <3> HIDE DEF S
    <3> QED BY <3>1
  <2>3. IsFiniteSet(S(n)) /\ Cardinality(S(n)) <= Cardinality(0..(n - 1))
    BY <2>1, <2>2, FS_Subset
  <2>4. 0 <= n => Cardinality(0..(n - 1)) <= n
    <3>1. PICK lo, hi : lo = 0 /\ hi = n - 1 /\ lo \in Int /\ hi \in Int
      OBVIOUS
    <3>2. Cardinality(lo..hi) = IF lo > hi THEN 0 ELSE hi - lo + 1
      BY ONLY <3>1, FS_Interval
    <3> QED BY <3>1, <3>2
  <2>5. n <= 0 => S(n) = {}
    <3>1. ASSUME n <= 0, NEW x \in S(n) PROVE FALSE
      BY <1>0, <3>1
    <3> HIDE DEF S
    <3> QED BY <3>1
  <2>6. 0 <= n => Cardinality(S(n)) <= n
    <3> HIDE DEF S
    <3>1. Cardinality(S(n)) \in Nat /\ Cardinality(0..(n - 1)) \in Nat
      BY <2>1, <2>3, FS_CardinalityType
    <3> QED BY <2>3, <2>4, <3>1
  <2>7. n <= 0 => Cardinality(S(n)) = 0
    BY <2>5, FS_EmptySet
  <2> QED BY <2>3, <2>6, <2>7
<1>2. S(y) \in SUBSET S(z)
  <2>1. ASSUME NEW x \in LeapYear, x < y PROVE x < z
    BY <1>0, <2>1
  <2> QED BY <2>1
<1>3. S(y + 1) = S(y) \/ S(y + 1) = S(y) \cup {y}
  <2>1. \A x \in LeapYear : x < y + 1 <=> x < y \/ x = y
    BY <1>0
  <2> QED BY <2>1
<1>4. Cardinality(S(y + 1)) <= Cardinality(S(y)) + 1
  <2> HIDE DEF S
  <2>1. IsFiniteSet(S(y)) /\ Cardinality(S(y)) \in Nat
    BY <1>1, FS_CardinalityType
  <2>2. CASE S(y + 1) = S(y)
    BY <2>1, <2>2
  <2>3. CASE S(y + 1) = S(y) \cup {y}
    BY <2>1, <2>3, FS_AddElement
  <2> QED BY <1>3, <2>2, <2>3
<1>5. Cardinality(S(y)) <= Cardinality(S(z)) /\ Cardinality(S(y)) \in Nat
  <2> HIDE DEF S
  <2> QED BY <1>1, <1>2, FS_Subset, FS_CardinalityType
<1> QED BY <1>1, <1>4, <1>5 DEF LeapsBefore

(* The first of a month. *)
FirstIs(y, m) ==
    /\ FirstOf(y, m) = 365 * y + MonthStart[m] + (IF m > 2 THEN LeapsBefore(y + 1) ELSE LeapsBefore(y))
    /\ FirstOf(y, m + 12) = FirstOf(y + 1, m)

LEMMA Firsts ==
  ASSUME NEW y \in Int, NEW m \in 1..12
  PROVE  FirstIs(y, m)
<1>1. m - 1 \in 0..11 /\ (m - 1) \div 12 = 0 /\ (m - 1) % 12 = m - 1
      /\ (m + 12 - 1) \div 12 = 1 /\ (m + 12 - 1) % 12 = m - 1
  OBVIOUS
<1> DEFINE Of(year, at) == 365 * year + MonthStart[1 + at]
                              + Cardinality({x \in LeapYear : x < year \/ (x = year /\ 1 + at > 2)})
<1>2. ASSUME NEW z, NEW n PROVE FirstOf(z, n) = Of(z + (n - 1) \div 12, (n - 1) % 12)
  BY Zenon DEF FirstOf
<1>3. {x \in LeapYear : x < y + 0 \/ (x = y + 0 /\ 1 + (m - 1) > 2)}
        = IF m > 2 THEN {x \in LeapYear : x < y + 1} ELSE {x \in LeapYear : x < y}
  <2>1. \A x \in LeapYear : x \in Int
    BY FiscalConstants
  <2>2. ASSUME m > 2
        PROVE  {x \in LeapYear : x < y + 0 \/ (x = y + 0 /\ 1 + (m - 1) > 2)} = {x \in LeapYear : x < y + 1}
    <3>1. \A x \in LeapYear : (x < y + 0 \/ (x = y + 0 /\ 1 + (m - 1) > 2)) <=> x < y + 1
      BY <2>1, <2>2
    <3> QED BY <3>1, Zenon
  <2>3. ASSUME ~(m > 2)
        PROVE  {x \in LeapYear : x < y + 0 \/ (x = y + 0 /\ 1 + (m - 1) > 2)} = {x \in LeapYear : x < y}
    <3>1. \A x \in LeapYear : (x < y + 0 \/ (x = y + 0 /\ 1 + (m - 1) > 2)) <=> x < y
      BY <2>1, <2>3
    <3> QED BY <3>1, Zenon
  <2> QED BY <2>2, <2>3, Zenon
<1>4. FirstOf(y, m) = Of(y + 0, m - 1)
  <2> HIDE DEF Of
  <2> QED BY <1>1, <1>2, Zenon
<1>5. FirstOf(y, m) = 365 * y + MonthStart[m] + (IF m > 2 THEN LeapsBefore(y + 1) ELSE LeapsBefore(y))
  <2>1. 365 * (y + 0) = 365 * y /\ 1 + (m - 1) = m
    OBVIOUS
  <2> QED BY <1>3, <1>4, <2>1 DEF LeapsBefore
<1>6. FirstOf(y, m + 12) = FirstOf(y + 1, m)
  <2>1. y + 1 = y + 1 + 0
    OBVIOUS
  <2> HIDE DEF Of
  <2>2. FirstOf(y, m + 12) = Of(y + 1, m - 1) /\ FirstOf(y + 1, m) = Of(y + 1 + 0, m - 1)
    <3>0. PICK n : n = m + 12
      OBVIOUS
    <3>1. FirstOf(y, n) = Of(y + (n - 1) \div 12, (n - 1) % 12)
      BY <1>2, Zenon
    <3>2. FirstOf(y + 1, m) = Of(y + 1 + (m - 1) \div 12, (m - 1) % 12)
      BY <1>2, Zenon
    <3> QED BY <1>1, <3>0, <3>1, <3>2
  <2> QED BY <2>1, <2>2
<1> QED BY <1>5, <1>6 DEF FirstIs

(* The months of a year, one after the other. *)
LEMMA MonthTable ==
  /\ \A m \in 1..12 : MonthStart[m] \in Int /\ 0 <= MonthStart[m] /\ MonthStart[m] <= 334
  /\ \A m \in 1..11 : MonthStart[m] + 28 <= MonthStart[m + 1]
  /\ \A m, n \in 1..12 : m <= n => MonthStart[m] <= MonthStart[n]
  /\ MonthStart[1] = 0 /\ MonthStart[2] = 31 /\ MonthStart[3] = 59 /\ MonthStart[12] = 334
BY DEF MonthStart

(* Two years of months ascend, by four weeks at least each. *)
LEMMA MonthsAscend ==
  ASSUME NEW y \in Int
  PROVE  /\ \A m \in 1..24 : FirstOf(y, m) \in Int
         /\ \A m \in 1..23 : FirstOf(y, m) + 28 <= FirstOf(y, m + 1)
         /\ \A m, n \in 1..24 : m <= n => FirstOf(y, m) <= FirstOf(y, n)
<1>1. LeapsBefore(y) \in Nat /\ LeapsBefore(y + 1) \in Nat /\ LeapsBefore(y + 2) \in Nat
      /\ LeapsBefore(y) <= LeapsBefore(y + 1) /\ LeapsBefore(y + 1) <= LeapsBefore(y + 2)
  <2>1. y + 1 \in Int /\ y + 2 \in Int /\ y <= y + 1 /\ y + 1 <= y + 2
    OBVIOUS
  <2> QED BY <2>1, LeapsGrow
<1>2. PICK a, b, c : a = LeapsBefore(y) /\ b = LeapsBefore(y + 1) /\ c = LeapsBefore(y + 2)
  OBVIOUS
<1>3. \A m \in 1..12 : FirstOf(y, m) = 365 * y + MonthStart[m] + (IF m > 2 THEN b ELSE a)
  <2>1. \A m \in 1..12 : FirstIs(y, m)
    BY Firsts
  <2> QED BY <1>2, <2>1 DEF FirstIs
<1>4. \A m \in 1..12 : FirstOf(y, m + 12) = 365 * y + 365 + MonthStart[m] + (IF m > 2 THEN c ELSE b)
  <2>1. y + 1 \in Int /\ y + 1 + 1 = y + 2 /\ 365 * (y + 1) = 365 * y + 365
    OBVIOUS
  <2>2. \A m \in 1..12 : FirstOf(y + 1, m) = 365 * (y + 1) + MonthStart[m] + (IF m > 2 THEN c ELSE b)
    <3>1. y + 1 \in Int
      OBVIOUS
    <3>2. \A m \in 1..12 : FirstIs(y + 1, m)
      BY <3>1, Firsts
    <3> QED BY <1>2, <2>1, <3>2 DEF FirstIs
  <2>3. \A m \in 1..12 : FirstOf(y, m + 12) = FirstOf(y + 1, m)
    <3>1. \A m \in 1..12 : FirstIs(y, m)
      BY Firsts
    <3> QED BY <3>1 DEF FirstIs
  <2> QED BY <2>1, <2>2, <2>3
<1>5. PICK z : z = 365 * y /\ z \in Int
  OBVIOUS
<1>6. a \in Nat /\ b \in Nat /\ c \in Nat /\ a <= b /\ b <= c
  BY <1>1, <1>2
<1>7. ASSUME NEW m \in 13..24
      PROVE  m - 12 \in 1..12 /\ FirstOf(y, m) = z + 365 + MonthStart[m - 12] + (IF m - 12 > 2 THEN c ELSE b)
  <2>1. m - 12 \in 1..12 /\ (m - 12) + 12 = m
    OBVIOUS
  <2> QED BY <1>4, <1>5, <2>1
<1>8. \A m \in 1..12 : FirstOf(y, m) = z + MonthStart[m] + (IF m > 2 THEN b ELSE a)
  BY <1>3, <1>5
<1>9. ASSUME NEW m \in 1..24 PROVE FirstOf(y, m) \in Int
  <2>1. CASE m <= 12
    BY <1>5, <1>6, <1>8, <2>1, MonthTable
  <2>2. CASE ~(m <= 12)
    BY <1>5, <1>6, <1>7, <2>2, MonthTable
  <2> QED BY <2>1, <2>2
<1>10. ASSUME NEW m \in 1..23 PROVE FirstOf(y, m) + 28 <= FirstOf(y, m + 1)
  <2>1. CASE m <= 11
    <3>1. m \in 1..12 /\ m + 1 \in 1..12
      BY <2>1
    <3>2. MonthStart[m] + 28 <= MonthStart[m + 1] /\ MonthStart[m] \in Int /\ MonthStart[m + 1] \in Int
      BY <2>1, <3>1, MonthTable
    <3>3. (IF m > 2 THEN b ELSE a) <= (IF m + 1 > 2 THEN b ELSE a)
      BY <1>6
    <3> QED BY <1>5, <1>6, <1>8, <3>1, <3>2, <3>3
  <2>2. CASE m = 12
    BY <1>5, <1>6, <1>7, <1>8, <2>2, MonthTable
  <2>3. CASE m >= 13
    <3>1. m \in 13..24 /\ m + 1 \in 13..24 /\ m - 12 \in 1..11 /\ m + 1 - 12 = (m - 12) + 1
      BY <2>3
    <3>2. MonthStart[m - 12] + 28 <= MonthStart[m - 12 + 1]
          /\ MonthStart[m - 12] \in Int /\ MonthStart[m - 12 + 1] \in Int
      BY <3>1, MonthTable
    <3>3. (IF m - 12 > 2 THEN c ELSE b) <= (IF (m - 12) + 1 > 2 THEN c ELSE b)
      BY <1>6
    <3>4. /\ FirstOf(y, m) = z + 365 + MonthStart[m - 12] + (IF m - 12 > 2 THEN c ELSE b)
          /\ FirstOf(y, m + 1) = z + 365 + MonthStart[m - 12 + 1] + (IF m - 12 + 1 > 2 THEN c ELSE b)
      BY <1>7, <3>1
    <3> QED BY <1>5, <1>6, <3>2, <3>3, <3>4
  <2> QED BY <2>1, <2>2, <2>3
<1>11. ASSUME NEW m \in 1..24, NEW n \in 1..24, m <= n PROVE FirstOf(y, m) <= FirstOf(y, n)
  <2> DEFINE T == {i \in Nat : m + i \in 1..24 /\ ~(FirstOf(y, m) <= FirstOf(y, m + i))}
  <2>1. T = {}
    <3> SUFFICES ASSUME T # {} PROVE FALSE
      OBVIOUS
    <3>1. PICK i \in T : \A k \in T : i <= k
      <4>1. T \in SUBSET Nat
        OBVIOUS
      <4> HIDE DEF T
      <4> QED BY <4>1, LeastElement
    <3>2. i # 0
      <4>1. m + 0 = m
        OBVIOUS
      <4> QED BY <1>9, <3>1, <4>1
    <3>3. i - 1 \in Nat /\ m + (i - 1) \in 1..23 /\ m + (i - 1) + 1 = m + i
      BY <3>1, <3>2
    <3>4. i - 1 \notin T
      BY <3>1, <3>3
    <3>5. FirstOf(y, m) <= FirstOf(y, m + (i - 1))
      BY <3>3, <3>4
    <3>6. FirstOf(y, m + (i - 1)) + 28 <= FirstOf(y, m + i)
      BY <1>10, <3>3
    <3> QED BY <1>9, <3>1, <3>3, <3>5, <3>6
  <2>2. n - m \in Nat /\ m + (n - m) = n
    BY <1>11
  <2> QED BY <2>1, <2>2
<1> QED BY <1>9, <1>10, <1>11

(* A year later is a year later. *)
LEMMA YearsAscend ==
  ASSUME NEW y \in Int, NEW z \in Int, y < z, NEW m \in 1..12
  PROVE  FirstOf(y, m) + 365 <= FirstOf(z, m)
<1>1. y + 1 \in Int /\ z + 1 \in Int /\ y <= z /\ y + 1 <= z + 1
  OBVIOUS
<1>2. /\ LeapsBefore(y) <= LeapsBefore(z) /\ LeapsBefore(y + 1) <= LeapsBefore(z + 1)
      /\ {LeapsBefore(y), LeapsBefore(z), LeapsBefore(y + 1), LeapsBefore(z + 1)} \subseteq Nat
  BY <1>1, LeapsGrow
<1>3. MonthStart[m] \in Int
  BY MonthTable
<1>4. /\ FirstOf(y, m) = 365 * y + MonthStart[m] + (IF m > 2 THEN LeapsBefore(y + 1) ELSE LeapsBefore(y))
      /\ FirstOf(z, m) = 365 * z + MonthStart[m] + (IF m > 2 THEN LeapsBefore(z + 1) ELSE LeapsBefore(z))
  <2>1. FirstIs(y, m) /\ FirstIs(z, m)
    BY Firsts
  <2> QED BY <2>1 DEF FirstIs
<1>5. 365 * y + 365 <= 365 * z
  OBVIOUS
<1> QED BY <1>2, <1>3, <1>4, <1>5

(* A fiscal year of weeks begins within a week of its month. *)
LEMMA AnchorBounds ==
  ASSUME NEW cfg, cfg.month \in 1..12, cfg.weekday \in 0..6, NEW y \in Int
  PROVE  /\ _fy_anchor(cfg, y) \in Int
         /\ FirstOf(y, cfg.month) <= _fy_anchor(cfg, y)
         /\ _fy_anchor(cfg, y) <= FirstOf(y, cfg.month) + 6
<1>1. PICK f, w : f = FirstOf(y, cfg.month) /\ w = cfg.weekday
  OBVIOUS
<1>2. f \in Int /\ w \in Int
  <2>1. \A m \in 1..24 : FirstOf(y, m) \in Int
    BY MonthsAscend
  <2> QED BY <1>1, <2>1
<1>3. PICK r : r = (w - (f % 7)) % 7
  OBVIOUS
<1>4. r \in Int /\ 0 <= r /\ r <= 6
  BY <1>2, <1>3
<1>5. _fy_anchor(cfg, y) = f + r
  BY <1>1, <1>3, Zenon DEF _fy_anchor, weekday
<1>6. f + r \in Int /\ f <= f + r /\ f + r <= f + 6
  BY ONLY <1>2, <1>4
<1> QED BY <1>1, <1>5, <1>6, Zenon

(* The first day of a period; the thirteenth is the first of the next year. *)
Starts(cfg, y, p) ==
    IF cfg.kind = "calendar_month" THEN FirstOf(y, cfg.month + p - 1)
    ELSE IF p = 13 THEN _fy_anchor(cfg, y + 1) ELSE _fy_anchor(cfg, y) + 7 * WeeksBefore(p)

LEMMA WeekTable ==
  /\ \A p \in 1..12 : WeeksBefore(p) \in Int /\ 0 <= WeeksBefore(p) /\ WeeksBefore(p) <= 47
  /\ \A p \in 1..11 : WeeksBefore(p) < WeeksBefore(p + 1)
  /\ WeeksBefore(1) = 0
BY DEF WeeksBefore

LEMMA CalendarType ==
  ASSUME NEW cfg \in Calendars
  PROVE  cfg.kind \in {"calendar_month", "445"} /\ cfg.month \in 1..12 /\ cfg.weekday \in 0..6
<1>1. CASE cfg \in [kind : {"calendar_month"}, month : StartMonth, weekday : {0}]
  <2>1. cfg.kind = "calendar_month" /\ cfg.month \in StartMonth /\ cfg.weekday = 0
    BY <1>1
  <2>2. cfg.month \in 1..12
    BY <2>1, FiscalConstants
  <2>3. cfg.weekday \in 0..6
    BY <2>1
  <2> QED BY <2>1, <2>2, <2>3, Zenon
<1>2. CASE cfg \in [kind : {"445"}, month : StartMonth, weekday : Weekday]
  <2>1. cfg.kind = "445" /\ cfg.month \in StartMonth /\ cfg.weekday \in Weekday
    BY <1>2
  <2> QED BY <2>1, FiscalConstants
<1> QED BY <1>1, <1>2 DEF Calendars

(* Twelve periods make the year, whichever the calendar. *)
LEMMA PeriodsAscend ==
  ASSUME NEW cfg \in Calendars, NEW y \in Int
  PROVE  /\ \A p \in 1..13 : Starts(cfg, y, p) \in Int
         /\ \A p \in 1..12 : /\ Starts(cfg, y, p) < Starts(cfg, y, p + 1)
                             /\ resolve_period(cfg, <<y, p>>) = <<Starts(cfg, y, p), Starts(cfg, y, p + 1) - 1>>
         /\ Starts(cfg, y, 13) = Starts(cfg, y + 1, 1)
<1>0. cfg.kind \in {"calendar_month", "445"} /\ cfg.month \in 1..12 /\ cfg.weekday \in 0..6
  BY CalendarType
<1>1. CASE cfg.kind = "calendar_month"
  <2>1. PICK m : m = cfg.month /\ m \in 1..12
    BY <1>0
  <2>2. ASSUME NEW p \in 1..13
        PROVE  m + p - 1 \in 1..24 /\ Starts(cfg, y, p) = FirstOf(y, m + p - 1)
    BY <1>1, <2>1 DEF Starts
  <2>3. ASSUME NEW p \in 1..13 PROVE Starts(cfg, y, p) \in Int
    BY <2>2, MonthsAscend
  <2>4. ASSUME NEW p \in 1..12
        PROVE  /\ Starts(cfg, y, p) < Starts(cfg, y, p + 1)
               /\ resolve_period(cfg, <<y, p>>) = <<Starts(cfg, y, p), Starts(cfg, y, p + 1) - 1>>
    <3>1. p \in 1..13 /\ p + 1 \in 1..13 /\ m + p - 1 \in 1..23 /\ m + (p + 1) - 1 = (m + p - 1) + 1
          /\ m + (p + 1) - 1 = m + p
      BY <2>1
    <3>2. FirstOf(y, m + p - 1) + 28 <= FirstOf(y, m + p - 1 + 1)
      BY <3>1, MonthsAscend
    <3>3. Starts(cfg, y, p) + 28 <= Starts(cfg, y, p + 1)
      BY <2>2, <3>1, <3>2
    <3>4. Starts(cfg, y, p + 1) = FirstOf(y, m + p)
      BY <2>2, <3>1
    <3>5. resolve_period(cfg, <<y, p>>) = _month_period(cfg, y, p)
      BY <1>1 DEF resolve_period
    <3>6. _month_period(cfg, y, p) = <<FirstOf(y, m + p - 1), FirstOf(y, m + p) - 1>>
      BY <2>1 DEF _month_period
    <3> QED BY <2>2, <2>3, <3>1, <3>3, <3>4, <3>5, <3>6
  <2>5. Starts(cfg, y, 13) = Starts(cfg, y + 1, 1)
    <3>1. m + 13 - 1 = m + 12 /\ m + 1 - 1 = m /\ y + 1 \in Int
      BY <2>1
    <3>2. Starts(cfg, y, 13) = FirstOf(y, m + 12)
      BY <1>1, <2>1, <3>1 DEF Starts
    <3>3. Starts(cfg, y + 1, 1) = FirstOf(y + 1, m)
      BY <1>1, <2>1, <3>1 DEF Starts
    <3>4. FirstOf(y, m + 12) = FirstOf(y + 1, m)
      <4>1. FirstIs(y, m)
        BY <2>1, Firsts
      <4> QED BY <4>1 DEF FirstIs
    <3> QED BY <3>2, <3>3, <3>4
  <2> QED BY <2>3, <2>4, <2>5
<1>2. CASE cfg.kind = "445"
  <2>1. PICK a, b, m : a = _fy_anchor(cfg, y) /\ b = _fy_anchor(cfg, y + 1) /\ m = cfg.month
    OBVIOUS
  <2>2. y + 1 \in Int /\ y < y + 1 /\ m \in 1..12
    BY <1>0, <2>1
  <2>3. /\ a \in Int /\ a <= FirstOf(y, m) + 6
        /\ b \in Int /\ FirstOf(y + 1, m) <= b
    BY <1>0, <2>1, <2>2, AnchorBounds
  <2>4. FirstOf(y, m) \in Int /\ FirstOf(y + 1, m) \in Int
    <3>1. m \in 1..24
      BY <2>2
    <3> QED BY <2>2, <3>1, MonthsAscend
  <2>5. FirstOf(y, m) + 365 <= FirstOf(y + 1, m)
    BY <2>2, YearsAscend
  <2>6. a + 359 <= b
    BY <2>3, <2>4, <2>5
  <2>7. ASSUME NEW p \in 1..12 PROVE Starts(cfg, y, p) = a + 7 * WeeksBefore(p)
    BY <1>2, <2>1 DEF Starts
  <2>8. Starts(cfg, y, 13) = b
    BY <1>2, <2>1 DEF Starts
  <2>9. Starts(cfg, y + 1, 1) = b
    <3>1. Starts(cfg, y + 1, 1) = b + 7 * WeeksBefore(1)
      BY <1>2, <2>1 DEF Starts
    <3> QED BY <2>3, <3>1, WeekTable
  <2>10. ASSUME NEW p \in 1..13 PROVE Starts(cfg, y, p) \in Int
    <3>1. CASE p = 13
      BY <2>3, <2>8, <3>1
    <3>2. CASE p # 13
      <4>1. p \in 1..12
        BY <3>2
      <4>2. WeeksBefore(p) \in Int
        BY <4>1, WeekTable
      <4> QED BY <2>3, <2>7, <4>1, <4>2
    <3> QED BY <3>1, <3>2
  <2>11. ASSUME NEW p \in 1..12
         PROVE  /\ Starts(cfg, y, p) < Starts(cfg, y, p + 1)
                /\ resolve_period(cfg, <<y, p>>) = <<Starts(cfg, y, p), Starts(cfg, y, p + 1) - 1>>
    <3>1. resolve_period(cfg, <<y, p>>) = bounds_445(cfg, y, p)
      BY <1>2 DEF resolve_period
    <3>2. WeeksBefore(p) \in Int /\ WeeksBefore(p) <= 47
      BY WeekTable
    <3>3. CASE p = 12
      <4>1. bounds_445(cfg, y, p) = <<a + 7 * WeeksBefore(p), b - 1>>
        BY <2>1, <3>3 DEF bounds_445
      <4>2. p + 1 = 13
        BY <3>3
      <4> QED BY <2>3, <2>6, <2>7, <2>8, <3>1, <3>2, <4>1, <4>2
    <3>4. CASE p # 12
      <4>1. p \in 1..11 /\ p + 1 \in 1..12
        BY <3>4
      <4>2. WeeksBefore(p) < WeeksBefore(p + 1) /\ WeeksBefore(p + 1) \in Int
        BY <4>1, WeekTable
      <4>3. bounds_445(cfg, y, p) = <<a + 7 * WeeksBefore(p), a + 7 * WeeksBefore(p + 1) - 1>>
        BY <2>1, <3>4 DEF bounds_445
      <4>4. Starts(cfg, y, p + 1) = a + 7 * WeeksBefore(p + 1)
        BY <2>7, <4>1
      <4> QED BY <2>3, <2>7, <3>1, <3>2, <4>2, <4>3, <4>4
    <3> QED BY <3>3, <3>4
  <2> QED BY <2>8, <2>9, <2>10, <2>11
<1> QED BY <1>0, <1>1, <1>2

(* Fiscal years ascend. *)
LEMMA FiscalYearsAscend ==
  ASSUME NEW cfg \in Calendars, NEW y \in Int, NEW z \in Int, y < z
  PROVE  Starts(cfg, y, 1) < Starts(cfg, z, 1)
<1>0. cfg.kind \in {"calendar_month", "445"} /\ cfg.month \in 1..12 /\ cfg.weekday \in 0..6
  BY CalendarType
<1>1. PICK m : m = cfg.month /\ m \in 1..12 /\ m \in 1..24
  BY <1>0
<1>2. FirstOf(y, m) + 365 <= FirstOf(z, m)
  BY <1>1, YearsAscend
<1>3. FirstOf(y, m) \in Int /\ FirstOf(z, m) \in Int
  BY <1>1, MonthsAscend
<1>4. CASE cfg.kind = "calendar_month"
  <2>1. m + 1 - 1 = m
    BY <1>1
  <2>2. Starts(cfg, y, 1) = FirstOf(y, m) /\ Starts(cfg, z, 1) = FirstOf(z, m)
    BY <1>1, <1>4, <2>1 DEF Starts
  <2> QED BY <1>2, <1>3, <2>2
<1>5. CASE cfg.kind = "445"
  <2>1. /\ _fy_anchor(cfg, y) \in Int /\ _fy_anchor(cfg, y) <= FirstOf(y, m) + 6
        /\ _fy_anchor(cfg, z) \in Int /\ FirstOf(z, m) <= _fy_anchor(cfg, z)
    BY <1>0, <1>1, AnchorBounds
  <2>2. Starts(cfg, y, 1) = _fy_anchor(cfg, y) + 7 * 0 /\ Starts(cfg, z, 1) = _fy_anchor(cfg, z) + 7 * 0
    BY <1>5, WeekTable DEF Starts
  <2> QED BY <1>2, <1>3, <2>1, <2>2
<1> QED BY <1>0, <1>4, <1>5

(* The calendar year of a day. *)
LEMMA YearOfDay ==
  ASSUME NEW d \in Nat
  PROVE  YearOf(d) \in Int /\ FirstOf(YearOf(d), 1) <= d /\ d < FirstOf(YearOf(d) + 1, 1)
<1>1. ASSUME NEW y \in Int
      PROVE  /\ FirstOf(y, 1) = 365 * y + LeapsBefore(y) /\ LeapsBefore(y) \in Nat
             /\ 0 <= y => LeapsBefore(y) <= y
             /\ y = 0 => LeapsBefore(y) = 0
  <2>1. FirstOf(y, 1) = 365 * y + MonthStart[1] + LeapsBefore(y)
    <3>1. 1 \in 1..12
      OBVIOUS
    <3>2. FirstIs(y, 1)
      BY <3>1, Firsts
    <3> QED BY <3>2 DEF FirstIs
  <2>2. LeapsBefore(y) \in Nat /\ (0 <= y => LeapsBefore(y) <= y) /\ (y = 0 => LeapsBefore(y) = 0)
    BY LeapsGrow
  <2> QED BY <2>1, <2>2, MonthTable
<1> DEFINE T == {y \in Nat : d < FirstOf(y + 1, 1)}
<1>2. d \in T
  <2>1. d + 1 \in Int
    OBVIOUS
  <2> QED BY <1>1, <2>1
<1>3. PICK y \in T : \A k \in T : y <= k
  <2>1. T \in SUBSET Nat /\ T # {}
    BY <1>2
  <2> HIDE DEF T
  <2> QED BY <2>1, LeastElement
<1>4. y \in Nat /\ d < FirstOf(y + 1, 1)
  BY <1>3
<1>5. FirstOf(y, 1) <= d
  <2>1. CASE y = 0
    BY <1>1, <2>1
  <2>2. CASE y # 0
    <3>1. y - 1 \in Nat /\ y - 1 + 1 = y /\ y - 1 \notin T
      BY <1>3, <2>2
    <3>2. FirstOf(y, 1) \in Int
      BY <1>1
    <3> QED BY <3>1, <3>2
  <2> QED BY <2>1, <2>2
<1>6. y \in (d \div 366 - 1)..(d \div 365 + 1)
  <2>1. 365 * y <= d
    BY <1>1, <1>4, <1>5
  <2>2. d < 366 * (y + 1)
    <3>1. y + 1 \in Int
      BY <1>4
    <3>2. FirstOf(y + 1, 1) = 365 * (y + 1) + LeapsBefore(y + 1) /\ LeapsBefore(y + 1) \in Nat
          /\ LeapsBefore(y + 1) <= y + 1
      BY <1>1, <1>4, <3>1
    <3> QED BY <1>4, <3>2
  <2>3. PICK q, r : q = d \div 366 /\ r = d \div 365
    OBVIOUS
  <2>4. q \in Int /\ 366 * q <= d
    BY <2>3
  <2>5. r \in Int /\ d < 365 * (r + 1)
    BY <2>3
  <2>6. q - 1 <= y /\ y <= r + 1
    BY <1>4, <2>1, <2>2, <2>4, <2>5
  <2> QED BY <1>4, <2>3, <2>4, <2>5, <2>6
<1>7. \E z \in (d \div 366 - 1)..(d \div 365 + 1) : FirstOf(z, 1) <= d /\ d < FirstOf(z + 1, 1)
  BY <1>4, <1>5, <1>6
<1>8. YearOf(d) \in (d \div 366 - 1)..(d \div 365 + 1)
      /\ FirstOf(YearOf(d), 1) <= d /\ d < FirstOf(YearOf(d) + 1, 1)
  BY <1>7, Zenon DEF YearOf
<1> QED BY <1>8

(* And its month. *)
LEMMA MonthOfDay ==
  ASSUME NEW d \in Nat
  PROVE  /\ MonthOf(d) \in 1..12
         /\ FirstOf(YearOf(d), MonthOf(d)) <= d /\ d < FirstOf(YearOf(d), MonthOf(d) + 1)
<1>1. PICK y : y = YearOf(d)
  OBVIOUS
<1>2. y \in Int /\ FirstOf(y, 1) <= d /\ d < FirstOf(y, 13)
  <2>1. y \in Int /\ FirstOf(y, 1) <= d /\ d < FirstOf(y + 1, 1)
    BY <1>1, YearOfDay
  <2>2. FirstOf(y, 1 + 12) = FirstOf(y + 1, 1)
    <3>1. 1 \in 1..12
      OBVIOUS
    <3>2. FirstIs(y, 1)
      BY <2>1, <3>1, Firsts
    <3> QED BY <3>2 DEF FirstIs
  <2> QED BY <2>1, <2>2
<1>3. \A m \in 1..24 : FirstOf(y, m) \in Int
  BY <1>2, MonthsAscend
<1> DEFINE T == {i \in Nat : i \in 1..12 /\ d < FirstOf(y, i + 1)}
<1>4. 12 \in T
  BY <1>2
<1>5. PICK m \in T : \A k \in T : m <= k
  <2>1. T \in SUBSET Nat /\ T # {}
    BY <1>4
  <2> HIDE DEF T
  <2> QED BY <2>1, LeastElement
<1>6. FirstOf(y, m) <= d
  <2>1. CASE m = 1
    BY <1>2, <2>1
  <2>2. CASE m # 1
    <3>1. m - 1 \in Nat /\ m - 1 \in 1..12 /\ m - 1 + 1 = m /\ m \in 1..24
      BY <1>5, <2>2
    <3>2. ~(d < FirstOf(y, m))
      BY <1>5, <3>1
    <3> QED BY <1>3, <3>1, <3>2
  <2> QED BY <2>1, <2>2
<1>7. \E k \in 1..12 : FirstOf(y, k) <= d /\ d < FirstOf(y, k + 1)
  BY <1>5, <1>6
<1>8. MonthOf(d) = CHOOSE k \in 1..12 : FirstOf(y, k) <= d /\ d < FirstOf(y, k + 1)
  BY <1>1, Zenon DEF MonthOf
<1> QED BY <1>1, <1>7, <1>8, Zenon

(* The fiscal year of a day begins no later than the day and ends after it. *)
LEMMA FiscalYearOfDay ==
  ASSUME NEW cfg \in Calendars, NEW d \in Nat
  PROVE  /\ FiscalYearOf(cfg, d) \in Int
         /\ Starts(cfg, FiscalYearOf(cfg, d), 1) <= d
         /\ d < Starts(cfg, FiscalYearOf(cfg, d) + 1, 1)
<1>0. cfg.kind \in {"calendar_month", "445"} /\ cfg.month \in 1..12 /\ cfg.weekday \in 0..6
  BY CalendarType
<1>1. PICK y, m : y = YearOf(d) /\ m = cfg.month
  OBVIOUS
<1>2. y \in Int /\ m \in 1..12 /\ m \in 1..24 /\ FirstOf(y, 1) <= d /\ d < FirstOf(y + 1, 1)
  BY <1>0, <1>1, YearOfDay
<1>3. \A z \in Int : \A n \in 1..24 : FirstOf(z, n) \in Int
  BY MonthsAscend
<1>4. y - 1 \in Int /\ y + 1 \in Int /\ y + 2 \in Int /\ y - 1 + 1 = y /\ y + 1 + 1 = y + 2 /\ 1 \in 1..24
  BY <1>2
<1>5. FirstOf(y + 1, 1) <= FirstOf(y + 1, m)
  <2>1. 1 <= m /\ m \in 1..24 /\ 1 \in 1..24 /\ y + 1 \in Int
    BY <1>2
  <2> QED BY <2>1, MonthsAscend
<1>6. FirstOf(y - 1, m) + 28 <= FirstOf(y, 1)
  <2>1. m + 1 \in 1..24 /\ m \in 1..23 /\ m + 1 <= 13 /\ 13 \in 1..24
    BY <1>2
  <2>2. FirstOf(y - 1, m) + 28 <= FirstOf(y - 1, m + 1)
    BY <1>4, <2>1, MonthsAscend
  <2>3. FirstOf(y - 1, m + 1) <= FirstOf(y - 1, 13)
    BY <1>4, <2>1, MonthsAscend
  <2>4. FirstOf(y - 1, 1 + 12) = FirstOf(y - 1 + 1, 1)
    <3>1. 1 \in 1..12
      OBVIOUS
    <3>2. FirstIs(y - 1, 1)
      BY <1>4, <3>1, Firsts
    <3> QED BY <3>2 DEF FirstIs
  <2>5. FirstOf(y - 1, m) \in Int /\ FirstOf(y - 1, m + 1) \in Int /\ FirstOf(y, 1) \in Int
    BY <1>2, <1>3, <1>4, <2>1
  <2>6. FirstOf(y - 1, 13) = FirstOf(y, 1)
    BY <1>4, <2>4
  <2> QED BY <2>2, <2>3, <2>5, <2>6
<1>7. CASE cfg.kind = "calendar_month"
  <2>1. ASSUME NEW z \in Int PROVE Starts(cfg, z, 1) = FirstOf(z, m)
    <3>1. m + 1 - 1 = m
      BY <1>2
    <3> QED BY <1>1, <1>7, <3>1 DEF Starts
  <2>2. PICK k : k = MonthOf(d)
    OBVIOUS
  <2>3. k \in 1..12 /\ FirstOf(y, k) <= d /\ d < FirstOf(y, k + 1)
    BY <1>1, <2>2, MonthOfDay
  <2>4. FiscalYearOf(cfg, d) = (IF k >= m THEN y ELSE y - 1)
    BY <1>1, <1>7, <2>2 DEF FiscalYearOf
  <2>5. k \in 1..24 /\ k + 1 \in 1..24
    BY <2>3
  <2>6. CASE k >= m
    <3>1. FirstOf(y, m) <= FirstOf(y, k)
      BY <1>2, <2>5, <2>6, MonthsAscend
    <3>2. FirstOf(y, m) <= d /\ d < FirstOf(y + 1, m)
      <4>1. /\ FirstOf(y, m) \in Int /\ FirstOf(y, k) \in Int
            /\ FirstOf(y + 1, 1) \in Int /\ FirstOf(y + 1, m) \in Int
        BY <1>2, <1>3, <1>4, <2>5
      <4> QED BY <1>2, <1>5, <2>3, <3>1, <4>1
    <3> QED BY <1>2, <1>4, <2>1, <2>4, <2>6, <3>2
  <2>7. CASE ~(k >= m)
    <3>1. FirstOf(y, k + 1) <= FirstOf(y, m)
      <4>1. k + 1 <= m
        BY <1>2, <2>3, <2>7
      <4> QED BY <1>2, <2>5, <4>1, MonthsAscend
    <3>2. FirstOf(y - 1, m) <= d /\ d < FirstOf(y, m)
      <4>1. /\ FirstOf(y - 1, m) \in Int /\ FirstOf(y, k + 1) \in Int
            /\ FirstOf(y, 1) \in Int /\ FirstOf(y, m) \in Int
        BY <1>2, <1>3, <1>4, <2>5
      <4> QED BY <1>2, <1>6, <2>3, <3>1, <4>1
    <3> QED BY <1>2, <1>4, <2>1, <2>4, <2>7, <3>2
  <2> QED BY <2>6, <2>7
<1>8. CASE cfg.kind = "445"
  <2>1. ASSUME NEW z \in Int
        PROVE  /\ Starts(cfg, z, 1) = _fy_anchor(cfg, z) /\ _fy_anchor(cfg, z) \in Int
               /\ FirstOf(z, m) <= _fy_anchor(cfg, z) /\ _fy_anchor(cfg, z) <= FirstOf(z, m) + 6
    <3>1. /\ _fy_anchor(cfg, z) \in Int
          /\ FirstOf(z, m) <= _fy_anchor(cfg, z) /\ _fy_anchor(cfg, z) <= FirstOf(z, m) + 6
      BY <1>0, <1>1, AnchorBounds
    <3>2. Starts(cfg, z, 1) = _fy_anchor(cfg, z) + 7 * 0
      BY <1>8, WeekTable DEF Starts
    <3> QED BY <3>1, <3>2
  <2>2. ~(_fy_anchor(cfg, y + 1) <= d)
    <3>1. FirstOf(y + 1, 1) \in Int /\ FirstOf(y + 1, m) \in Int
      BY <1>2, <1>3, <1>4
    <3>2. FirstOf(y + 1, m) <= _fy_anchor(cfg, y + 1) /\ _fy_anchor(cfg, y + 1) \in Int
      BY <1>4, <2>1
    <3> QED BY <1>2, <1>5, <3>1, <3>2
  <2>3. FiscalYearOf(cfg, d) = (IF _fy_anchor(cfg, y) <= d THEN y ELSE y - 1)
    BY <1>1, <1>8, <2>2 DEF FiscalYearOf
  <2>4. CASE _fy_anchor(cfg, y) <= d
    <3>1. d < _fy_anchor(cfg, y + 1)
      BY <1>4, <2>1, <2>2
    <3> QED BY <1>2, <1>4, <2>1, <2>3, <2>4, <3>1
  <2>5. CASE ~(_fy_anchor(cfg, y) <= d)
    <3>1. _fy_anchor(cfg, y - 1) <= d
      <4>1. _fy_anchor(cfg, y - 1) <= FirstOf(y - 1, m) + 6 /\ _fy_anchor(cfg, y - 1) \in Int
        BY <1>4, <2>1
      <4>2. FirstOf(y - 1, m) \in Int /\ FirstOf(y, 1) \in Int
        BY <1>2, <1>3, <1>4
      <4> QED BY <1>2, <1>6, <4>1, <4>2
    <3>2. d < _fy_anchor(cfg, y)
      BY <1>2, <2>1, <2>5
    <3> QED BY <1>2, <1>4, <2>1, <2>3, <2>5, <3>1, <3>2
  <2> QED BY <2>4, <2>5
<1> QED BY <1>0, <1>7, <1>8

(* A ladder of thirteen. *)
LEMMA Ladder ==
  ASSUME NEW s, \A p \in 1..13 : s[p] \in Int, \A p \in 1..12 : s[p] < s[p + 1]
  PROVE  \A m, n \in 1..13 : m < n => s[m] < s[n]
<1>1. /\ s[1] \in Int /\ s[2] \in Int /\ s[3] \in Int /\ s[4] \in Int /\ s[5] \in Int /\ s[6] \in Int
      /\ s[7] \in Int /\ s[8] \in Int /\ s[9] \in Int /\ s[10] \in Int /\ s[11] \in Int /\ s[12] \in Int
      /\ s[13] \in Int
  OBVIOUS
<1>2. /\ s[1] < s[2] /\ s[2] < s[3] /\ s[3] < s[4] /\ s[4] < s[5] /\ s[5] < s[6] /\ s[6] < s[7]
      /\ s[7] < s[8] /\ s[8] < s[9] /\ s[9] < s[10] /\ s[10] < s[11] /\ s[11] < s[12] /\ s[12] < s[13]
  OBVIOUS
<1> QED BY <1>1, <1>2

(* A day below the top of a ladder and not below its foot stands on one rung. *)
LEMMA Rung ==
  ASSUME NEW s, \A p \in 1..13 : s[p] \in Int, \A p \in 1..12 : s[p] < s[p + 1],
         NEW d \in Int, s[1] <= d, d < s[13]
  PROVE  \E p \in 1..12 : /\ s[p] <= d /\ d < s[p + 1]
                          /\ \A q \in 1..12 : s[q] <= d /\ d < s[q + 1] => q = p
<1> DEFINE T == {i \in Nat : i \in 1..12 /\ d < s[i + 1]}
<1>1. 12 \in T
  OBVIOUS
<1>2. PICK p \in T : \A k \in T : p <= k
  <2>1. T \in SUBSET Nat /\ T # {}
    BY <1>1
  <2> HIDE DEF T
  <2> QED BY <2>1, LeastElement
<1>3. p \in 1..12 /\ p \in 1..13 /\ d < s[p + 1]
  BY <1>2
<1>4. s[p] <= d
  <2>1. CASE p = 1
    BY <2>1
  <2>2. CASE p # 1
    <3>1. p - 1 \in Nat /\ p - 1 \in 1..12 /\ p - 1 + 1 = p /\ p - 1 \notin T
      BY <1>2, <1>3, <2>2
    <3> QED BY <1>3, <3>1
  <2> QED BY <2>1, <2>2
<1>5. ASSUME NEW q \in 1..12, s[q] <= d, d < s[q + 1] PROVE q = p
  <2>1. p <= q
    BY <1>2, <1>5
  <2>2. CASE p = q
    BY <2>2
  <2>3. CASE p # q
    <3>1. p + 1 <= q /\ p + 1 \in 1..13 /\ q \in 1..13
      BY <1>3, <2>1, <2>3
    <3>2. s[p + 1] <= s[q]
      <4>1. CASE p + 1 = q
        BY <3>1, <4>1
      <4>2. CASE p + 1 # q
        <5>1. p + 1 < q
          BY <1>3, <3>1, <4>2
        <5>2. s[p + 1] < s[q]
          BY <3>1, <5>1, Ladder
        <5> QED BY <3>1, <5>2
      <4> QED BY <4>1, <4>2
    <3> QED BY <1>3, <1>5, <3>1, <3>2
  <2> QED BY <2>2, <2>3
<1> QED BY <1>3, <1>4, <1>5

(* One period of one year holds the day. *)
LEMMA OnePeriod ==
  ASSUME NEW cfg \in Calendars, NEW d \in Nat
  PROVE  \E p \in 1..12 :
           /\ period_containing(cfg, d) = {<<FiscalYearOf(cfg, d), p>>}
           /\ Starts(cfg, FiscalYearOf(cfg, d), p) <= d
           /\ d < Starts(cfg, FiscalYearOf(cfg, d), p + 1)
<1>1. PICK y : y = FiscalYearOf(cfg, d)
  OBVIOUS
<1>2. y \in Int /\ Starts(cfg, y, 1) <= d /\ d < Starts(cfg, y, 13)
  <2>1. y \in Int /\ Starts(cfg, y, 1) <= d /\ d < Starts(cfg, y + 1, 1)
    BY <1>1, FiscalYearOfDay
  <2>2. Starts(cfg, y, 13) = Starts(cfg, y + 1, 1)
    BY <2>1, PeriodsAscend
  <2> QED BY <2>1, <2>2
<1>3. PICK s : s = [p \in 1..13 |-> Starts(cfg, y, p)]
  OBVIOUS
<1>4. /\ \A p \in 1..13 : s[p] = Starts(cfg, y, p) /\ s[p] \in Int
      /\ \A p \in 1..12 : s[p] < s[p + 1]
  <2>1. \A p \in 1..13 : s[p] = Starts(cfg, y, p) /\ s[p] \in Int
    BY <1>2, <1>3, PeriodsAscend
  <2>2. ASSUME NEW p \in 1..12 PROVE s[p] < s[p + 1]
    <3>1. p \in 1..13 /\ p + 1 \in 1..13
      OBVIOUS
    <3>2. Starts(cfg, y, p) < Starts(cfg, y, p + 1)
      BY <1>2, PeriodsAscend
    <3> QED BY <2>1, <3>1, <3>2
  <2> QED BY <2>1, <2>2
<1>5. s[1] <= d /\ d < s[13]
  BY <1>2, <1>4
<1>6. PICK p \in 1..12 : s[p] <= d /\ d < s[p + 1] /\ \A q \in 1..12 : s[q] <= d /\ d < s[q + 1] => q = p
  <2>1. d \in Int
    OBVIOUS
  <2> QED BY <1>4, <1>5, <2>1, Rung
<1>7. \A q \in 1..12 : periods_in_year(cfg, y)[q][1] = s[q] /\ periods_in_year(cfg, y)[q][2] = s[q + 1] - 1
  <2>1. ASSUME NEW q \in 1..12
        PROVE  periods_in_year(cfg, y)[q][1] = s[q] /\ periods_in_year(cfg, y)[q][2] = s[q + 1] - 1
    <3>1. q \in 1..13 /\ q + 1 \in 1..13
      OBVIOUS
    <3>2. periods_in_year(cfg, y)[q] = resolve_period(cfg, <<y, q>>)
      BY DEF periods_in_year
    <3>3. resolve_period(cfg, <<y, q>>) = <<Starts(cfg, y, q), Starts(cfg, y, q + 1) - 1>>
      BY <1>2, PeriodsAscend
    <3>4. Starts(cfg, y, q) = s[q] /\ Starts(cfg, y, q + 1) = s[q + 1]
      BY <1>4, <3>1
    <3> QED BY <3>2, <3>3, <3>4
  <2> QED BY <2>1
<1>8. {q \in 1..12 : periods_in_year(cfg, y)[q][1] <= d /\ d <= periods_in_year(cfg, y)[q][2]} = {p}
  <2>1. ASSUME NEW q \in 1..12
        PROVE  periods_in_year(cfg, y)[q][1] <= d /\ d <= periods_in_year(cfg, y)[q][2] <=> q = p
    <3>1. q + 1 \in 1..13
      OBVIOUS
    <3>2. s[q + 1] \in Int
      BY <1>4, <3>1
    <3>3. d <= s[q + 1] - 1 <=> d < s[q + 1]
      BY <3>2
    <3>4. s[q] <= d /\ d < s[q + 1] <=> q = p
      BY <1>6
    <3> QED BY <1>7, <3>3, <3>4
  <2> QED BY <2>1
<1>9. period_containing(cfg, d) = {<<y, q>> : q \in {q \in 1..12 :
          periods_in_year(cfg, y)[q][1] <= d /\ d <= periods_in_year(cfg, y)[q][2]}}
  BY <1>1, Zenon DEF period_containing
<1>10. period_containing(cfg, d) = {<<y, p>>}
  BY <1>8, <1>9
<1>11. p \in 1..13 /\ p + 1 \in 1..13
  OBVIOUS
<1>12. Starts(cfg, y, p) <= d /\ d < Starts(cfg, y, p + 1)
  BY <1>4, <1>6, <1>11
<1> QED BY <1>1, <1>10, <1>12

FcTypeOK == asked \in Nat /\ calendar \in Calendars

(* Every day of either calendar lies in one period and borders on the next. *)
LEMMA DayTiles == ASSUME FcTypeOK PROVE PeriodsTile
<1>1. asked \in Nat /\ asked + 1 \in Nat /\ calendar \in Calendars
  BY DEF FcTypeOK
<1>2. PICK y, z : y = FiscalYearOf(calendar, asked) /\ z = FiscalYearOf(calendar, asked + 1)
  OBVIOUS
<1>3. PICK p \in 1..12 : /\ period_containing(calendar, asked) = {<<y, p>>}
                         /\ Starts(calendar, y, p) <= asked /\ asked < Starts(calendar, y, p + 1)
  BY <1>1, <1>2, OnePeriod
<1>4. PICK q \in 1..12 : /\ period_containing(calendar, asked + 1) = {<<z, q>>}
                         /\ Starts(calendar, z, q) <= asked + 1 /\ asked + 1 < Starts(calendar, z, q + 1)
  BY <1>1, <1>2, OnePeriod
<1>5. y \in Int /\ Starts(calendar, y, 1) <= asked /\ asked < Starts(calendar, y + 1, 1)
  BY <1>1, <1>2, FiscalYearOfDay
<1>6. z \in Int /\ Starts(calendar, z, 1) <= asked + 1 /\ asked + 1 < Starts(calendar, z + 1, 1)
  BY <1>1, <1>2, FiscalYearOfDay
<1>7. \A x \in Int : \A n \in 1..13 : Starts(calendar, x, n) \in Int
  BY <1>1, PeriodsAscend
<1>8. y + 1 \in Int /\ z + 1 \in Int
  BY <1>5, <1>6
<1>9. z = y \/ z = y + 1
  <2>1. ASSUME z < y PROVE FALSE
    <3>1. Starts(calendar, z + 1, 1) <= Starts(calendar, y, 1)
      <4>1. CASE z + 1 = y
        BY <1>5, <1>7, <4>1
      <4>2. CASE z + 1 # y
        <5>1. z + 1 < y
          BY <1>5, <1>6, <2>1, <4>2
        <5>2. Starts(calendar, z + 1, 1) < Starts(calendar, y, 1)
          BY <1>1, <1>5, <1>8, <5>1, FiscalYearsAscend
        <5> QED BY <1>5, <1>7, <1>8, <5>2
      <4> QED BY <4>1, <4>2
    <3>2. Starts(calendar, z + 1, 1) \in Int /\ Starts(calendar, y, 1) \in Int
      BY <1>5, <1>7, <1>8
    <3> QED BY <1>1, <1>5, <1>6, <3>1, <3>2
  <2>2. ASSUME y + 1 < z PROVE FALSE
    <3>1. Starts(calendar, y + 1, 1) < Starts(calendar, z, 1)
      BY <1>1, <1>6, <1>8, <2>2, FiscalYearsAscend
    <3>2. Starts(calendar, y + 1, 1) \in Int /\ Starts(calendar, z, 1) \in Int
      BY <1>6, <1>7, <1>8
    <3> QED BY <1>1, <1>5, <1>6, <3>1, <3>2
  <2> QED BY <1>5, <1>6, <2>1, <2>2
<1>10. PICK s, t : /\ s = [n \in 1..13 |-> Starts(calendar, y, n)]
                   /\ t = [n \in 1..13 |-> Starts(calendar, z, n)]
  OBVIOUS
<1>11. /\ \A n \in 1..13 : s[n] = Starts(calendar, y, n) /\ s[n] \in Int
       /\ \A n \in 1..12 : s[n] < s[n + 1]
       /\ \A n \in 1..12 : resolve_period(calendar, <<y, n>>) = <<s[n], s[n + 1] - 1>>
  <2>1. \A n \in 1..13 : s[n] = Starts(calendar, y, n) /\ s[n] \in Int
    BY <1>5, <1>7, <1>10
  <2>2. ASSUME NEW n \in 1..12
        PROVE  s[n] < s[n + 1] /\ resolve_period(calendar, <<y, n>>) = <<s[n], s[n + 1] - 1>>
    <3>1. n \in 1..13 /\ n + 1 \in 1..13
      OBVIOUS
    <3>2. /\ Starts(calendar, y, n) < Starts(calendar, y, n + 1)
          /\ resolve_period(calendar, <<y, n>>) = <<Starts(calendar, y, n), Starts(calendar, y, n + 1) - 1>>
      BY <1>1, <1>5, PeriodsAscend
    <3> QED BY <2>1, <3>1, <3>2
  <2> QED BY <2>1, <2>2
<1>12. \A n \in 1..13 : t[n] = Starts(calendar, z, n) /\ t[n] \in Int
  BY <1>6, <1>7, <1>10
<1>13. ASSUME NEW n \in 1..12 PROVE resolve_period(calendar, <<z, n>>)[1] = t[n]
  <2>1. n \in 1..13
    OBVIOUS
  <2>2. resolve_period(calendar, <<z, n>>) = <<Starts(calendar, z, n), Starts(calendar, z, n + 1) - 1>>
    BY <1>1, <1>6, PeriodsAscend
  <2> QED BY <1>12, <2>1, <2>2
<1>14. /\ p \in 1..13 /\ p + 1 \in 1..13 /\ s[p] <= asked /\ asked < s[p + 1]
       /\ q \in 1..13 /\ q + 1 \in 1..13 /\ t[q] <= asked + 1 /\ asked + 1 < t[q + 1]
  BY <1>3, <1>4, <1>11, <1>12
<1>15. \A m, n \in 1..13 : m < n => s[m] < s[n]
  BY <1>11, Ladder
<1>16. \A m, n \in 1..13 : m < n => t[m] < t[n]
  <2>1. ASSUME NEW n \in 1..12 PROVE t[n] < t[n + 1]
    <3>1. n \in 1..13 /\ n + 1 \in 1..13
      OBVIOUS
    <3>2. Starts(calendar, z, n) < Starts(calendar, z, n + 1)
      BY <1>1, <1>6, PeriodsAscend
    <3> QED BY <1>12, <3>1, <3>2
  <2>2. \A n \in 1..13 : t[n] \in Int
    BY <1>12
  <2> QED BY <2>1, <2>2, Ladder
<1>17. \/ <<z, q>> = <<y, p>> /\ asked < s[p + 1] - 1
       \/ /\ <<z, q>> = (IF p = 12 THEN <<y + 1, 1>> ELSE <<y, p + 1>>)
          /\ asked = s[p + 1] - 1 /\ asked + 1 = t[q]
  <2>0. s[p + 1] \in Int /\ t[q] \in Int /\ t[q + 1] \in Int /\ asked \in Int
    BY <1>1, <1>11, <1>12, <1>14
  <2>1. CASE z = y
    <3>1. s = t
      BY <1>10, <2>1
    <3>2. ~(q < p)
      <4>1. ASSUME q < p PROVE FALSE
        <5>1. t[q + 1] <= s[p]
          <6>1. CASE q + 1 = p
            BY <1>11, <1>14, <3>1, <6>1
          <6>2. CASE q + 1 # p
            <7>1. q + 1 < p
              BY <4>1, <6>2
            <7> QED BY <1>11, <1>14, <1>15, <3>1, <7>1
          <6> QED BY <6>1, <6>2
        <5>2. s[p] \in Int
          BY <1>11, <1>14
        <5> QED BY <1>14, <2>0, <5>1, <5>2
      <4> QED BY <4>1
    <3>3. ~(p + 1 < q)
      <4>1. ASSUME p + 1 < q PROVE FALSE
        <5>1. s[p + 1] < t[q]
          BY <1>14, <1>15, <3>1, <4>1
        <5> QED BY <1>14, <2>0, <5>1
      <4> QED BY <4>1
    <3>4. q = p \/ q = p + 1
      BY <3>2, <3>3
    <3>5. CASE q = p
      BY <1>14, <2>0, <2>1, <3>1, <3>5
    <3>6. CASE q = p + 1
      <4>1. p # 12 /\ t[q] = s[p + 1]
        BY <3>1, <3>6
      <4>2. asked + 1 = s[p + 1]
        BY <1>14, <2>0, <4>1
      <4> QED BY <2>0, <2>1, <3>6, <4>1, <4>2
    <3> QED BY <3>4, <3>5, <3>6
  <2>2. CASE z = y + 1
    <3>1. s[13] = t[1]
      <4>1. Starts(calendar, y, 13) = Starts(calendar, y + 1, 1)
        BY <1>1, <1>5, PeriodsAscend
      <4> QED BY <1>11, <1>12, <2>2, <4>1
    <3>2. t[1] \in Int /\ s[13] \in Int
      BY <1>11, <1>12
    <3>3. asked < s[13]
      <4>1. CASE p = 12
        BY <1>14, <4>1
      <4>2. CASE p # 12
        <5>1. p + 1 < 13
          BY <4>2
        <5>2. s[p + 1] < s[13]
          BY <1>14, <1>15, <5>1
        <5> QED BY <1>14, <2>0, <3>2, <5>2
      <4> QED BY <4>1, <4>2
    <3>4. q = 1
      <4>1. ASSUME q # 1 PROVE FALSE
        <5>1. 1 < q
          BY <4>1
        <5>2. t[1] < t[q]
          BY <1>14, <1>16, <5>1
        <5> QED BY <1>14, <2>0, <3>1, <3>2, <3>3, <5>2
      <4> QED BY <4>1
    <3>5. asked + 1 = s[13]
      BY <1>14, <2>0, <3>1, <3>2, <3>3, <3>4
    <3>6. p = 12
      <4>1. ASSUME p # 12 PROVE FALSE
        <5>1. p + 1 < 13
          BY <4>1
        <5>2. s[p + 1] < s[13]
          BY <1>14, <1>15, <5>1
        <5> QED BY <1>14, <2>0, <3>2, <3>5, <5>2
      <4> QED BY <4>1
    <3> QED BY <2>0, <2>2, <3>1, <3>2, <3>4, <3>5, <3>6
  <2> QED BY <1>9, <2>1, <2>2
<1> DEFINE here == period_containing(calendar, asked)
           next == period_containing(calendar, asked + 1)
<1>18. \E k \in here : \E n \in next :
         /\ here = {k} /\ next = {n}
         /\ \/ n = k /\ asked < resolve_period(calendar, k)[2]
            \/ /\ n = (IF k[2] = 12 THEN <<k[1] + 1, 1>> ELSE <<k[1], k[2] + 1>>)
               /\ asked = resolve_period(calendar, k)[2]
               /\ asked + 1 = resolve_period(calendar, n)[1]
  <2>1. PICK k, n : k = <<y, p>> /\ n = <<z, q>>
    OBVIOUS
  <2>2. k[1] = y /\ k[2] = p /\ here = {k} /\ next = {n}
    BY <1>3, <1>4, <2>1
  <2>3. resolve_period(calendar, k)[2] = s[p + 1] - 1
    <3>1. resolve_period(calendar, k) = <<s[p], s[p + 1] - 1>>
      BY <1>11, <2>1
    <3> QED BY <3>1
  <2>4. resolve_period(calendar, n)[1] = t[q]
    BY <1>13, <2>1
  <2>5. k \in here /\ n \in next
    BY <2>2
  <2> HIDE DEF here, next
  <2> QED BY <1>17, <2>1, <2>2, <2>3, <2>4, <2>5, Zenon
<1> QED BY <1>18 DEF PeriodsTile

(* Over any run of leap years, from any start month and weekday, the periods *)
(* of both calendars tile the days: no day lies in two, none in no period.   *)
THEOREM CalendarTiles == FcSpec => []PeriodsTile
<1>1. FcInit => FcTypeOK
  BY DEF FcInit, FcTypeOK
<1>2. FcTypeOK /\ [FcNext]_fcVars => FcTypeOK'
  BY FiscalConstants DEF FcTypeOK, FcNext, Dawn, fcVars
<1> QED BY <1>1, <1>2, DayTiles, PTL DEF FcSpec

-----------------------------------------------------------------------------
(* Overtime (Overtime, WorkedHours) *)

(* Days that fill a threshold in their order, each with what the earlier    *)
(* ones leave, keep together the lesser of the threshold and their sum.     *)
LEMMA Filled ==
  ASSUME NEW D \in SUBSET Int, IsFiniteSet(D), NEW W \in Nat,
         NEW g, DOMAIN g = D, \A d \in D : g[d] \in Nat,
         NEW r, DOMAIN r = D,
         \A d \in D : r[d] = Least(g[d], Most(0, W - Part(g)[{x \in D : x < d}]))
  PROVE  Total(r) = Least(W, Total(g))
<1> DEFINE Initial(s) == \A x \in s, y \in D : y < x => y \in s
           Kept(s) == Part(r)[s] = Least(W, Part(g)[s])
           T == {n \in Nat : \E s \in SUBSET D : Cardinality(s) = n /\ Initial(s) /\ ~Kept(s)}
<1>0. IsFiniteSet(DOMAIN g) /\ DOMAIN g = D /\ \A k \in DOMAIN g : g[k] \in Int
  <2>1. DOMAIN g = D /\ \A d \in D : g[d] \in Nat
    BY Zenon
  <2>2. ASSUME NEW k \in D PROVE g[k] \in Int
    <3>1. PICK n \in Nat : n = g[k]
      BY <2>1, Zenon
    <3> QED BY ONLY <3>1
  <2> QED BY <2>1, <2>2, Zenon
<1>1. Total(g) \in Int /\ \A s \in SUBSET D : Part(g)[s] \in Int
  BY <1>0, PartInt
<1>2. \A d \in D : r[d] \in Int
  <2>1. ASSUME NEW d \in D PROVE r[d] \in Int
    <3>1. {x \in D : x < d} \in SUBSET D
      OBVIOUS
    <3>2. PICK a : a = Part(g)[{x \in D : x < d}] /\ a \in Int
      BY <1>1, <3>1
    <3>3. r[d] = Least(g[d], Most(0, W - a)) /\ g[d] \in Nat
      BY <3>2
    <3> QED BY <3>2, <3>3 DEF Least, Most
  <2> QED BY <2>1
<1>3. \A s \in SUBSET D : \A x \in s : /\ Part(g)[s] = g[x] + Part(g)[s \ {x}]
                                  /\ Part(r)[s] = r[x] + Part(r)[s \ {x}]
  <2>2. \A s \in SUBSET D : \A x \in s : Part(g)[s] = g[x] + Part(g)[s \ {x}]
    BY ONLY <1>0, PartOff
  <2>3. IsFiniteSet(DOMAIN r) /\ DOMAIN r = D /\ \A k \in DOMAIN r : r[k] \in Int
    BY <1>2
  <2>4. \A s \in SUBSET D : \A x \in s : Part(r)[s] = r[x] + Part(r)[s \ {x}]
    BY ONLY <2>3, PartOff
  <2> QED BY <2>2, <2>4
<1>4. T = {}
  <2> SUFFICES ASSUME T # {} PROVE FALSE
    OBVIOUS
  <2>1. T \in SUBSET Nat
    OBVIOUS
  <2>2. PICK n \in T : \A k \in T : n <= k
    <3> HIDE DEF T
    <3> QED BY <2>1, LeastElement
  <2>3. PICK s \in SUBSET D : Cardinality(s) = n /\ Initial(s) /\ ~Kept(s)
    BY <2>2
  <2>4. s # {}
    <3> SUFFICES ASSUME s = {} PROVE Kept(s)
      BY <2>3
    <3>1. Part(r)[{}] = 0 /\ Part(g)[{}] = 0
      BY PartSteps
    <3> QED BY <3>1 DEF Least
  <2>5. s \subseteq Int /\ IsFiniteSet(s)
    BY FS_Subset
  <2>6. PICK m \in s : \A y \in s : y <= m
    BY <2>4, <2>5, MaxOf
  <2>7. PICK t : t = s \ {m}
    OBVIOUS
  <2>8. t \in SUBSET D /\ m \in D /\ m \in Int
    BY <2>7
  <2>9. t = {x \in D : x < m}
    <3>1. ASSUME NEW x \in t PROVE x \in D /\ x < m
      BY <2>5, <2>6, <2>7, <2>8, <3>1
    <3>2. ASSUME NEW x \in D, x < m PROVE x \in t
      BY <2>3, <2>7, <2>8, <3>2
    <3> QED BY <3>1, <3>2
  <2>10. Initial(t)
    BY <2>8, <2>9
  <2>11. Cardinality(t) = n - 1 /\ Cardinality(t) \in Nat
    <3>1. Cardinality(t) = Cardinality(s) - 1 /\ IsFiniteSet(t)
      BY <2>5, <2>7, FS_RemoveElement
    <3>2. Cardinality(t) \in Nat
      BY <3>1, FS_CardinalityType
    <3> QED BY <2>3, <3>1, <3>2
  <2>12. Kept(t)
    <3>1. n - 1 \notin T
      BY <2>2
    <3> HIDE DEF Initial, Kept
    <3> QED BY <2>8, <2>10, <2>11, <3>1
  <2>13. PICK a : a = Part(g)[t] /\ a \in Int
    BY <1>1, <2>8
  <2>14. r[m] = Least(g[m], Most(0, W - a)) /\ g[m] \in Nat
    BY <2>8, <2>9, <2>13
  <2>15. Part(g)[s] = g[m] + a
    BY <1>3, <2>7, <2>13
  <2>16. Part(r)[s] = r[m] + Part(r)[t]
    BY <1>3, <2>7
  <2>17. Part(r)[t] = Least(W, a)
    BY <2>12, <2>13
  <2>18. Kept(s)
    BY <2>13, <2>14, <2>15, <2>16, <2>17 DEF Least, Most
  <2> QED BY <2>3, <2>18
<1>5. Kept(D)
  <2>1. Cardinality(D) \in Nat /\ D \in SUBSET D
    BY FS_CardinalityType
  <2>2. Initial(D)
    OBVIOUS
  <2> HIDE DEF Initial, Kept
  <2> QED BY <1>4, <2>1, <2>2
<1>6. Total(r) = Part(r)[D] /\ Total(g) = Part(g)[D]
  BY PartSteps
<1> QED BY <1>5, <1>6

(* Hours by day. *)
Hours(h) ==
    /\ IsFiniteSet(DOMAIN h) /\ DOMAIN h \subseteq Int
    /\ \A d \in DOMAIN h : h[d] \in Nat

LEMMA SumIsTotal == \A f : Sum(f) = Total(f)
BY Zenon DEF Sum, Total

WeekOf(D, w) == {x \in D : _workweek_start(x) = w}

(* The seventh day of a workweek worked through. *)
SeventhOf(D, w, r) ==
    IF r.seventh # Never /\ Cardinality(WeekOf(D, w)) = WeekDays THEN {Max(WeekOf(D, w))} ELSE {}

IsSeventh(h, r, d) == d \in SeventhOf(DOMAIN h, _workweek_start(d), r)

RowsOf(h, r) == compute_overtime(h, FALSE, r)

(* What the daily rules leave of a day. *)
StraightOf(h, r, d) == IF IsSeventh(h, r, d) THEN 0 ELSE Least(r.ot, h[d])
DoubleOf(h, r, d) == Most(h[d] - (IF IsSeventh(h, r, d) THEN r.seventh ELSE r.dt), 0)

(* The thresholds of a jurisdiction. *)
LEMMA Thresholds ==
  ASSUME NEW r \in Rulesets
  PROVE  /\ r.weekly \in Nat /\ r.ot \in Nat /\ r.dt \in Nat /\ r.seventh \in Nat
         /\ r.ot <= r.dt
<1>1. {r.weekly, r.ot, r.dt, r.seventh} \subseteq 0..Never /\ Modelled(r)
  BY OvertimeAssumption
<1>2. (r.dt # Never => r.ot # Never) /\ (r.ot # Never /\ r.dt # Never => r.ot < r.dt)
  BY <1>1 DEF Modelled
<1>3. Never \in Nat
  BY DEF Never
<1> QED BY <1>1, <1>2, <1>3

(* A workweek is WeekDays days from its start. *)
LEMMA Workweek ==
  ASSUME NEW d \in Int
  PROVE  /\ _workweek_start(d) \in Int
         /\ _workweek_start(d) <= d /\ d <= _workweek_start(d) + WeekDays - 1
<1>1. PICK x, q : x = d - Anchor /\ q = x \div WeekDays /\ x \in Int
  BY OvertimeAssumption
<1>2. WeekDays \in Int /\ WeekDays >= 1 /\ Anchor \in Int
  BY OvertimeAssumption
<1>3. PICK m : m = x % WeekDays
  OBVIOUS
<1>4. q \in Int /\ m \in Int /\ 0 <= m /\ m <= WeekDays - 1
  BY <1>1, <1>2, <1>3
<1>5. x = WeekDays * q + m
  BY ONLY <1>1, <1>2, <1>3, Z3T(20)
<1>6. _workweek_start(d) = Anchor + q * WeekDays
  BY <1>1 DEF _workweek_start
<1>7. PICK z : z = q * WeekDays /\ z \in Int /\ x = z + m
  BY <1>2, <1>4, <1>5
<1> QED BY <1>1, <1>2, <1>4, <1>6, <1>7

(* The seventh day is the week's last, so no earlier day is one, and it     *)
(* closes a week worked through.                                            *)
LEMMA SeventhIsLast ==
  ASSUME NEW h, Hours(h), NEW r, NEW d \in DOMAIN h
  PROVE  LET week == WeekOf(DOMAIN h, _workweek_start(d))
         IN  /\ IsFiniteSet(week) /\ week \subseteq Int
             /\ IsSeventh(h, r, d) <=> /\ r.seventh # Never /\ Cardinality(week) = WeekDays
                                      /\ \A x \in week : x <= d
             /\ \A x \in week : x < d => ~IsSeventh(h, r, x)
<1>1. PICK w, week : w = _workweek_start(d) /\ week = WeekOf(DOMAIN h, w)
  OBVIOUS
<1>2. d \in week /\ week \in SUBSET DOMAIN h /\ IsFiniteSet(DOMAIN h) /\ DOMAIN h \subseteq Int
  BY <1>1 DEF WeekOf, Hours
<1>3. IsFiniteSet(week) /\ week \subseteq Int /\ week # {}
  BY <1>2, FS_Subset
<1>4. Max(week) \in week /\ \A y \in week : y <= Max(week)
  BY <1>3, MaxOf
<1>5. PICK m : m = Max(week) /\ m \in week /\ \A y \in week : y <= m
  BY <1>4
<1>6. \A x \in week : _workweek_start(x) = w
  BY <1>1 DEF WeekOf
<1>7. ASSUME NEW x \in week
      PROVE  IsSeventh(h, r, x) <=> r.seventh # Never /\ Cardinality(week) = WeekDays /\ x = m
  BY <1>1, <1>5, <1>6 DEF IsSeventh, SeventhOf
<1>8. \A x \in week : x = m <=> \A y \in week : y <= x
  BY <1>3, <1>5
<1>9. \A x \in week : x < d => x # m
  BY <1>2, <1>3, <1>5
<1> QED BY <1>1, <1>2, <1>3, <1>7, <1>8, <1>9

(* What a day is classified into: all of its hours, straight time as far as *)
(* the week has room for it after the days before (g is the week's straight *)
(* time by day), and the day's double time.                                 *)
RowIs(h, r, d, g, split) ==
    /\ split.reg = Least(StraightOf(h, r, d), Most(0, r.weekly - Part(g)[{x \in DOMAIN g : x < d}]))
    /\ split.dt = DoubleOf(h, r, d)
    /\ split.reg \in Int /\ split.ot \in Int /\ split.dt \in Int
    /\ split.reg + split.ot + split.dt = h[d]

LEMMA Rows ==
  ASSUME NEW h, Hours(h), NEW r \in Rulesets, NEW d \in DOMAIN h,
         NEW g, DOMAIN g = WeekOf(DOMAIN h, _workweek_start(d)),
         \A x \in DOMAIN g : g[x] = StraightOf(h, r, x),
         NEW split, split = RowsOf(h, r)[d]
  PROVE  RowIs(h, r, d, g, split)
<1>1. PICK week, seventh, B :
         /\ week = {x \in DOMAIN h : _workweek_start(x) = _workweek_start(d)}
         /\ seventh = IF r.seventh # Never /\ Cardinality(week) = WeekDays THEN {Max(week)} ELSE {}
         /\ B = {x \in week : x < d}
  OBVIOUS
<1>2. /\ week = WeekOf(DOMAIN h, _workweek_start(d)) /\ week = DOMAIN g
      /\ seventh = SeventhOf(DOMAIN h, _workweek_start(d), r)
  BY <1>1 DEF WeekOf, SeventhOf
<1>3. d \in seventh <=> IsSeventh(h, r, d)
  BY <1>2 DEF IsSeventh
<1>4. IsFiniteSet(week) /\ week \subseteq DOMAIN h /\ week \subseteq Int
  BY <1>1, <1>2, SeventhIsLast
<1>5. ASSUME NEW x \in B PROVE x \notin seventh /\ ~IsSeventh(h, r, x)
  <2>1. ~IsSeventh(h, r, x)
    BY <1>1, <1>2, SeventhIsLast
  <2>2. _workweek_start(x) = _workweek_start(d)
    BY <1>1
  <2> QED BY <1>2, <2>1, <2>2 DEF IsSeventh
<1>6. B \ seventh = B
  BY <1>5
<1>7. PICK e : e = [x \in B |-> Classified(h[x], FALSE, r).reg]
  OBVIOUS
<1>8. ASSUME NEW x \in B PROVE e[x] = g[x]
  <2>1. e[x] = Least(r.ot, h[x])
    BY <1>7 DEF Classified
  <2>2. g[x] = Least(r.ot, h[x])
    BY <1>1, <1>2, <1>5 DEF StraightOf
  <2> QED BY <2>1, <2>2
<1>9. StraightBefore(h, B, seventh, r) = Total(e)
  <2>1. e = [x \in B \ seventh |-> Classified(h[x], FALSE, r).reg]
    BY <1>6, <1>7, Zenon
  <2>2. StraightBefore(h, B, seventh, r) = Sum(e)
    BY <2>1, Zenon DEF StraightBefore
  <2> QED BY <2>2, SumIsTotal, Zenon
<1>10. ASSUME NEW x \in week PROVE g[x] \in Nat
  BY <1>2, <1>4, Thresholds DEF StraightOf, Least, Hours
<1>11. Total(e) = Part(g)[B] /\ Part(g)[B] \in Int
  <2>1. B \in SUBSET DOMAIN g /\ IsFiniteSet(DOMAIN g) /\ \A x \in DOMAIN g : g[x] \in Int
    BY <1>1, <1>2, <1>4, <1>10
  <2>2. DOMAIN e = B
    BY <1>7
  <2>3. Part(g)[B] \in Int
    BY <2>1, PartInt
  <2>4. Total(e) = Part(g)[B]
    BY <1>8, <2>1, <2>2, PartRestrict
  <2> QED BY <2>3, <2>4
<1>12. PICK day, keep : /\ day = Classified(h[d], d \in seventh, r)
                       /\ keep = Least(day.reg, Most(0, r.weekly - Part(g)[B]))
  OBVIOUS
<1>13. RowsOf(h, r)[d] = Converted(day, keep)
  <2>1. RowsOf(h, r)[d]
          = Converted(day, Least(day.reg, Most(0, r.weekly - StraightBefore(h, B, seventh, r))))
    BY <1>1, <1>12 DEF RowsOf, compute_overtime
  <2> QED BY <1>9, <1>11, <1>12, <2>1
<1>14. h[d] \in Nat
  BY DEF Hours
<1>15. /\ r.weekly \in Nat /\ r.ot \in Nat /\ r.dt \in Nat /\ r.seventh \in Nat /\ r.ot <= r.dt
  BY Thresholds
<1>16. /\ day.reg = StraightOf(h, r, d) /\ day.dt = DoubleOf(h, r, d)
       /\ day.reg \in Int /\ day.ot \in Int /\ day.dt \in Int
       /\ day.reg + day.ot + day.dt = h[d]
  <2>1. CASE d \in seventh
    <3>1. day = [reg |-> 0, ot |-> Least(r.seventh, h[d]), dt |-> Most(h[d] - r.seventh, 0)]
      BY <1>12, <2>1 DEF Classified
    <3>2. StraightOf(h, r, d) = 0 /\ DoubleOf(h, r, d) = Most(h[d] - r.seventh, 0)
      BY <1>3, <2>1 DEF StraightOf, DoubleOf
    <3> QED BY <1>14, <1>15, <3>1, <3>2 DEF Least, Most
  <2>2. CASE d \notin seventh
    <3>1. day = [reg |-> Least(r.ot, h[d]), ot |-> Least(Most(h[d] - r.ot, 0), r.dt - r.ot),
                 dt |-> Most(h[d] - r.dt, 0)]
      BY <1>12, <2>2 DEF Classified
    <3>2. StraightOf(h, r, d) = Least(r.ot, h[d]) /\ DoubleOf(h, r, d) = Most(h[d] - r.dt, 0)
      BY <1>3, <2>2 DEF StraightOf, DoubleOf
    <3> QED BY <1>14, <1>15, <3>1, <3>2 DEF Least, Most
  <2> QED BY <2>1, <2>2
<1>17. /\ Converted(day, keep).reg = keep /\ Converted(day, keep).ot = day.ot + day.reg - keep
       /\ Converted(day, keep).dt = day.dt
  BY DEF Converted
<1>18. keep \in Int
  BY <1>11, <1>12, <1>15, <1>16 DEF Least, Most
<1>19. keep + (day.ot + day.reg - keep) + day.dt = h[d] /\ day.ot + day.reg - keep \in Int
  BY <1>14, <1>16, <1>18
<1>20. B = {x \in DOMAIN g : x < d}
  BY <1>1, <1>2
<1> QED BY <1>12, <1>13, <1>16, <1>17, <1>18, <1>19, <1>20 DEF RowIs

(* The straight time of a workweek is cut at the weekly threshold.          *)
LEMMA WeekFilled ==
  ASSUME NEW h, Hours(h), NEW r \in Rulesets, NEW w, NEW week, week = WeekOf(DOMAIN h, w),
         NEW g, DOMAIN g = week, \A d \in week : g[d] = StraightOf(h, r, d),
         NEW k, DOMAIN k = week, \A d \in week : k[d] = RowsOf(h, r)[d].reg
  PROVE  /\ Total(k) = Least(r.weekly, Total(g))
         /\ \A d \in week : g[d] \in Nat /\ k[d] \in Int
<1>1. /\ week \in SUBSET Int /\ IsFiniteSet(week) /\ week \in SUBSET DOMAIN h
      /\ \A d \in week : _workweek_start(d) = w
  BY FS_Subset DEF WeekOf, Hours
<1>2. ASSUME NEW d \in week PROVE g[d] \in Nat
  BY <1>1, <1>2, Thresholds DEF StraightOf, Least, Hours
<1>3. ASSUME NEW d \in week
      PROVE  k[d] = Least(g[d], Most(0, r.weekly - Part(g)[{x \in week : x < d}])) /\ k[d] \in Int
  <2>1. d \in DOMAIN h /\ week = WeekOf(DOMAIN h, _workweek_start(d))
    BY <1>1, <1>3
  <2>2. /\ Hours(h) /\ r \in Rulesets /\ DOMAIN g = WeekOf(DOMAIN h, _workweek_start(d))
        /\ \A x \in DOMAIN g : g[x] = StraightOf(h, r, x)
    BY <2>1
  <2>3. PICK split : split = RowsOf(h, r)[d]
    OBVIOUS
  <2>4. RowIs(h, r, d, g, split)
    BY ONLY <2>1, <2>2, <2>3, Rows
  <2>5. k[d] = split.reg /\ g[d] = StraightOf(h, r, d)
    BY <1>3, <2>3
  <2> QED BY <2>4, <2>5 DEF RowIs
<1>4. r.weekly \in Nat
  BY Thresholds
<1>5. PICK W \in Nat : W = r.weekly
  BY <1>4
<1>6. \A d \in week : g[d] \in Nat
  BY <1>2
<1>7. \A d \in week : k[d] = Least(g[d], Most(0, W - Part(g)[{x \in week : x < d}]))
  BY <1>3, <1>5
<1>8. Total(k) = Least(W, Total(g))
  BY ONLY <1>1, <1>6, <1>7, DOMAIN g = week, DOMAIN k = week, Filled
<1> QED BY <1>2, <1>3, <1>5, <1>8

(* The days worked are days of the period, and their hours are bounded.     *)
OtTypeOK ==
    /\ rule \in Rulesets
    /\ IsFiniteSet(DOMAIN worked) /\ DOMAIN worked \subseteq Period
    /\ \A d \in DOMAIN worked : worked[d] \in 0..MaxHours

LEMMA OtTypeInductive == OtSpec => []OtTypeOK
<1>1. OtInit => OtTypeOK
  BY FS_EmptySet DEF OtInit, OtTypeOK
<1>2. OtTypeOK /\ [OtNext]_otVars => OtTypeOK'
  <2> SUFFICES ASSUME OtTypeOK, [OtNext]_otVars PROVE OtTypeOK'
    OBVIOUS
  <2>1. ASSUME NEW b \in Period, BookHour(b) PROVE OtTypeOK'
    <3>1. DOMAIN worked' = DOMAIN worked \cup {b} /\ rule' = rule
      BY <2>1 DEF BookHour
    <3>2. IsFiniteSet(DOMAIN worked')
      BY <3>1, FS_AddElement DEF OtTypeOK
    <3>3. ASSUME NEW d \in DOMAIN worked' PROVE worked'[d] \in 0..MaxHours
      <4>1. worked'[d] = IF d \notin DOMAIN worked THEN 1 ELSE IF d = b THEN worked[d] + 1 ELSE worked[d]
        BY <2>1, <3>1 DEF BookHour
      <4>2. d \in DOMAIN worked => worked[d] \in 0..MaxHours
        BY DEF OtTypeOK
      <4>3. d \in DOMAIN worked /\ d = b => worked[d] < MaxHours
        BY <2>1 DEF BookHour
      <4>4. PICK n : n = worked'[d]
        OBVIOUS
      <4>5. PICK o : o = worked[d]
        OBVIOUS
      <4>6. n = (IF d \notin DOMAIN worked THEN 1 ELSE IF d = b THEN o + 1 ELSE o)
            /\ (d \in DOMAIN worked => o \in 0..MaxHours) /\ (d \in DOMAIN worked /\ d = b => o < MaxHours)
        BY <4>1, <4>2, <4>3, <4>4, <4>5
      <4> QED BY <4>4, <4>6, WorkedHoursConstants
    <3>4. DOMAIN worked' \subseteq Period /\ rule' \in Rulesets
      BY <3>1 DEF OtTypeOK
    <3> QED BY <3>2, <3>3, <3>4 DEF OtTypeOK
  <2>2. CASE UNCHANGED otVars
    BY <2>2 DEF OtTypeOK, otVars
  <2> QED BY <2>1, <2>2 DEF OtNext
<1> QED BY <1>1, <1>2, PTL DEF OtSpec

LEMMA WorkedHoursType == OtTypeOK => Hours(worked) /\ rule \in Rulesets
<1> SUFFICES ASSUME OtTypeOK PROVE Hours(worked) /\ rule \in Rulesets
  OBVIOUS
<1>1. \A d \in DOMAIN worked : worked[d] \in Nat
  BY WorkedHoursConstants DEF OtTypeOK
<1>2. DOMAIN worked \subseteq Int
  BY WorkedHoursConstants DEF OtTypeOK
<1> QED BY <1>1, <1>2 DEF OtTypeOK, Hours

(* No hour is lost, counted twice or overtime for two reasons, whatever the *)
(* rules, the length of the week and the days and hours booked.             *)
THEOREM HoursAreClassifiedOnce == OtSpec => []NoPyramiding
<1>1. OtTypeOK => NoPyramiding
  <2> SUFFICES ASSUME OtTypeOK PROVE NoPyramiding
    OBVIOUS
  <2> DEFINE rows == compute_overtime(worked, FALSE, rule)
             week(w) == {d \in DOMAIN worked : _workweek_start(d) = w}
             straight(d) == IF rule.seventh # Never /\ Cardinality(week(_workweek_start(d))) = WeekDays
                               /\ \A x \in week(_workweek_start(d)) : x <= d
                            THEN 0 ELSE Least(rule.ot, worked[d])
  <2>1. Hours(worked) /\ rule \in Rulesets
    BY WorkedHoursType
  <2>2. ASSUME NEW d \in DOMAIN worked PROVE straight(d) = StraightOf(worked, rule, d)
    <3>1. week(_workweek_start(d)) = WeekOf(DOMAIN worked, _workweek_start(d))
      BY DEF WeekOf
    <3>2. PICK s : s = week(_workweek_start(d))
      OBVIOUS
    <3>3. IsSeventh(worked, rule, d) <=> /\ rule.seventh # Never /\ Cardinality(s) = WeekDays
                                        /\ \A x \in s : x <= d
      BY <2>1, <3>1, <3>2, SeventhIsLast
    <3> QED BY <3>2, <3>3 DEF StraightOf
  <2>3. ASSUME NEW d \in DOMAIN worked PROVE rows[d].reg + rows[d].ot + rows[d].dt = worked[d]
    <3>1. PICK g : g = [x \in WeekOf(DOMAIN worked, _workweek_start(d)) |-> StraightOf(worked, rule, x)]
      OBVIOUS
    <3>2. /\ DOMAIN g = WeekOf(DOMAIN worked, _workweek_start(d))
          /\ \A x \in DOMAIN g : g[x] = StraightOf(worked, rule, x)
      BY <3>1
    <3>3. PICK split : split = rows[d]
      OBVIOUS
    <3>4. split.reg + split.ot + split.dt = worked[d]
      <4>1. split = RowsOf(worked, rule)[d]
        BY <3>3, Zenon DEF RowsOf
      <4>2. PICK h, r, n : h = worked /\ r = rule /\ n = worked[d]
        OBVIOUS
      <4>3. /\ Hours(h) /\ r \in Rulesets /\ d \in DOMAIN h /\ split = RowsOf(h, r)[d]
            /\ DOMAIN g = WeekOf(DOMAIN h, _workweek_start(d))
            /\ \A x \in DOMAIN g : g[x] = StraightOf(h, r, x)
        BY ONLY <2>1, <2>3, <3>2, <4>1, <4>2
      <4>4. split.reg + split.ot + split.dt = h[d]
        <5>1. RowIs(h, r, d, g, split)
          BY ONLY <4>3, Rows
        <5> QED BY <5>1 DEF RowIs
      <4> QED BY <4>2, <4>4
    <3> QED BY <3>3, <3>4
  <2>4. ASSUME NEW w
        PROVE  Sum([d \in week(w) |-> rows[d].reg])
                 = Least(rule.weekly, Sum([d \in week(w) |-> straight(d)]))
    <3>1. PICK s, g, k : s = week(w) /\ g = [d \in s |-> straight(d)] /\ k = [d \in s |-> rows[d].reg]
      OBVIOUS
    <3>2. s = WeekOf(DOMAIN worked, w) /\ DOMAIN g = s /\ DOMAIN k = s
      BY <3>1 DEF WeekOf
    <3>3. ASSUME NEW d \in s PROVE g[d] = StraightOf(worked, rule, d)
      <4>1. g[d] = straight(d) /\ d \in DOMAIN worked
        BY <3>1
      <4> HIDE DEF straight
      <4> QED BY <2>2, <4>1
    <3>4. \A d \in s : k[d] = RowsOf(worked, rule)[d].reg
      BY <3>1, Zenon DEF RowsOf
    <3>5. Total(k) = Least(rule.weekly, Total(g))
      BY ONLY <2>1, <3>2, <3>3, <3>4, WeekFilled
    <3>6. Sum(k) = Total(k) /\ Sum(g) = Total(g)
      BY SumIsTotal
    <3> HIDE DEF straight, rows, week
    <3> QED BY <3>1, <3>5, <3>6
  <2> QED BY <2>3, <2>4 DEF NoPyramiding
<1> QED BY <1>1, OtTypeInductive, PTL

(* An hour more on a day, which may be new.                                 *)
OneMore(h, j, b) ==
    /\ Hours(h) /\ Hours(j) /\ b \in Int /\ DOMAIN j = DOMAIN h \cup {b}
    /\ \A x \in DOMAIN j : j[x] = (IF x \in DOMAIN h THEN h[x] ELSE 0) + (IF x = b THEN 1 ELSE 0)

(* A seventh day stays one: a week worked through has no room for another.  *)
LEMMA SeventhStays ==
  ASSUME NEW h, NEW j, NEW b, OneMore(h, j, b), NEW r, NEW d \in DOMAIN h, IsSeventh(h, r, d)
  PROVE  IsSeventh(j, r, d)
<1>1. PICK w, A, B : w = _workweek_start(d) /\ A = WeekOf(DOMAIN h, w) /\ B = WeekOf(DOMAIN j, w)
  OBVIOUS
<1>2. A \in SUBSET B /\ B \in SUBSET DOMAIN j
  BY <1>1 DEF WeekOf, OneMore
<1>3. IsFiniteSet(B)
  BY <1>2, FS_Subset DEF OneMore, Hours
<1>4. r.seventh # Never /\ Cardinality(A) = WeekDays
  BY <1>1 DEF IsSeventh, SeventhOf
<1>5. d \in Int /\ w \in Int /\ WeekDays \in Nat
  BY <1>1, Workweek, OvertimeAssumption DEF OneMore, Hours
<1>6. B \in SUBSET (w..w + WeekDays - 1)
  <2>1. ASSUME NEW x \in B PROVE x \in w..w + WeekDays - 1
    <3>1. x \in Int /\ _workweek_start(x) = w
      BY <1>1, <1>2 DEF WeekOf, OneMore, Hours
    <3> QED BY <1>5, <3>1, Workweek
  <2> QED BY <2>1
<1>7. IsFiniteSet(w..w + WeekDays - 1) /\ Cardinality(w..w + WeekDays - 1) = WeekDays
  <2>1. w + WeekDays - 1 \in Int /\ w + WeekDays - 1 - w + 1 = WeekDays
    BY <1>5
  <2>2. w > w + WeekDays - 1 => WeekDays = 0
    BY <1>5
  <2> QED BY <1>5, <2>1, <2>2, FS_Interval
<1>8. Cardinality(B) <= WeekDays /\ Cardinality(A) <= Cardinality(B) /\ Cardinality(B) \in Nat
  <2>1. Cardinality(B) <= Cardinality(w..w + WeekDays - 1)
    BY <1>6, <1>7, FS_Subset
  <2>2. Cardinality(A) <= Cardinality(B)
    BY <1>2, <1>3, FS_Subset
  <2>3. Cardinality(B) \in Nat
    BY <1>3, FS_CardinalityType
  <2> QED BY <1>7, <2>1, <2>2, <2>3
<1>9. A = B
  <2>1. Cardinality(B) = Cardinality(A)
    BY <1>4, <1>5, <1>8
  <2> QED BY <1>2, <1>3, <2>1, FS_Subset
<1> QED BY <1>1, <1>9 DEF IsSeventh, SeventhOf

(* It adds at most an hour to the straight time of its day, and lowers no   *)
(* day's double time.                                                       *)
LEMMA DayGrows ==
  ASSUME NEW h, NEW j, NEW b, OneMore(h, j, b), NEW r \in Rulesets, NEW d \in DOMAIN j
  PROVE  /\ StraightOf(j, r, d) \in Int /\ DoubleOf(j, r, d) \in Int
         /\ d \in DOMAIN h => StraightOf(h, r, d) \in Int /\ DoubleOf(h, r, d) \in Int
         /\ StraightOf(j, r, d)
               <= (IF d \in DOMAIN h THEN StraightOf(h, r, d) ELSE 0) + (IF d = b THEN 1 ELSE 0)
         /\ DoubleOf(j, r, d) >= (IF d \in DOMAIN h THEN DoubleOf(h, r, d) ELSE 0)
<1>1. /\ r.ot \in Nat /\ r.dt \in Nat /\ r.seventh \in Nat
  BY Thresholds
<1>2. PICK n, m : n = j[d] /\ m = h[d]
  OBVIOUS
<1>3. n \in Nat /\ (d \in DOMAIN h => m \in Nat)
      /\ n = (IF d \in DOMAIN h THEN m ELSE 0) + (IF d = b THEN 1 ELSE 0)
  BY <1>2 DEF OneMore, Hours
<1>4. r.seventh # Never => r.seventh <= r.dt
  BY WorkedHoursConstants
<1>5. CASE d \notin DOMAIN h
  <2>1. d = b /\ n = 1
    BY <1>3, <1>5 DEF OneMore
  <2> QED BY <1>1, <1>2, <1>5, <2>1 DEF StraightOf, DoubleOf, Least, Most
<1>6. CASE d \in DOMAIN h
  <2>1. CASE IsSeventh(h, r, d)
    <3>1. IsSeventh(j, r, d)
      BY <1>6, <2>1, SeventhStays
    <3>2. /\ StraightOf(j, r, d) = 0 /\ StraightOf(h, r, d) = 0
          /\ DoubleOf(j, r, d) = Most(n - r.seventh, 0) /\ DoubleOf(h, r, d) = Most(m - r.seventh, 0)
      BY <1>2, <2>1, <3>1 DEF StraightOf, DoubleOf
    <3> QED BY <1>1, <1>3, <1>6, <3>2 DEF Most
  <2>2. CASE ~IsSeventh(h, r, d) /\ IsSeventh(j, r, d)
    <3>1. r.seventh <= r.dt
      BY <1>4, <2>2 DEF IsSeventh, SeventhOf
    <3>2. /\ StraightOf(j, r, d) = 0 /\ StraightOf(h, r, d) = Least(r.ot, m)
          /\ DoubleOf(j, r, d) = Most(n - r.seventh, 0) /\ DoubleOf(h, r, d) = Most(m - r.dt, 0)
      BY <1>2, <2>2 DEF StraightOf, DoubleOf
    <3> QED BY <1>1, <1>3, <1>6, <3>1, <3>2 DEF Most, Least
  <2>3. CASE ~IsSeventh(h, r, d) /\ ~IsSeventh(j, r, d)
    <3>1. /\ StraightOf(j, r, d) = Least(r.ot, n) /\ StraightOf(h, r, d) = Least(r.ot, m)
          /\ DoubleOf(j, r, d) = Most(n - r.dt, 0) /\ DoubleOf(h, r, d) = Most(m - r.dt, 0)
      BY <1>2, <2>3 DEF StraightOf, DoubleOf
    <3> QED BY <1>1, <1>3, <1>6, <3>1 DEF Most, Least
  <2> QED BY <2>1, <2>2, <2>3
<1> QED BY <1>5, <1>6

PayOf(h, r, d) == 2 * RowsOf(h, r)[d].reg + 3 * RowsOf(h, r)[d].ot + 4 * RowsOf(h, r)[d].dt

(* A day pays half as much again, less for straight time, more for double.  *)
LEMMA DayPay ==
  ASSUME NEW h, Hours(h), NEW r \in Rulesets, NEW d \in DOMAIN h, NEW split, split = RowsOf(h, r)[d]
  PROVE  /\ split.reg \in Int /\ DoubleOf(h, r, d) \in Int
         /\ PayOf(h, r, d) \in Int
         /\ 3 * h[d] + DoubleOf(h, r, d) = PayOf(h, r, d) + split.reg
<1>1. PICK g : g = [x \in WeekOf(DOMAIN h, _workweek_start(d)) |-> StraightOf(h, r, x)]
  OBVIOUS
<1>2. /\ Hours(h) /\ r \in Rulesets /\ d \in DOMAIN h /\ split = RowsOf(h, r)[d]
      /\ DOMAIN g = WeekOf(DOMAIN h, _workweek_start(d))
      /\ \A x \in DOMAIN g : g[x] = StraightOf(h, r, x)
  BY <1>1
<1>3. RowIs(h, r, d, g, split)
  BY ONLY <1>2, Rows
<1>4. PayOf(h, r, d) = 2 * split.reg + 3 * split.ot + 4 * split.dt
  BY DEF PayOf
<1> QED BY <1>3, <1>4 DEF RowIs

(* Days of another workweek are classified as they were.                    *)
LEMMA OtherWeeks ==
  ASSUME NEW h, NEW j, NEW b, OneMore(h, j, b), NEW r \in Rulesets, NEW d \in DOMAIN h,
         _workweek_start(d) # _workweek_start(b)
  PROVE  PayOf(j, r, d) = PayOf(h, r, d)
<1>1. PICK w, week : w = _workweek_start(d) /\ week = WeekOf(DOMAIN h, w)
  OBVIOUS
<1>2. week = WeekOf(DOMAIN j, w)
  BY <1>1 DEF WeekOf, OneMore
<1>3. ASSUME NEW x \in week
      PROVE  j[x] = h[x] /\ StraightOf(j, r, x) = StraightOf(h, r, x) /\ DoubleOf(j, r, x) = DoubleOf(h, r, x)
  <2>1. _workweek_start(x) = w /\ x \in DOMAIN h /\ x # b
    BY <1>1 DEF WeekOf
  <2>2. j[x] = h[x]
    <3>1. j[x] = h[x] + 0 /\ h[x] \in Nat
      BY <2>1 DEF OneMore, Hours
    <3> QED BY <3>1
  <2>3. IsSeventh(j, r, x) <=> IsSeventh(h, r, x)
    BY <1>1, <1>2, <2>1 DEF IsSeventh, SeventhOf
  <2> QED BY <2>2, <2>3 DEF StraightOf, DoubleOf
<1>4. PICK g : g = [x \in week |-> StraightOf(h, r, x)]
  OBVIOUS
<1>5. PICK a, c : a = RowsOf(h, r)[d] /\ c = RowsOf(j, r)[d]
  OBVIOUS
<1>6. /\ Hours(h) /\ r \in Rulesets /\ d \in DOMAIN h /\ a = RowsOf(h, r)[d]
      /\ DOMAIN g = WeekOf(DOMAIN h, _workweek_start(d))
      /\ \A x \in DOMAIN g : g[x] = StraightOf(h, r, x)
  BY <1>1, <1>4, <1>5 DEF OneMore
<1>7. /\ Hours(j) /\ r \in Rulesets /\ d \in DOMAIN j /\ c = RowsOf(j, r)[d]
      /\ DOMAIN g = WeekOf(DOMAIN j, _workweek_start(d))
      /\ \A x \in DOMAIN g : g[x] = StraightOf(j, r, x)
  BY <1>1, <1>2, <1>3, <1>4, <1>5 DEF OneMore
<1>8. RowIs(h, r, d, g, a)
  BY ONLY <1>6, Rows
<1>9. RowIs(j, r, d, g, c)
  BY ONLY <1>7, Rows
<1>10. d \in week
  BY <1>1 DEF WeekOf
<1>11. c.reg = a.reg /\ c.dt = a.dt
  BY <1>3, <1>8, <1>9, <1>10, Zenon DEF RowIs
<1>12. c.reg + c.ot + c.dt = a.reg + a.ot + a.dt
  BY <1>3, <1>8, <1>9, <1>10, Zenon DEF RowIs
<1>13. c.ot = a.ot
  BY <1>8, <1>9, <1>11, <1>12 DEF RowIs
<1> QED BY <1>5, <1>11, <1>13, Zenon DEF PayOf

(* An hour more never lowers the pay of its workweek.                       *)
LEMMA WeekPayRises ==
  ASSUME NEW h, NEW j, NEW b, OneMore(h, j, b), NEW r \in Rulesets,
         NEW w, w = _workweek_start(b),
         NEW p, DOMAIN p = WeekOf(DOMAIN h, w), \A d \in DOMAIN p : p[d] = PayOf(h, r, d),
         NEW q, DOMAIN q = WeekOf(DOMAIN j, w), \A d \in DOMAIN q : q[d] = PayOf(j, r, d)
  PROVE  Total(p) <= Total(q)
<1>1. PICK A, B : A = WeekOf(DOMAIN h, w) /\ B = WeekOf(DOMAIN j, w)
  OBVIOUS
<1>2. /\ B = A \cup {b} /\ A \subseteq DOMAIN h /\ B \subseteq DOMAIN j
      /\ IsFiniteSet(A) /\ IsFiniteSet(B) /\ Hours(h) /\ Hours(j)
  <2>1. B = A \cup {b} /\ A \in SUBSET DOMAIN h /\ B \in SUBSET DOMAIN j
    BY <1>1 DEF WeekOf, OneMore
  <2>2. IsFiniteSet(A) /\ IsFiniteSet(B)
    BY <2>1, FS_Subset DEF OneMore, Hours
  <2> QED BY <2>1, <2>2 DEF OneMore
<1>3. PICK g, k, u : /\ g = [d \in A |-> StraightOf(h, r, d)] /\ k = [d \in A |-> RowsOf(h, r)[d].reg]
                    /\ u = [d \in A |-> 3 * h[d] + DoubleOf(h, r, d)]
  OBVIOUS
<1>4. PICK m, l, v : /\ m = [d \in B |-> StraightOf(j, r, d)] /\ l = [d \in B |-> RowsOf(j, r)[d].reg]
                    /\ v = [d \in B |-> 3 * j[d] + DoubleOf(j, r, d)]
  OBVIOUS
<1>5. /\ A = WeekOf(DOMAIN h, w) /\ DOMAIN g = A /\ DOMAIN k = A
      /\ \A d \in A : g[d] = StraightOf(h, r, d)
      /\ \A d \in A : k[d] = RowsOf(h, r)[d].reg
  BY <1>1, <1>3
<1>6. /\ B = WeekOf(DOMAIN j, w) /\ DOMAIN m = B /\ DOMAIN l = B
      /\ \A d \in B : m[d] = StraightOf(j, r, d)
      /\ \A d \in B : l[d] = RowsOf(j, r)[d].reg
  BY <1>1, <1>4
<1>7. Hours(h) /\ Hours(j) /\ r \in Rulesets
  BY <1>2
<1>8. Total(k) = Least(r.weekly, Total(g)) /\ \A d \in A : g[d] \in Nat /\ k[d] \in Int
  BY ONLY <1>5, <1>7, WeekFilled
<1>9. Total(l) = Least(r.weekly, Total(m)) /\ \A d \in B : m[d] \in Nat /\ l[d] \in Int
  BY ONLY <1>6, <1>7, WeekFilled
<1>10. ASSUME NEW d \in A PROVE u[d] \in Int /\ p[d] \in Int /\ k[d] \in Int /\ u[d] = p[d] + k[d]
  <2>1. PICK split : split = RowsOf(h, r)[d]
    OBVIOUS
  <2>2. d \in DOMAIN h /\ h[d] \in Nat
    BY <1>2 DEF Hours
  <2>3. /\ split.reg \in Int /\ DoubleOf(h, r, d) \in Int
        /\ PayOf(h, r, d) \in Int
        /\ 3 * h[d] + DoubleOf(h, r, d) = PayOf(h, r, d) + split.reg
    BY ONLY <1>7, <2>1, <2>2, DayPay
  <2> QED BY <1>1, <1>3, <2>1, <2>2, <2>3
<1>11. ASSUME NEW d \in B PROVE v[d] \in Int /\ q[d] \in Int /\ l[d] \in Int /\ v[d] = q[d] + l[d]
  <2>1. PICK split : split = RowsOf(j, r)[d]
    OBVIOUS
  <2>2. d \in DOMAIN j /\ j[d] \in Nat
    BY <1>2 DEF Hours
  <2>3. /\ split.reg \in Int /\ DoubleOf(j, r, d) \in Int
        /\ PayOf(j, r, d) \in Int
        /\ 3 * j[d] + DoubleOf(j, r, d) = PayOf(j, r, d) + split.reg
    BY ONLY <1>7, <2>1, <2>2, DayPay
  <2> QED BY <1>1, <1>4, <2>1, <2>2, <2>3
<1>12. Total(u) = Total(p) + Total(k)
  <2>1. DOMAIN u = A /\ DOMAIN p = A /\ DOMAIN k = A
    BY <1>1, <1>3
  <2>2. \A d \in A : p[d] \in Int /\ k[d] \in Int /\ u[d] = p[d] + k[d]
    BY <1>10
  <2> QED BY ONLY <1>2, <2>1, <2>2, TotalAdd
<1>13. Total(v) = Total(q) + Total(l)
  <2>1. DOMAIN v = B /\ DOMAIN q = B /\ DOMAIN l = B
    BY <1>1, <1>4
  <2>2. \A d \in B : q[d] \in Int /\ l[d] \in Int /\ v[d] = q[d] + l[d]
    BY <1>11
  <2> QED BY ONLY <1>2, <2>1, <2>2, TotalAdd
<1>14. Total(m) <= Total(g) + 1
  <2>1. PICK e : e = [x \in B |-> (IF x \in A THEN g[x] ELSE 0) + (IF x = b THEN 1 ELSE 0)]
    OBVIOUS
  <2>2. /\ DOMAIN e = DOMAIN g \cup {b} /\ IsFiniteSet(DOMAIN g) /\ \A x \in DOMAIN g : g[x] \in Int
        /\ \A x \in DOMAIN e : e[x] = (IF x \in DOMAIN g THEN g[x] ELSE 0) + (IF x = b THEN 1 ELSE 0)
        /\ 1 \in Int
    BY <1>2, <1>5, <1>8, <2>1
  <2>3. Total(e) = Total(g) + 1
    BY ONLY <2>2, TotalRaised
  <2>4. ASSUME NEW x \in B PROVE m[x] \in Int /\ e[x] \in Int /\ m[x] <= e[x]
    <3>1. x \in DOMAIN j /\ (x \in A <=> x \in DOMAIN h)
      BY <1>1, <1>2 DEF WeekOf
    <3>2. m[x] <= (IF x \in DOMAIN h THEN StraightOf(h, r, x) ELSE 0) + (IF x = b THEN 1 ELSE 0)
      BY <1>6, <3>1, DayGrows
    <3>3. e[x] = (IF x \in A THEN g[x] ELSE 0) + (IF x = b THEN 1 ELSE 0)
      BY <2>1
    <3>4. x \in A => g[x] = StraightOf(h, r, x) /\ g[x] \in Nat
      BY <1>5, <1>8
    <3> QED BY <1>9, <3>1, <3>2, <3>3, <3>4
  <2>5. DOMAIN m = B /\ DOMAIN e = B
    BY <1>6, <2>1
  <2>6. Total(m) <= Total(e)
    BY ONLY <1>2, <2>4, <2>5, TotalLe
  <2> QED BY <2>3, <2>6
<1>15. Total(u) + 3 <= Total(v)
  <2>1. PICK e : e = [x \in B |-> (IF x \in A THEN u[x] ELSE 0) + (IF x = b THEN 3 ELSE 0)]
    OBVIOUS
  <2>2. /\ DOMAIN e = DOMAIN u \cup {b} /\ IsFiniteSet(DOMAIN u) /\ \A x \in DOMAIN u : u[x] \in Int
        /\ \A x \in DOMAIN e : e[x] = (IF x \in DOMAIN u THEN u[x] ELSE 0) + (IF x = b THEN 3 ELSE 0)
        /\ 3 \in Int
    BY <1>2, <1>3, <1>10, <2>1
  <2>3. Total(e) = Total(u) + 3
    BY ONLY <2>2, TotalRaised
  <2>4. ASSUME NEW x \in B PROVE e[x] \in Int /\ v[x] \in Int /\ e[x] <= v[x]
    <3>1. x \in DOMAIN j /\ (x \in A <=> x \in DOMAIN h)
      BY <1>1, <1>2 DEF WeekOf
    <3>2. /\ DoubleOf(j, r, x) \in Int
          /\ x \in DOMAIN h => DoubleOf(h, r, x) \in Int
          /\ DoubleOf(j, r, x) >= (IF x \in DOMAIN h THEN DoubleOf(h, r, x) ELSE 0)
      BY <3>1, DayGrows
    <3>3. e[x] = (IF x \in A THEN u[x] ELSE 0) + (IF x = b THEN 3 ELSE 0)
      BY <2>1
    <3>4. x \in A => u[x] = 3 * h[x] + DoubleOf(h, r, x) /\ h[x] \in Nat
      BY <1>2, <1>3 DEF Hours
    <3>5. v[x] = 3 * j[x] + DoubleOf(j, r, x) /\ j[x] \in Nat
      BY <1>2, <1>4 DEF Hours
    <3>6. j[x] = (IF x \in DOMAIN h THEN h[x] ELSE 0) + (IF x = b THEN 1 ELSE 0)
      BY <3>1 DEF OneMore
    <3> QED BY <3>1, <3>2, <3>3, <3>4, <3>5, <3>6
  <2>5. DOMAIN v = B /\ DOMAIN e = B
    BY <1>4, <2>1
  <2>6. Total(e) <= Total(v)
    BY ONLY <1>2, <2>4, <2>5, TotalLe
  <2> QED BY <2>3, <2>6
<1>16. Total(p) \in Int /\ Total(q) \in Int /\ Total(g) \in Int /\ Total(m) \in Int
  <2>1. \A d \in DOMAIN p : p[d] \in Int
    BY <1>1, <1>10
  <2>2. \A d \in DOMAIN q : q[d] \in Int
    BY <1>1, <1>11
  <2>3. \A d \in DOMAIN g : g[d] \in Int
    BY <1>5, <1>8
  <2>4. \A d \in DOMAIN m : m[d] \in Int
    BY <1>6, <1>9
  <2> QED BY <1>1, <1>2, <1>5, <1>6, <2>1, <2>2, <2>3, <2>4, PartInt
<1>17. r.weekly \in Nat
  BY Thresholds
<1> QED BY <1>8, <1>9, <1>12, <1>13, <1>14, <1>15, <1>16, <1>17 DEF Least

(* An hour more never lowers the pay of a person.                           *)
LEMMA PayRises ==
  ASSUME NEW h, NEW j, NEW b, OneMore(h, j, b), NEW r \in Rulesets,
         NEW p, DOMAIN p = DOMAIN h, \A d \in DOMAIN h : p[d] = PayOf(h, r, d),
         NEW q, DOMAIN q = DOMAIN j, \A d \in DOMAIN j : q[d] = PayOf(j, r, d)
  PROVE  Total(p) <= Total(q)
<1>1. PICK w, A, B, R : /\ w = _workweek_start(b) /\ A = WeekOf(DOMAIN h, w) /\ B = WeekOf(DOMAIN j, w)
                       /\ R = DOMAIN h \ A
  OBVIOUS
<1>2. /\ Hours(h) /\ Hours(j) /\ A \in SUBSET DOMAIN h /\ B \in SUBSET DOMAIN j
      /\ R = DOMAIN j \ B /\ DOMAIN h \subseteq DOMAIN j
      /\ IsFiniteSet(DOMAIN h) /\ IsFiniteSet(DOMAIN j)
  BY <1>1 DEF WeekOf, OneMore, Hours
<1>3. ASSUME NEW d \in DOMAIN p PROVE p[d] \in Int
  <2>1. PICK split : split = RowsOf(h, r)[d]
    OBVIOUS
  <2>2. PayOf(h, r, d) \in Int
    BY <1>2, <2>1, DayPay
  <2> QED BY <2>2
<1>4. ASSUME NEW d \in DOMAIN q PROVE q[d] \in Int
  <2>1. PICK split : split = RowsOf(j, r)[d]
    OBVIOUS
  <2>2. PayOf(j, r, d) \in Int
    BY <1>2, <2>1, DayPay
  <2> QED BY <2>2
<1>5. PICK pA, pR, qB, qR : /\ pA = [d \in A |-> p[d]] /\ pR = [d \in R |-> p[d]]
                           /\ qB = [d \in B |-> q[d]] /\ qR = [d \in R |-> q[d]]
  OBVIOUS
<1>6. Total(p) = Total(pA) + Total(pR)
  <2>1. /\ IsFiniteSet(DOMAIN p) /\ \A k \in DOMAIN p : p[k] \in Int
        /\ A \in SUBSET DOMAIN p
        /\ DOMAIN pA = A /\ \A k \in A : pA[k] = p[k]
        /\ DOMAIN pR = DOMAIN p \ A /\ \A k \in DOMAIN p \ A : pR[k] = p[k]
    BY <1>1, <1>2, <1>3, <1>5
  <2> QED BY ONLY <2>1, TotalSplit
<1>7. Total(q) = Total(qB) + Total(qR)
  <2>1. /\ IsFiniteSet(DOMAIN q) /\ \A k \in DOMAIN q : q[k] \in Int
        /\ B \in SUBSET DOMAIN q
        /\ DOMAIN qB = B /\ \A k \in B : qB[k] = q[k]
        /\ DOMAIN qR = DOMAIN q \ B /\ \A k \in DOMAIN q \ B : qR[k] = q[k]
    BY <1>1, <1>2, <1>4, <1>5
  <2> QED BY ONLY <2>1, TotalSplit
<1>8. Total(pR) = Total(qR)
  <2>1. ASSUME NEW d \in R PROVE pR[d] = qR[d]
    <3>1. d \in DOMAIN h /\ d \in DOMAIN j /\ _workweek_start(d) # _workweek_start(b)
      BY <1>1, <1>2 DEF WeekOf
    <3>2. PayOf(j, r, d) = PayOf(h, r, d)
      BY <3>1, OtherWeeks
    <3> QED BY <1>5, <3>1, <3>2
  <2>2. pR = qR
    BY <1>5, <2>1
  <2> QED BY <2>2, Zenon
<1>9. Total(pA) <= Total(qB)
  <2>1. /\ OneMore(h, j, b) /\ r \in Rulesets /\ w = _workweek_start(b)
        /\ DOMAIN pA = WeekOf(DOMAIN h, w) /\ \A d \in DOMAIN pA : pA[d] = PayOf(h, r, d)
        /\ DOMAIN qB = WeekOf(DOMAIN j, w) /\ \A d \in DOMAIN qB : qB[d] = PayOf(j, r, d)
    BY <1>1, <1>2, <1>5
  <2> QED BY ONLY <2>1, WeekPayRises
<1>10. Total(pA) \in Int /\ Total(pR) \in Int /\ Total(qB) \in Int
  <2>1. /\ IsFiniteSet(DOMAIN pA) /\ \A k \in DOMAIN pA : pA[k] \in Int
        /\ IsFiniteSet(DOMAIN pR) /\ \A k \in DOMAIN pR : pR[k] \in Int
        /\ IsFiniteSet(DOMAIN qB) /\ \A k \in DOMAIN qB : qB[k] \in Int
    <3>1. R \in SUBSET DOMAIN h
      BY <1>1
    <3>2. IsFiniteSet(A) /\ IsFiniteSet(R) /\ IsFiniteSet(B)
      BY <1>2, <3>1, FS_Subset
    <3> QED BY <1>2, <1>3, <1>4, <1>5, <3>1, <3>2
  <2> QED BY <2>1, PartInt
<1> QED BY <1>6, <1>7, <1>8, <1>9, <1>10

(* Working more never pays less, whatever the rules, the length of the week *)
(* and the days and hours booked: an hour more is paid one and a half times,*)
(* less a half for straight time, of which its week gains an hour at most.  *)
THEOREM AnHourMoreNeverCosts == OtSpec => MoreHoursNeverPayLess
<1>1. OtTypeOK /\ OtTypeOK' /\ [OtNext]_otVars => [Pay(worked') >= Pay(worked)]_otVars
  <2> SUFFICES ASSUME OtTypeOK, OtTypeOK', OtNext PROVE Pay(worked') >= Pay(worked)
    OBVIOUS
  <2>1. PICK b \in Period : BookHour(b)
    BY DEF OtNext
  <2>2. PICK h, j, r : h = worked /\ j = worked' /\ r = rule
    OBVIOUS
  <2>3. r \in Rulesets /\ Hours(h)
    BY <2>2, WorkedHoursType
  <2>4. IsFiniteSet(DOMAIN j) /\ DOMAIN j \subseteq Period /\ \A d \in DOMAIN j : j[d] \in 0..MaxHours
    BY <2>2 DEF OtTypeOK
  <2>5. Hours(j)
    <3>1. \A d \in DOMAIN j : j[d] \in Nat
      BY <2>4, WorkedHoursConstants
    <3>2. DOMAIN j \subseteq Int
      BY <2>4, WorkedHoursConstants
    <3> QED BY <2>4, <3>1, <3>2 DEF Hours
  <2>6. OneMore(h, j, b)
    <3>1. /\ DOMAIN j = DOMAIN h \cup {b}
          /\ \A x \in DOMAIN j : j[x] = IF x \notin DOMAIN h THEN 1 ELSE IF x = b THEN h[x] + 1 ELSE h[x]
      BY <2>1, <2>2 DEF BookHour
    <3>2. ASSUME NEW x \in DOMAIN j
          PROVE  j[x] = (IF x \in DOMAIN h THEN h[x] ELSE 0) + (IF x = b THEN 1 ELSE 0)
      <4>1. PICK n : n = h[x] /\ (x \in DOMAIN h => n \in Nat)
        BY <2>3 DEF Hours
      <4>2. j[x] = IF x \notin DOMAIN h THEN 1 ELSE IF x = b THEN n + 1 ELSE n
        BY <3>1, <4>1
      <4>3. x \notin DOMAIN h => x = b
        BY <3>1
      <4> QED BY <4>1, <4>2, <4>3
    <3>3. b \in Int
      BY <2>1, WorkedHoursConstants
    <3> QED BY <2>3, <2>5, <3>1, <3>2, <3>3 DEF OneMore
  <2>7. PICK p, q : p = [d \in DOMAIN h |-> PayOf(h, r, d)] /\ q = [d \in DOMAIN j |-> PayOf(j, r, d)]
    OBVIOUS
  <2>8. Total(p) <= Total(q)
    <3>1. /\ OneMore(h, j, b) /\ r \in Rulesets
          /\ DOMAIN p = DOMAIN h /\ \A d \in DOMAIN h : p[d] = PayOf(h, r, d)
          /\ DOMAIN q = DOMAIN j /\ \A d \in DOMAIN j : q[d] = PayOf(j, r, d)
      BY <2>3, <2>6, <2>7
    <3> QED BY ONLY <3>1, PayRises
  <2>9. Pay(worked) = Total(p) /\ Pay(worked') = Total(q)
    <3>1. Pay(worked) = Sum(p)
      BY <2>2, <2>7, Zenon DEF Pay, PayOf, RowsOf
    <3>2. Pay(worked') = Sum(q)
      BY <2>2, <2>7, Zenon DEF Pay, PayOf, RowsOf
    <3> QED BY <3>1, <3>2, SumIsTotal, Zenon
  <2>10. Total(p) \in Int /\ Total(q) \in Int
    <3>1. ASSUME NEW d \in DOMAIN h PROVE p[d] \in Int
      <4>1. PICK split : split = RowsOf(h, r)[d]
        OBVIOUS
      <4> QED BY <2>3, <2>7, <4>1, DayPay
    <3>2. ASSUME NEW d \in DOMAIN j PROVE q[d] \in Int
      <4>1. PICK split : split = RowsOf(j, r)[d]
        OBVIOUS
      <4> QED BY <2>3, <2>5, <2>7, <4>1, DayPay
    <3>3. DOMAIN p = DOMAIN h /\ DOMAIN q = DOMAIN j /\ IsFiniteSet(DOMAIN h)
      BY <2>3, <2>7 DEF Hours
    <3> QED BY <2>4, <3>1, <3>2, <3>3, PartInt
  <2> QED BY <2>8, <2>9, <2>10
<1>2. OtSpec => [][OtNext]_otVars
  BY PTL DEF OtSpec
<1> QED BY <1>1, <1>2, OtTypeInductive, PTL DEF MoreHoursNeverPayLess

-----------------------------------------------------------------------------
(* Whose paycheck a period is (Paychecks) *)

CkTypeOK ==
    /\ IsFiniteSet(stints)
    /\ stints \subseteq [property : Site, from : PlacedOn, to : PlacedOn \cup {Open},
                         active : BOOLEAN, primary : BOOLEAN]

(* Who owns the last covered day of a period has a placement that overlaps it. *)
LEMMA OwnerOverlaps ==
  ASSUME CkTypeOK, NEW start \in PlacedOn, NEW end \in start..LastOn
  PROVE  LET owner == _owner_on_last_covered_day(stints, start, end)
         IN  /\ owner = {} <=> {on \in start..end : primary_assignment_on(stints, on) # {}} = {}
             /\ IsFiniteSet(owner)
             /\ \A p \in owner : /\ p \in Site
                                 /\ \E a \in stints : /\ a.primary /\ a.property = p
                                                      /\ overlaps_period(a, start, end)
<1> DEFINE owners(on) == {a.property : a \in primary_assignment_on(stints, on)}
           owned == {on \in start..end : owners(on) # {}}
<1>1. start \in Int /\ end \in Int /\ LastOn \in Nat
  BY PaychecksConstants DEF PlacedOn
<1>2. owned = {on \in start..end : primary_assignment_on(stints, on) # {}}
  OBVIOUS
<1>3. CASE owned = {}
  <2>1. _owner_on_last_covered_day(stints, start, end) = {}
    BY <1>3 DEF _owner_on_last_covered_day
  <2> QED BY <1>2, <1>3, <2>1, FS_EmptySet
<1>4. CASE owned # {}
  <2>1. owned \subseteq Int /\ IsFiniteSet(owned)
    <3>1. IsFiniteSet(start..end)
      BY <1>1, FS_Interval
    <3>2. owned \subseteq start..end
      OBVIOUS
    <3> QED BY <1>1, <3>1, <3>2, FS_Subset
  <2>2. PICK on : on = Max(owned)
    OBVIOUS
  <2>3. on \in owned
    <3> HIDE DEF owned
    <3> QED BY <1>4, <2>1, <2>2, MaxOf
  <2>4. _owner_on_last_covered_day(stints, start, end) = owners(on)
    BY <1>4, <2>2 DEF _owner_on_last_covered_day
  <2>5. IsFiniteSet(owners(on))
    <3>1. IsFiniteSet(primary_assignment_on(stints, on))
      <4>1. primary_assignment_on(stints, on) \in SUBSET stints
        BY DEF primary_assignment_on, assignments_on
      <4>2. IsFiniteSet(stints)
        BY DEF CkTypeOK
      <4> QED BY <4>1, <4>2, FS_Subset, Zenon
    <3>2. PICK f : f = [a \in primary_assignment_on(stints, on) |-> a.property]
      OBVIOUS
    <3>3. IsFiniteSet(DOMAIN f)
      BY <3>1, <3>2, Zenon
    <3>4. owners(on) = {f[x] : x \in DOMAIN f}
      BY <3>2
    <3> QED BY <3>3, <3>4, ImageFinite
  <2>6. ASSUME NEW p \in owners(on)
        PROVE  p \in Site /\ \E a \in stints : a.primary /\ a.property = p /\ overlaps_period(a, start, end)
    <3>1. PICK a \in stints : in_effect_on(a, on) /\ a.primary /\ a.property = p
      BY <2>6 DEF primary_assignment_on, assignments_on
    <3>2. a.property \in Site /\ a.from \in Int /\ a.to \in Int
      BY <1>1, <3>1 DEF CkTypeOK, PlacedOn, Open
    <3>3. on \in Int /\ start <= on /\ on <= end
      BY <1>1, <2>3
    <3>4. overlaps_period(a, start, end)
      BY <1>1, <3>1, <3>2, <3>3 DEF in_effect_on, covers, overlaps_period
    <3> QED BY <3>1, <3>2, <3>4
  <2> QED BY <1>2, <1>4, <2>3, <2>4, <2>5, <2>6
<1> QED BY <1>3, <1>4

LEMMA CkTypeInductive == CkTypeOK /\ [CkNext]_ckVars => CkTypeOK'
<1> SUFFICES ASSUME CkTypeOK, [CkNext]_ckVars PROVE CkTypeOK'
  OBVIOUS
<1>1. CASE UNCHANGED ckVars
  BY <1>1 DEF CkTypeOK, ckVars
<1>2. ASSUME NEW p \in Site, NEW from \in PlacedOn, NEW to \in PlacedOn \cup {Open},
             NEW active \in BOOLEAN, NEW primary \in BOOLEAN, Place(p, from, to, active, primary)
      PROVE  CkTypeOK'
  <2>1. PICK a : /\ a = [property |-> p, from |-> from, to |-> to, active |-> active, primary |-> primary]
                 /\ stints' = stints \cup {a}
    BY <1>2 DEF Place
  <2>2. IsFiniteSet(stints')
    BY <2>1, FS_AddElement DEF CkTypeOK
  <2> QED BY <2>1, <2>2 DEF CkTypeOK
<1> QED BY <1>1, <1>2 DEF CkNext

(* Whatever history of placements the database admits, every pay period of it *)
(* is paid by one property's run, or raised, or by none where no day of it is *)
(* covered.                                                                   *)
THEOREM PaidOnceEach == CkSpec => []PaidExactlyOnce
<1>1. CkInit => CkTypeOK
  BY FS_EmptySet DEF CkInit, CkTypeOK
<1>2. CkTypeOK => PaidExactlyOnce
  <2> SUFFICES ASSUME CkTypeOK, NEW start \in PlacedOn, NEW end \in start..LastOn, NEW owner,
                      owner = _owner_on_last_covered_day(stints, start, end)
               PROVE  /\ ~Raises(owner) => {p \in Site : paid_by_during(stints, p, start, end)} = owner
                      /\ (owner = {}) <=> ({on \in start..end : primary_assignment_on(stints, on) # {}} = {})
    BY DEF PaidExactlyOnce
  <2>1. /\ owner = {} <=> {on \in start..end : primary_assignment_on(stints, on) # {}} = {}
        /\ IsFiniteSet(owner)
        /\ \A p \in owner : /\ p \in Site
                            /\ \E a \in stints : /\ a.primary /\ a.property = p
                                                 /\ overlaps_period(a, start, end)
    BY OwnerOverlaps
  <2>2. ASSUME NEW p \in Site PROVE paid_by_during(stints, p, start, end) <=> owner = {p}
    BY <2>1 DEF paid_by_during
  <2>3. ASSUME ~Raises(owner) PROVE {p \in Site : paid_by_during(stints, p, start, end)} = owner
    <3>1. CASE owner = {}
      BY <2>2, <3>1
    <3>2. CASE owner # {}
      <4>1. PICK q : owner = {q}
        <5>1. Cardinality(owner) \in Nat /\ Cardinality(owner) # 0 /\ ~(Cardinality(owner) > 1)
          BY <2>1, <2>3, <3>2, FS_CardinalityType, FS_EmptySet DEF Raises
        <5>2. IsFiniteSet(owner) /\ Cardinality(owner) = 1
          BY <2>1, <5>1
        <5> QED BY ONLY <5>2, FS_Singleton
      <4>2. q \in Site
        BY <2>1, <4>1
      <4> QED BY <2>2, <4>1, <4>2
    <3> QED BY <3>1, <3>2
  <2> QED BY <2>1, <2>3
<1> QED BY <1>1, <1>2, CkTypeInductive, PTL DEF CkSpec
=============================================================================
