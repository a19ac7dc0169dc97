----------------------------- MODULE QboTokens -----------------------------
(***************************************************************************)
(* The accounting connection of one tenant: the credential row, the OAuth  *)
(* consent that fills it, and the QboClient built from it for every push   *)
(* (usali/integrations.py, integrations_api.py, qbo_client.py).  Intuit    *)
(* rotates the refresh token on every grant; DbTokenStore writes the new   *)
(* one back in a short transaction of its own, and nothing serialises      *)
(* load -> grant -> store.                                                 *)
(*                                                                         *)
(* A token is [realm, n]: the QuickBooks company it was granted for and a  *)
(* serial number.  Intuit is modelled from what the client relies on (and  *)
(* usali/qbo_mock.py implements): a grant spends its token and mints one.  *)
(***************************************************************************)
EXTENDS Naturals, FiniteSets, Handlers

CONSTANTS Client,       \* push requests in flight, a QboClient each
          Realm,        \* QuickBooks companies the operator may authorise
          MaxAttempts,  \* _MAX_ATTEMPTS: POSTs a throttled push makes
          MaxToken      \* bound: refresh tokens Intuit mints

ASSUME TokenConstants == MaxAttempts \in Nat /\ MaxToken \in Nat /\ IsFiniteSet(Client)

VARIABLES cred,     \* org_integration_credential, integration accounting
          valid,    \* refresh tokens Intuit would honour
          minted,   \* how many it has minted
          lost,     \* tokens spent whose successor reached no store()
          consent,  \* a signed state is outstanding and has not expired
          granted,  \* tokens the callback has exchanged and not yet stored
          client    \* the push requests

qtVars == <<cred, valid, minted, lost, consent, granted, client>>

Token == [realm : Realm, n : 1..MaxToken]
NoToken == [n |-> 0]
NoCred == [connected |-> FALSE]
Cred(t) == [connected |-> TRUE, realm |-> t.realm, token |-> t]

QtInit ==
    /\ cred = NoCred
    /\ valid = {}
    /\ minted = 0
    /\ lost = {}
    /\ consent = FALSE
    /\ granted = {}
    /\ client = [c \in Client |-> Idle]

-----------------------------------------------------------------------------
(* Intuit *)

Mint(r) == [realm |-> r, n |-> minted + 1]

(* What running pushes may still be granted: two refreshes each. *)
Reserved == 2 * Cardinality({c \in Client : client[c] # Idle})

-----------------------------------------------------------------------------
(* The consent flow and disconnect *)

authorize ==
    /\ consent' = TRUE
    /\ UNCHANGED <<cred, valid, minted, lost, granted, client>>

(* _STATE_TTL_SECONDS have passed. *)
StateExpires ==
    /\ consent' = FALSE
    /\ UNCHANGED <<cred, valid, minted, lost, granted, client>>

(* callback: the state verifies and Intuit honours the code.  A state may  *)
(* be used again until it expires; a code may not.                         *)
callback(r) ==
    /\ consent
    /\ minted + Reserved < MaxToken
    /\ valid' = valid \cup {Mint(r)}
    /\ granted' = granted \cup {Mint(r)}
    /\ minted' = minted + 1
    /\ UNCHANGED <<cred, lost, consent, client>>

(* _store_credential: the upsert replaces realm and token together. *)
_store_credential(t) ==
    /\ t \in granted
    /\ granted' = granted \ {t}
    /\ cred' = Cred(t)
    /\ UNCHANGED <<valid, minted, lost, consent, client>>

disconnect ==
    /\ cred' = NoCred
    /\ UNCHANGED <<valid, minted, lost, consent, granted, client>>

-----------------------------------------------------------------------------
(* One push: resolve_qbo, then post_journal_entry *)

Pc(c, pc) == client[c].pc = pc
Goto(c, new) == client' = [client EXCEPT ![c] = new]

resolve_qbo(c) ==
    /\ client[c] = Idle
    /\ cred.connected
    /\ minted + Reserved + 2 <= MaxToken
    /\ Goto(c, [pc |-> "load", realm |-> cred.realm, spent |-> NoToken, new |-> NoToken,
                retried |-> FALSE, throttled |-> 0])
    /\ UNCHANGED <<cred, valid, minted, lost, consent, granted>>

(* DbTokenStore.load; a disconnect since resolve raises. *)
load(c) ==
    /\ Pc(c, "load")
    /\ Goto(c, IF cred.connected
               THEN [client[c] EXCEPT !.pc = "grant", !.spent = cred.token] ELSE Idle)
    /\ UNCHANGED <<cred, valid, minted, lost, consent, granted>>

(* The refresh grant.  invalid_grant is a QboError: the push fails.  When  *)
(* the answer is lost, so is the successor of the token it spent.          *)
Grant(c, answered) ==
    /\ Pc(c, "grant")
    /\ minted < MaxToken
    /\ LET t == client[c].spent
           new == Mint(t.realm)
       IN  IF t \in valid
           THEN /\ valid' = (valid \ {t}) \cup {new}
                /\ minted' = minted + 1
                /\ lost' = IF answered THEN lost ELSE lost \cup {t}
                /\ Goto(c, IF answered THEN [client[c] EXCEPT !.pc = "store", !.new = new]
                                       ELSE Idle)
           ELSE /\ Goto(c, Idle)
                /\ UNCHANGED <<valid, minted, lost>>
    /\ UNCHANGED <<cred, consent, granted>>

(* Faulty: the rotated token is kept in the client and not written back. *)
store_InMemory(c) ==
    /\ Pc(c, "store")
    /\ Goto(c, [client[c] EXCEPT !.pc = "post"])
    /\ UNCHANGED <<cred, valid, minted, lost, consent, granted>>

(* DbTokenStore.store: the row's refresh_token, and only that column. *)
store(c) ==
    /\ Pc(c, "store")
    /\ IF cred.connected
       THEN /\ cred' = [cred EXCEPT !.token = client[c].new]
            /\ Goto(c, [client[c] EXCEPT !.pc = "post"])
       ELSE cred' = cred /\ Goto(c, Idle)
    /\ UNCHANGED <<valid, minted, lost, consent, granted>>

(* Faulty: every 401 refreshes and retries. *)
Unauthorized_Forever(k) == [k EXCEPT !.pc = "load"]

(* A 401 refreshes once and retries; a second one is a QboError. *)
Unauthorized(k) == IF k.retried THEN Idle ELSE [k EXCEPT !.pc = "load", !.retried = TRUE]

(* A 429 waits and retries, up to _MAX_ATTEMPTS throttled answers. *)
Throttled(k) ==
    IF k.throttled + 1 < MaxAttempts THEN [k EXCEPT !.throttled = @ + 1] ELSE Idle

(* POST the entry.  QBO may take it only when the access token is for the  *)
(* realm in the URL; every other answer ends the push.                     *)
PostJournalEntry(c, status) ==
    /\ Pc(c, "post")
    /\ status = 200 => client[c].new.realm = client[c].realm
    /\ Goto(c, IF status = 401 THEN Unauthorized(client[c])
               ELSE IF status = 429 THEN Throttled(client[c]) ELSE Idle)
    /\ UNCHANGED <<cred, valid, minted, lost, consent, granted>>

(* The process dies, or the transaction of store() fails. *)
Crash(c) ==
    /\ client[c] # Idle
    /\ lost' = IF Pc(c, "store") THEN lost \cup {client[c].spent} ELSE lost
    /\ Goto(c, Idle)
    /\ UNCHANGED <<cred, valid, minted, consent, granted>>

Push(c) ==
    \/ load(c) \/ Grant(c, TRUE) \/ store(c)
    \/ \E s \in {200, 400, 401, 429} : PostJournalEntry(c, s)

QtNext ==
    \/ authorize \/ StateExpires \/ disconnect
    \/ \E r \in Realm : callback(r)
    \/ \E t \in granted : _store_credential(t)
    \/ \E c \in Client : resolve_qbo(c) \/ Push(c) \/ Grant(c, FALSE) \/ Crash(c)

(* A running request is scheduled until it ends. *)
QtSpec == QtInit /\ [][QtNext]_qtVars /\ \A c \in Client : WF_qtVars(Push(c))

-----------------------------------------------------------------------------
(* Properties *)

QtTypeOK ==
    /\ cred = NoCred \/ cred \in [connected : {TRUE}, realm : Realm, token : Token]
    /\ valid \subseteq Token
    /\ minted \in 0..MaxToken
    /\ lost \subseteq Token
    /\ consent \in BOOLEAN
    /\ granted \subseteq Token

(* However pushes, reconnects and disconnects interleave, the token on the   *)
(* row still works at Intuit, or its successor is on its way into the row,   *)
(* or a crash or a lost answer ate the successor: a forked refresh costs the *)
(* loser one failed push and "the winner's rotated token is in the row, so a *)
(* retry succeeds" (DbTokenStore).                                           *)
StoredTokenLives ==
    /\ QtTypeOK
    /\ cred.connected =>
         \/ cred.token \in valid
         \/ cred.token \in lost
         \/ \E c \in Client : Pc(c, "store") /\ client[c].spent = cred.token

(* A push ends: the 401 retry happens once and throttling is bounded (the    *)
(* retry loops of post_journal_entry).                                       *)
PushEnds == \A c \in Client : client[c] # Idle ~> client[c] = Idle
=============================================================================
