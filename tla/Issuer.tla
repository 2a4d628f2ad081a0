------------------------------- MODULE Issuer -------------------------------
(***************************************************************************)
(* The issuer (issuer/issuer.go) over its two in-memory stores: NewOffer,  *)
(* the token endpoint and the credential endpoint.  Each HTTP request runs *)
(* in a goroutine of its own; Handlers are the goroutines, each serving    *)
(* one request, and pc[h] is where h is between two accesses to state it   *)
(* shares with others:                                                     *)
(*                                                                         *)
(*   ready --Receive--> consume --> grant ----------------------> done     *)
(*                  \-> lookup --> expiry --> nonce --> issue ...          *)
(*                             \---- no proof ------/                      *)
(*                                ... issue --> rotate --> unlock --> done *)
(*                                                                         *)
(* Every error answer goes straight to done.  Requests are arbitrary: no   *)
(* property below depends on a client keeping its code, token or nonce to  *)
(* itself.                                                                 *)
(***************************************************************************)
EXTENDS OfferStore, TokenStore, ProofJWT

CONSTANTS
  Handlers,            \* goroutines: the bound on requests served
  Supported,           \* metadata.CredentialConfigurationsSupported
  PreAuthCodeTTL, AccessTokenTTL, CNonceTTL,
  RequireProof,        \* the RequireProof option
  OfferConfigs,        \* what callers pass to NewOffer
  TokenRequests,       \* what clients post to /token
  CredentialRequests,  \* what clients post to /credential
  Faults,              \* which of rand.Read, the stores, the factory may fail
  MaxTime              \* the bound on the clock

(***************************************************************************)
(* What a client posts.  preAuthGrant: the form parses and its grant_type  *)
(* is the pre-authorized one.  decodes: the JSON body decodes.  A token    *)
(* that is Empty stands for every Authorization header without one.  The   *)
(* proof is the singular "proof"; proofs is the JWT list of the batch form. *)
(***************************************************************************)
TokenRequest == [preAuthGrant: BOOLEAN, code: Optional(Codes), txCode: Optional(Pins)]

CredentialRequest ==
  [token: Optional(Tokens), decodes: BOOLEAN,
   config: Optional(ConfigIds), format: Optional(Formats), vct: Optional(VCTs),
   proof: Optional([type: ProofTypes, jwt: Optional(JWT)]),
   proofs: Optional(Seq(Optional(JWT)))]

ASSUME IssuerAssumption ==
  /\ Empty \notin Handlers
  /\ IsMap(Supported, ConfigIds, CredentialConfiguration)
  /\ PreAuthCodeTTL \in Nat /\ AccessTokenTTL \in Nat /\ CNonceTTL \in Nat
  /\ RequireProof \in BOOLEAN
  /\ OfferConfigs \subseteq OfferConfig
  /\ TokenRequests \subseteq TokenRequest
  /\ CredentialRequests \subseteq CredentialRequest
  /\ Empty \notin TokenRequests \cup CredentialRequests
  /\ Faults \subseteq {"rand", "store", "factory"}
  /\ MaxTime \in Nat

VARIABLES
  now,     \* time.Now()
  pc,
  req,     \* the request a handler serves
  local,   \* a handler's local variables
  reply,   \* what a handler wrote to its http.ResponseWriter
  handed,  \* history: the nonces token t's record has held
  stale    \* history: the nonces of its token that were replaced, or spent
           \* by an answered request, when handler h looked the token up

vars == <<offers, records, tokenMu, now, pc, req, local, reply, handed, stale>>

PCs == {"ready", "consume", "grant", "lookup", "expiry", "nonce", "issue",
        "rotate", "unlock", "done"}

(* offer, token and config name what the Go variables offer, accessToken   *)
(* and configID hold; nonce is the nonce the handler generates.  History:  *)
(* foundNonce is the one its token's record held at the lookup.            *)
Locals == [offer: Optional(Codes), token: Optional(Tokens),
           config: Optional(ConfigIds), key: Optional(Keys),
           foundNonce: Optional(Nonces),
           nonce: Optional(Nonces), nonceExpiresAt: Nat,
           credential: Optional(Credential)]

NoLocals == [offer |-> Empty, token |-> Empty, config |-> Empty, key |-> Empty,
             foundNonce |-> Empty, nonce |-> Empty, nonceExpiresAt |-> 0,
             credential |-> Empty]

Init ==
  /\ OfferStoreInit
  /\ TokenStoreInit
  /\ now = 0
  /\ pc = [h \in Handlers |-> "ready"]
  /\ req = [h \in Handlers |-> Empty]
  /\ local = [h \in Handlers |-> NoLocals]
  /\ reply = [h \in Handlers |-> Empty]
  /\ handed = [t \in Tokens |-> {}]
  /\ stale = [h \in Handlers |-> {}]

-----------------------------------------------------------------------------
Tick ==
  /\ now < MaxTime
  /\ now' = now + 1
  /\ UNCHANGED <<offers, records, tokenMu, pc, req, local, reply, handed, stale>>

(* NewOffer returns an error, and changes nothing, for a configuration     *)
(* that is not valid and for a code that Save finds in use.                *)
ValidConfigNoSubject(cfg) ==   \* mutant: SubjectID is not required
  cfg.configs # {} /\ cfg.configs \subseteq DOMAIN Supported

ValidConfig(cfg) ==
  /\ cfg.subject # Empty
  /\ cfg.configs # {}
  /\ cfg.configs \subseteq DOMAIN Supported

NewOffer(cfg, code) ==
  /\ ValidConfig(cfg)
  /\ SaveOffer(code,
       [configs |-> cfg.configs, txCode |-> cfg.txCode, subject |-> cfg.subject,
        expiresAt |-> now + IF cfg.ttl = 0 THEN PreAuthCodeTTL ELSE cfg.ttl])
  /\ UNCHANGED <<records, tokenMu, now, pc, req, local, reply, handed, stale>>

-----------------------------------------------------------------------------
(* Steps of a handler. *)

Goto(h, to) == pc' = [pc EXCEPT ![h] = to]

Answer(h, r) ==
  /\ Goto(h, "done")
  /\ reply' = [reply EXCEPT ![h] = r]

Fail(h, code) ==
  Answer(h,
    [error |-> code, token |-> Empty, cNonce |-> Empty, credential |-> Empty])

(* generateToken: 128 or 256 random bits never repeat a value drawn before. *)
FreshTokens == Tokens \ {local[g].token : g \in Handlers}
FreshNonces == Nonces \ {local[g].nonce : g \in Handlers}

(* Where the code drops generateToken's error, a failure yields "". *)
NonceOrEmpty ==
  FreshNonces \cup IF "rand" \in Faults THEN {Empty} ELSE {}

Receive(h, r) ==
  /\ pc[h] = "ready"
  /\ Goto(h, IF r \in TokenRequests THEN "consume" ELSE "lookup")
  /\ req' = [req EXCEPT ![h] = r]
  /\ UNCHANGED <<offers, records, tokenMu, now, local, reply, handed, stale>>

-----------------------------------------------------------------------------
(* handleToken *)

WellFormed(r) == r.preAuthGrant /\ r.code # Empty

RejectTokenRequest(h) ==
  /\ pc[h] = "consume"
  /\ ~WellFormed(req[h])
  /\ Fail(h, "invalid_request")
  /\ UNCHANGED <<offers, records, tokenMu, now, req, local, handed, stale>>

RefuseCode(h) ==
  /\ pc[h] = "consume"
  /\ WellFormed(req[h])
  /\ ConsumeResult(req[h].code, now) # "ok"
  /\ Fail(h, "invalid_grant")
  /\ UNCHANGED <<offers, records, tokenMu, now, req, local, handed, stale>>

(* The store reports a failure of its own, before or after it took effect. *)
ConsumeFails(h) ==
  /\ pc[h] = "consume"
  /\ "store" \in Faults
  /\ WellFormed(req[h])
  /\ UNCHANGED offers \/ Consume(req[h].code, now)
  /\ Fail(h, "server_error")
  /\ UNCHANGED <<records, tokenMu, now, req, local, handed, stale>>

(* Mutant: the PIN is compared only if the request gives one. *)
PinMatchesIfGiven(h) ==
  LET expected == offers[req[h].code].offer.txCode
  IN Empty \notin {expected, req[h].txCode} => req[h].txCode = expected

(* Mutant: a PIN is refused where none is wanted. *)
PinMatchesExactly(h) == req[h].txCode = offers[req[h].code].offer.txCode

(* The code is consumed before the PIN is compared. *)
PinMatches(h) ==
  LET expected == offers[req[h].code].offer.txCode
  IN expected # Empty => req[h].txCode = expected

ConsumeOffer(h) ==
  /\ pc[h] = "consume"
  /\ WellFormed(req[h])
  /\ Consume(req[h].code, now)
  /\ local' = [local EXCEPT ![h].offer = req[h].code]
  /\ \/ /\ PinMatches(h)
        /\ Goto(h, "grant")
        /\ UNCHANGED reply
     \/ /\ ~PinMatches(h)
        /\ Fail(h, "invalid_grant")
  /\ UNCHANGED <<records, tokenMu, now, req, handed, stale>>

TokenRecord(code, nonce) ==
  LET offer == offers[code].offer
  IN [offer |-> code, subject |-> offer.subject, configs |-> offer.configs,
      cNonce |-> nonce, cNonceExpiresAt |-> now + CNonceTTL,
      expiresAt |-> now + AccessTokenTTL]

GrantToken(h) ==
  \E token \in FreshTokens, nonce \in FreshNonces :
    /\ pc[h] = "grant"
    /\ SaveToken(token, TokenRecord(local[h].offer, nonce))
    /\ local' = [local EXCEPT ![h].token = token, ![h].nonce = nonce]
    /\ handed' = [handed EXCEPT ![token] = @ \cup {nonce}]
    /\ Answer(h, [error |-> Empty, token |-> token, cNonce |-> nonce,
                           credential |-> Empty])
    /\ UNCHANGED <<offers, now, req, stale>>

(* generateToken fails, or Save reports an error having stored nothing. *)
GrantFails(h) ==
  /\ pc[h] = "grant"
  /\ Faults \cap {"rand", "store"} # {}
  /\ Fail(h, "server_error")
  /\ UNCHANGED <<offers, records, tokenMu, now, req, local, handed, stale>>

-----------------------------------------------------------------------------
(* handleCredential *)

(* The configurations the request may resolve to: a request by format      *)
(* takes the first match of a map iteration, whose order Go randomises.    *)
Candidates(r) ==
  IF r.config # Empty THEN {r.config}
  ELSE IF r.format # Empty
       THEN {k \in DOMAIN Supported :
               /\ Supported[k].format = r.format
               /\ r.vct \in {Empty, Supported[k].vct}}
       ELSE {}

(* Mutant: the token's configurations are not looked at. *)
ResolveUnauthorised(r, record) ==
  {IF k \in DOMAIN Supported THEN k ELSE Empty : k \in Candidates(r)}
  \cup IF Candidates(r) = {} THEN {Empty} ELSE {}

(* resolveConfigID: the possible results, Empty for an error. *)
ResolveConfigID(r, record) ==
  {IF k \in record.configs \cap DOMAIN Supported THEN k ELSE Empty :
     k \in Candidates(r)}
  \cup IF Candidates(r) = {} THEN {Empty} ELSE {}

(* The singular proof, or else the first of "proofs". *)
ProofOf(r) ==
  IF r.proof # Empty THEN r.proof
  ELSE IF r.proofs # Empty /\ r.proofs # <<>>
       THEN [type |-> "jwt", jwt |-> Head(r.proofs)]
       ELSE Empty

(* The nonce the request's proof carries, if it has a proof that does. *)
ProofNonce(r) ==
  IF ProofOf(r) = Empty \/ ProofOf(r).jwt = Empty THEN Empty
  ELSE ProofOf(r).jwt.nonce

(* The nonces in the proofs of the credentials t has been answered with.   *)
Spent(t) ==
  {ProofNonce(req[g]) : g \in {g \in Handlers :
     /\ local[g].credential # Empty
     /\ reply[g] # Empty
     /\ req[g].token = t}} \ {Empty}

(* Mutant: a token is refused at the very instant it expires. *)
FoundEarly(h) == CanGet(req[h].token) /\ now < records[req[h].token].expiresAt

Found(h) == CanGet(req[h].token) /\ now <= records[req[h].token].expiresAt

(* extractToken: no bearer token, an unknown or expired one, a failing Get. *)
RejectToken(h) ==
  /\ pc[h] = "lookup"
  /\ tokenMu = Empty
  /\ ~Found(h) \/ "store" \in Faults
  /\ Fail(h, "invalid_token")
  /\ UNCHANGED <<offers, records, tokenMu, now, req, local, handed, stale>>

RejectBody(h) ==
  /\ pc[h] = "lookup"
  /\ Found(h)
  /\ ~req[h].decodes
  /\ Fail(h, "invalid_request")
  /\ UNCHANGED <<offers, records, tokenMu, now, req, local, handed, stale>>

RejectConfig(h) ==
  /\ pc[h] = "lookup"
  /\ Found(h)
  /\ req[h].decodes
  /\ Empty \in ResolveConfigID(req[h], records[req[h].token])
  /\ Fail(h, "unsupported_credential_type")
  /\ UNCHANGED <<offers, records, tokenMu, now, req, local, handed, stale>>

(* The record is found and the request resolves to a configuration of it. *)
LookupToken(h) ==
  LET t == req[h].token
  IN /\ pc[h] = "lookup"
     /\ Found(h)
     /\ req[h].decodes
     /\ \E k \in ResolveConfigID(req[h], records[t]) \ {Empty} :
          local' = [local EXCEPT ![h].config = k, ![h].foundNonce = records[t].cNonce]
     /\ stale' = [stale EXCEPT ![h] = (handed[t] \ {records[t].cNonce}) \cup Spent(t)]
     /\ \/ /\ ProofOf(req[h]) # Empty
           /\ Goto(h, "expiry")
           /\ UNCHANGED reply
        \/ /\ ProofOf(req[h]) = Empty /\ ~RequireProof
           /\ Goto(h, "issue")
           /\ UNCHANGED reply
        \/ /\ ProofOf(req[h]) = Empty /\ RequireProof
           /\ Fail(h, "invalid_proof")
     /\ UNCHANGED <<offers, records, tokenMu, now, req, handed>>

(* The answer to a proof that fails: it carries a fresh c_nonce, which the *)
(* handler does not store anywhere.                                        *)
RejectProof(h) ==
  \E nonce \in NonceOrEmpty :
    /\ local' = [local EXCEPT ![h].nonce = nonce]
    /\ Answer(h, [error |-> "invalid_proof", token |-> Empty,
                        cNonce |-> nonce, credential |-> Empty])
    /\ UNCHANGED <<offers, records, tokenMu, now, req, handed, stale>>

(* Mutant: a nonce is refused at the very instant it expires. *)
NonceExpiryStrict(h) ==
  /\ ProofOf(req[h]).type = "jwt"
  /\ ProofOf(req[h]).jwt # Empty
  /\ now < records[req[h].token].cNonceExpiresAt

(* validateProof, first read of the shared record: CNonceExpiresAt. *)
NonceExpiryPasses(h) ==
  /\ ProofOf(req[h]).type = "jwt"
  /\ ProofOf(req[h]).jwt # Empty
  /\ now <= records[req[h].token].cNonceExpiresAt

CheckNonceExpiry(h) ==
  /\ pc[h] = "expiry"
  /\ \/ /\ NonceExpiryPasses(h)
        /\ Goto(h, "nonce")
        /\ UNCHANGED <<offers, records, tokenMu, now, req, local, reply, handed, stale>>
     \/ ~NonceExpiryPasses(h) /\ RejectProof(h)

(* validateProof, second read of the shared record: CNonce. *)
ProofPasses(h) ==
  ProofHolds(ProofOf(req[h]).jwt, records[req[h].token].cNonce)

CheckProof(h) ==
  /\ pc[h] = "nonce"
  /\ \/ /\ ProofPasses(h)
        /\ Goto(h, "issue")
        /\ local' = [local EXCEPT ![h].key = PublicKeyToGoKey(ProofOf(req[h]).jwt.jwk)]
        /\ UNCHANGED <<offers, records, tokenMu, now, req, reply, handed, stale>>
     \/ ~ProofPasses(h) /\ RejectProof(h)

(* The factory call; on its return the new nonce and its expiry are fixed. *)
IssueCredential(h) ==
  \E nonce \in NonceOrEmpty :
    /\ pc[h] = "issue"
    /\ Goto(h, "rotate")
    /\ local' = [local EXCEPT
         ![h].credential = [config |-> local[h].config,
                            subject |-> records[req[h].token].subject,
                            key |-> local[h].key],
         ![h].nonce = nonce,
         ![h].nonceExpiresAt = now + CNonceTTL]
    /\ UNCHANGED <<offers, records, tokenMu, now, req, reply, handed, stale>>

FactoryFails(h) ==
  /\ pc[h] = "issue"
  /\ "factory" \in Faults
  /\ Fail(h, "server_error")
  /\ UNCHANGED <<offers, records, tokenMu, now, req, local, handed, stale>>

(* Mutant: the answer carries the nonce read before the rotation. *)
AnswerOldNonce(h) ==
  Answer(h, [error |-> Empty, token |-> Empty,
             cNonce |-> records[req[h].token].cNonce,
             credential |-> local[h].credential])

AnswerCredential(h) ==
  Answer(h, [error |-> Empty, token |-> Empty, cNonce |-> local[h].nonce,
                   credential |-> local[h].credential])

(* A nonce counts as handed to the token from the rotation's first step. *)
BeginRotate(h) ==
  LET t == req[h].token
  IN /\ pc[h] = "rotate"
     /\ Goto(h, "unlock")
     /\ BeginRotateCNonce(h, t, local[h].nonce, local[h].nonceExpiresAt)
     /\ handed' = [handed EXCEPT ![t] = @ \cup {local[h].nonce}]
     /\ UNCHANGED <<offers, now, req, local, reply, stale>>

EndRotate(h) ==
  /\ pc[h] = "unlock"
  /\ EndRotateCNonce(h, req[h].token, local[h].nonce, local[h].nonceExpiresAt)
  /\ AnswerCredential(h)
  /\ UNCHANGED <<offers, now, req, local, handed, stale>>

(* RotateCNonce's error is dropped: the client is told of the new nonce. *)
RotateFails(h) ==
  /\ pc[h] = "rotate"
  /\ "store" \in Faults
  /\ AnswerCredential(h)
  /\ UNCHANGED <<offers, records, tokenMu, now, req, local, handed, stale>>

-----------------------------------------------------------------------------
HandleToken(h) ==
  \/ RejectTokenRequest(h)
  \/ RefuseCode(h)
  \/ ConsumeFails(h)
  \/ ConsumeOffer(h)
  \/ GrantToken(h)
  \/ GrantFails(h)

HandleCredential(h) ==
  \/ RejectToken(h)
  \/ RejectBody(h)
  \/ RejectConfig(h)
  \/ LookupToken(h)
  \/ CheckNonceExpiry(h)
  \/ CheckProof(h)
  \/ IssueCredential(h)
  \/ FactoryFails(h)
  \/ BeginRotate(h)
  \/ EndRotate(h)
  \/ RotateFails(h)

Next ==
  \/ Tick
  \/ \E cfg \in OfferConfigs, code \in Codes : NewOffer(cfg, code)
  \/ \E h \in Handlers, r \in TokenRequests \cup CredentialRequests : Receive(h, r)
  \/ \E h \in Handlers : HandleToken(h) \/ HandleCredential(h)

Spec == Init /\ [][Next]_vars

(* net/http runs every accepted request to its answer: the scheduler runs  *)
(* each goroutine, and sync.Mutex lets every waiter in eventually.         *)
Fairness ==
  \A h \in Handlers : WF_vars(HandleToken(h) \/ HandleCredential(h))

FairSpec == Spec /\ Fairness
=============================================================================
