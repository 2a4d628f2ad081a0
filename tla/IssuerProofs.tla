---------------------------- MODULE IssuerProofs ----------------------------
(***************************************************************************)
(* Type correctness of the issuer, for every set of handlers, requests,    *)
(* offers and faults. One lemma per action shows that it preserves TypeOK; *)
(* StepType and AnswerType carry the part common to all of them, that a    *)
(* step moves one handler, so that an action's lemma only types what the   *)
(* action assigns. HandleTokenType and HandleCredentialType collect the    *)
(* endpoints, TypeStep the next-state relation. The only assumptions are   *)
(* EmptyAssumption, RSAKeysAssumption and IssuerAssumption, on the         *)
(* constants.                                                              *)
(***************************************************************************)
EXTENDS IssuerProperties, SequenceTheorems, TLAPS

(* The initial state is typed: nothing is stored and no handler runs. *)
LEMMA TypeInit == Init => TypeOK
  BY DEF Init, OfferStoreInit, TokenStoreInit, TypeOK, PlaceOK, Issued, IsMap, PCs,
         Optional, Locals, NoLocals

(* Putting a typed entry into a typed map keeps the map typed and every    *)
(* other entry.                                                            *)
LEMMA PutType ==
  ASSUME NEW K, NEW V, NEW m, IsMap(m, K, V), NEW k \in K, NEW v \in V
  PROVE  /\ IsMap(Put(m, k, v), K, V)
         /\ DOMAIN Put(m, k, v) = DOMAIN m \cup {k}
         /\ Put(m, k, v)[k] = v
         /\ \A x \in DOMAIN m \ {k} : Put(m, k, v)[x] = m[x]
  BY DEF IsMap, Put

(* Time passing changes no type.                                           *)
LEMMA TickType ==
  ASSUME TypeOK, Tick
  PROVE  TypeOK'
<1>1. now' \in Nat
  BY DEF TypeOK, Tick
<1>2. \A h \in Handlers : PlaceOK(h)'
  BY DEF TypeOK, Tick, PlaceOK, Issued, ProofOf
<1> QED
  BY <1>1, <1>2 DEF TypeOK, Tick, IsMap

(* A received request puts the handler where that kind of request starts.  *)
LEMMA ReceiveType ==
  ASSUME TypeOK, NEW h \in Handlers,
         NEW r \in TokenRequests \cup CredentialRequests, Receive(h, r)
  PROVE  TypeOK'
  BY DEF TypeOK, Receive, Goto, PlaceOK, Issued, IsMap, PCs, Optional, ProofOf

(* A valid offer configuration becomes a typed stored offer (NewOffer).    *)
LEMMA NewOfferType ==
  ASSUME TypeOK, NEW cfg \in OfferConfigs, NEW code \in Codes, NewOffer(cfg, code)
  PROVE  TypeOK'
<1> DEFINE o == [configs |-> cfg.configs, txCode |-> cfg.txCode, subject |-> cfg.subject,
                 expiresAt |-> now + IF cfg.ttl = 0 THEN PreAuthCodeTTL ELSE cfg.ttl]
<1>1. cfg \in OfferConfig
  BY IssuerAssumption
<1>2. now + (IF cfg.ttl = 0 THEN PreAuthCodeTTL ELSE cfg.ttl) \in Nat
  BY <1>1, IssuerAssumption DEF OfferConfig, TypeOK
<1>3. cfg.subject \in Subjects
  BY <1>1 DEF OfferConfig, NewOffer, ValidConfig, Optional
<1>4. [offer |-> o, used |-> FALSE] \in OfferEntry
  BY <1>1, <1>2, <1>3 DEF OfferEntry, Offer, OfferConfig
<1>5. IsMap(offers', Codes, OfferEntry) /\ DOMAIN offers \subseteq DOMAIN offers'
  <2>1. offers' = Put(offers, code, [offer |-> o, used |-> FALSE])
    BY DEF NewOffer, SaveOffer
  <2>2. IsMap(offers, Codes, OfferEntry)
    BY DEF TypeOK
  <2> HIDE DEF o
  <2>3. DOMAIN offers' = DOMAIN offers \cup {code}
    BY <1>4, <2>1, <2>2, PutType
  <2>4. IsMap(offers', Codes, OfferEntry)
    BY <1>4, <2>1, <2>2, PutType
  <2> QED
    BY <2>3, <2>4
<1>6. \A h \in Handlers : PlaceOK(h)'
  BY <1>5 DEF TypeOK, NewOffer, PlaceOK, Issued, ProofOf
<1> QED
  BY <1>5, <1>6 DEF TypeOK, NewOffer

-----------------------------------------------------------------------------
(* Every step of handler h leaves the clock, the requests and the other    *)
(* handlers alone and forgets no offer and no record.  What is left to     *)
(* show for an action is that what it assigns is typed.                    *)
LEMMA StepType ==
  ASSUME TypeOK, NEW h \in Handlers, NEW p \in PCs, Goto(h, p),
         UNCHANGED <<now, req>>,
         IsMap(offers', Codes, OfferEntry), DOMAIN offers \subseteq DOMAIN offers',
         IsMap(records', Tokens, AccessTokenRecord),
         DOMAIN records \subseteq DOMAIN records',
         tokenMu' \in Optional(Handlers),
         local' \in [Handlers -> Locals],
         \A g \in Handlers \ {h} : local'[g] = local[g],
         reply' \in [Handlers -> Optional(Reply)],
         handed' \in [Tokens -> SUBSET Optional(Nonces)],
         stale' \in [Handlers -> SUBSET Optional(Nonces)],
         PlaceOK(h)'
  PROVE  TypeOK'
<1>1. pc' \in [Handlers -> PCs]
  BY DEF TypeOK, Goto
<1>2. ASSUME NEW g \in Handlers \ {h} PROVE PlaceOK(g)'
  <2>1. pc'[g] = pc[g] /\ req'[g] = req[g] /\ local'[g] = local[g]
    BY DEF TypeOK, Goto
  <2>2. PlaceOK(g)
    BY DEF TypeOK
  <2> QED
    BY <2>1, <2>2 DEF PlaceOK, Issued, ProofOf
<1> QED
  BY <1>1, <1>2 DEF TypeOK

(* An answer ends a handler; nothing is asked of one that is done. *)
LEMMA AnswerType ==
  ASSUME TypeOK, NEW h \in Handlers, NEW r \in Reply, Answer(h, r),
         UNCHANGED <<now, req>>,
         IsMap(offers', Codes, OfferEntry), DOMAIN offers \subseteq DOMAIN offers',
         IsMap(records', Tokens, AccessTokenRecord),
         DOMAIN records \subseteq DOMAIN records',
         tokenMu' \in Optional(Handlers),
         local' \in [Handlers -> Locals],
         \A g \in Handlers \ {h} : local'[g] = local[g],
         handed' \in [Tokens -> SUBSET Optional(Nonces)],
         stale' \in [Handlers -> SUBSET Optional(Nonces)],
         Issued(h)' => Issued(h)
  PROVE  TypeOK'
<1>1. Goto(h, "done") /\ "done" \in PCs
  BY DEF Answer, PCs
<1>2. reply' \in [Handlers -> Optional(Reply)]
  BY DEF Answer, TypeOK, Optional
<1>3. PlaceOK(h)'
  <2>1. pc'[h] = "done"
    BY <1>1 DEF Goto, TypeOK
  <2>2. Issued(h)' => req'[h] \in CredentialRequests
    BY DEF TypeOK, PlaceOK
  <2> QED
    BY <2>1, <2>2 DEF PlaceOK
<1> QED
  BY <1>1, <1>2, <1>3, StepType

(* An error answer is a reply.                                             *)
LEMMA FailReply ==
  ASSUME NEW h \in Handlers, NEW code \in ErrorCodes, Fail(h, code)
  PROVE  \E r \in Reply : Answer(h, r)
  BY DEF Fail, Reply, Optional

(* A handler assigns to its locals: the others keep theirs.                *)
LEMMA LocalType ==
  ASSUME TypeOK, NEW h \in Handlers, NEW new \in Locals,
         local' = [local EXCEPT ![h] = new]
  PROVE  /\ local' \in [Handlers -> Locals]
         /\ \A g \in Handlers \ {h} : local'[g] = local[g]
         /\ local'[h] = new
  BY DEF TypeOK

(* An error answer that changes nothing else. *)
LEMMA FailType ==
  ASSUME TypeOK, NEW h \in Handlers, NEW code \in ErrorCodes, Fail(h, code),
         UNCHANGED <<offers, records, tokenMu, now, req, local, handed, stale>>
  PROVE  TypeOK'
<1>1. PICK r \in Reply : Answer(h, r)
  BY FailReply
<1> QED
  BY <1>1, AnswerType DEF Issued, TypeOK

(* Consume keeps the set of offers and their types.                        *)
LEMMA ConsumeType ==
  ASSUME TypeOK, NEW code, Consume(code, now)
  PROVE  /\ IsMap(offers', Codes, OfferEntry)
         /\ DOMAIN offers' = DOMAIN offers
         /\ code \in DOMAIN offers
         /\ ~offers[code].used /\ offers'[code].used
         /\ \A c \in DOMAIN offers : offers'[c].offer = offers[c].offer
         /\ \A c \in DOMAIN offers \ {code} : offers'[c] = offers[c]
  BY DEF Consume, ConsumeResult, TypeOK, IsMap, OfferEntry

-----------------------------------------------------------------------------
(* The token endpoint. *)

(* The store fails before or after consuming the offer.                    *)
LEMMA ConsumeFailsType ==
  ASSUME TypeOK, NEW h \in Handlers, ConsumeFails(h)
  PROVE  TypeOK'
<1>1. PICK r \in Reply : Answer(h, r)
  BY FailReply DEF ConsumeFails, ErrorCodes
<1>2. IsMap(offers', Codes, OfferEntry) /\ DOMAIN offers' = DOMAIN offers
  <2>1. CASE UNCHANGED offers
    BY <2>1 DEF TypeOK
  <2>2. CASE Consume(req[h].code, now)
    BY <2>2, ConsumeType
  <2> QED
    BY <2>1, <2>2 DEF ConsumeFails
<1> QED
  BY <1>1, <1>2, AnswerType DEF Issued, TypeOK, ConsumeFails

(* handleToken past Consume: on to the grant, or refused for the PIN.      *)
LEMMA ConsumeOfferType ==
  ASSUME TypeOK, NEW h \in Handlers, ConsumeOffer(h)
  PROVE  TypeOK'
<1> DEFINE code == req[h].code
<1>1. /\ IsMap(offers', Codes, OfferEntry) /\ DOMAIN offers' = DOMAIN offers
      /\ code \in DOMAIN offers
  BY ConsumeType DEF ConsumeOffer
<1>2. code \in Codes
  BY <1>1 DEF TypeOK, IsMap
<1>3. /\ local' \in [Handlers -> Locals]
      /\ \A g \in Handlers \ {h} : local'[g] = local[g]
      /\ local'[h].offer = code
      /\ local'[h].credential = local[h].credential
  <2>1. local' = [local EXCEPT ![h].offer = code]
    BY DEF ConsumeOffer
  <2>2. local \in [Handlers -> Locals]
    BY DEF TypeOK
  <2> HIDE DEF code
  <2> QED
    BY <1>2, <2>1, <2>2 DEF Locals, Optional
<1>4. CASE Goto(h, "grant") /\ UNCHANGED reply
  <2>1. PlaceOK(h)'
    BY <1>1, <1>3, <1>4 DEF PlaceOK, Issued, TypeOK, Goto, ConsumeOffer
  <2> QED
    BY <1>1, <1>3, <1>4, <2>1, StepType DEF TypeOK, ConsumeOffer, PCs
<1>5. CASE Fail(h, "invalid_grant")
  <2>1. PICK r \in Reply : Answer(h, r)
    BY <1>5, FailReply DEF ErrorCodes
  <2> QED
    BY <1>1, <1>3, <2>1, AnswerType DEF Issued, TypeOK, ConsumeOffer
<1> QED
  BY <1>4, <1>5 DEF ConsumeOffer

(* The record handleToken builds from a stored offer is typed.             *)
LEMMA TokenRecordType ==
  ASSUME TypeOK, NEW code \in DOMAIN offers, NEW nonce \in Nonces
  PROVE  TokenRecord(code, nonce) \in AccessTokenRecord
<1>1. /\ code \in Codes
      /\ offers[code].offer \in Offer
  BY DEF TypeOK, IsMap, OfferEntry
<1>2. now + CNonceTTL \in Nat /\ now + AccessTokenTTL \in Nat
  BY IssuerAssumption DEF TypeOK
<1> QED
  BY <1>1, <1>2 DEF TokenRecord, AccessTokenRecord, Offer, Optional

(* Saving the record and answering with the token and nonce.               *)
LEMMA GrantTokenType ==
  ASSUME TypeOK, NEW h \in Handlers, GrantToken(h)
  PROVE  TypeOK'
<1>1. PICK token \in FreshTokens, nonce \in FreshNonces :
        /\ pc[h] = "grant"
        /\ SaveToken(token, TokenRecord(local[h].offer, nonce))
        /\ local' = [local EXCEPT ![h].token = token, ![h].nonce = nonce]
        /\ handed' = [handed EXCEPT ![token] = @ \cup {nonce}]
        /\ Answer(h, [error |-> Empty, token |-> token, cNonce |-> nonce,
                      credential |-> Empty])
        /\ UNCHANGED <<offers, now, req, stale>>
  BY DEF GrantToken
<1>2. token \in Tokens /\ nonce \in Nonces
  BY DEF FreshTokens, FreshNonces
<1>3. IsMap(records', Tokens, AccessTokenRecord) /\ DOMAIN records \subseteq DOMAIN records'
  <2> DEFINE record == TokenRecord(local[h].offer, nonce)
  <2>1. local[h].offer \in DOMAIN offers
    BY <1>1 DEF TypeOK, PlaceOK, Issued
  <2>2. record \in AccessTokenRecord
    BY <1>2, <2>1, TokenRecordType
  <2>3. IsMap(records, Tokens, AccessTokenRecord)
    BY DEF TypeOK
  <2>4. records' = Put(records, token, record)
    BY <1>1 DEF SaveToken
  <2> HIDE DEF record
  <2>5. DOMAIN records' = DOMAIN records \cup {token}
    BY <1>2, <2>2, <2>3, <2>4, PutType
  <2>6. IsMap(records', Tokens, AccessTokenRecord)
    BY <1>2, <2>2, <2>3, <2>4, PutType
  <2> QED
    BY <2>5, <2>6
<1>4. /\ local' \in [Handlers -> Locals]
      /\ \A g \in Handlers \ {h} : local'[g] = local[g]
      /\ local'[h].credential = local[h].credential
  <2> DEFINE new == [local[h] EXCEPT !.token = token, !.nonce = nonce]
  <2>1. new \in Locals /\ new.credential = local[h].credential
    <3>1. local[h] \in Locals
      BY DEF TypeOK
    <3> QED
      BY <1>2, <3>1 DEF Locals, Optional
  <2>2. local' = [local EXCEPT ![h] = new]
    BY <1>1
  <2> HIDE DEF new
  <2> QED
    BY <2>1, <2>2, LocalType
<1>5. handed' \in [Tokens -> SUBSET Optional(Nonces)]
  BY <1>1, <1>2 DEF TypeOK, Optional
<1>6. [error |-> Empty, token |-> token, cNonce |-> nonce, credential |-> Empty] \in Reply
  BY <1>2 DEF Reply, Optional
<1>7. tokenMu' \in Optional(Handlers)
  BY <1>1 DEF SaveToken, TypeOK
<1> QED
  BY <1>1, <1>3, <1>4, <1>5, <1>6, <1>7, AnswerType DEF Issued, TypeOK

(* Every step of handleToken preserves the types.                          *)
LEMMA HandleTokenType ==
  ASSUME TypeOK, NEW h \in Handlers, HandleToken(h)
  PROVE  TypeOK'
<1>1. CASE RejectTokenRequest(h)
  BY <1>1, FailType DEF RejectTokenRequest, ErrorCodes
<1>2. CASE RefuseCode(h)
  BY <1>2, FailType DEF RefuseCode, ErrorCodes
<1>3. CASE ConsumeFails(h)
  BY <1>3, ConsumeFailsType
<1>4. CASE ConsumeOffer(h)
  BY <1>4, ConsumeOfferType
<1>5. CASE GrantToken(h)
  BY <1>5, GrantTokenType
<1>6. CASE GrantFails(h)
  BY <1>6, FailType DEF GrantFails, ErrorCodes
<1> QED
  BY <1>1, <1>2, <1>3, <1>4, <1>5, <1>6 DEF HandleToken

-----------------------------------------------------------------------------
(* The credential endpoint. *)

(* The proof a request carries, in either form, has a type and maybe a JWT *)
(* (handleCredential, issuer.go:311-314).                                  *)
LEMMA ProofOfType ==
  ASSUME NEW r \in CredentialRequests, ProofOf(r) # Empty
  PROVE  ProofOf(r) \in [type: ProofTypes, jwt: Optional(JWT)]
<1>1. r \in CredentialRequest
  BY IssuerAssumption
<1>2. CASE r.proof # Empty
  BY <1>1, <1>2 DEF ProofOf, CredentialRequest, Optional
<1>3. CASE r.proof = Empty
  <2>1. r.proofs # Empty /\ r.proofs # <<>>
    BY <1>3 DEF ProofOf
  <2>2. r.proofs \in Seq(Optional(JWT))
    BY <1>1, <2>1 DEF CredentialRequest, Optional
  <2> DEFINE first == Head(r.proofs)
  <2>3. first \in Optional(JWT)
    BY <2>1, <2>2, HeadTailProperties
  <2>4. ProofOf(r) = [type |-> "jwt", jwt |-> first]
    BY <1>3, <2>1 DEF ProofOf
  <2> HIDE DEF first
  <2>5. [type |-> "jwt", jwt |-> first] \in [type: ProofTypes, jwt: Optional(JWT)]
    BY <2>3 DEF ProofTypes
  <2> QED
    BY <2>4, <2>5
<1> QED
  BY <1>2, <1>3

(* The nonce of a request's proof is a nonce or absent.                    *)
LEMMA ProofNonceType ==
  ASSUME NEW r \in CredentialRequests
  PROVE  ProofNonce(r) \in Optional(Nonces)
<1>1. CASE ProofOf(r) = Empty \/ ProofOf(r).jwt = Empty
  BY <1>1 DEF ProofNonce, Optional
<1>2. CASE ProofOf(r) # Empty /\ ProofOf(r).jwt # Empty
  <2>1. ProofOf(r).jwt \in JWT
    BY <1>2, ProofOfType DEF Optional
  <2> QED
    BY <1>2, <2>1 DEF ProofNonce, JWT
<1> QED
  BY <1>1, <1>2

(* What ResolveConfigID answers is a configuration the record entitles to  *)
(* and the request asks for.                                               *)
LEMMA ResolveResult ==
  ASSUME NEW r, NEW record, NEW k \in ResolveConfigID(r, record), k # Empty
  PROVE  k \in record.configs /\ k \in DOMAIN Supported /\ k \in Candidates(r)
  BY DEF ResolveConfigID, Candidates

(* The nonces in Spent(t) come from the proofs of credential requests.     *)
LEMMA SpentType ==
  ASSUME TypeOK, NEW t
  PROVE  Spent(t) \subseteq Optional(Nonces)
  BY ProofNonceType DEF Spent, TypeOK, PlaceOK, Issued

(* What the handler gets of generateToken when it drops its error.         *)
LEMMA NonceOrEmptyType == NonceOrEmpty \subseteq Optional(Nonces)
  BY DEF NonceOrEmpty, FreshNonces, Optional

(* The record is found: on to the proof, the factory or a refusal.         *)
LEMMA LookupTokenType ==
  ASSUME TypeOK, NEW h \in Handlers, LookupToken(h)
  PROVE  TypeOK'
<1> DEFINE t == req[h].token
<1>1. PICK k \in ResolveConfigID(req[h], records[t]) \ {Empty} :
        local' = [local EXCEPT ![h].config = k, ![h].foundNonce = records[t].cNonce]
  BY DEF LookupToken
<1>2. t \in DOMAIN records /\ t \in Tokens
  BY DEF LookupToken, Found, CanGet, TypeOK, IsMap
<1>3. k \in ConfigIds /\ k # Empty
  <2>1. k \in records[t].configs
    BY <1>1, ResolveResult
  <2>2. records[t].configs \subseteq ConfigIds
    BY <1>2 DEF TypeOK, IsMap, AccessTokenRecord
  <2> QED
    BY <1>1, <2>1, <2>2
<1>4. /\ local' \in [Handlers -> Locals]
      /\ \A g \in Handlers \ {h} : local'[g] = local[g]
      /\ local'[h].config # Empty /\ local'[h].credential = local[h].credential
  <2> DEFINE new == [local[h] EXCEPT !.config = k, !.foundNonce = records[t].cNonce]
  <2>1. new \in Locals /\ new.config = k /\ new.credential = local[h].credential
    <3>1. local[h] \in Locals
      BY DEF TypeOK
    <3>2. k \in Optional(ConfigIds) /\ records[t].cNonce \in Optional(Nonces)
      BY <1>2, <1>3 DEF Optional, TypeOK, IsMap, AccessTokenRecord
    <3> QED
      BY <3>1, <3>2 DEF Locals
  <2>2. local' = [local EXCEPT ![h] = new]
    BY <1>1
  <2> HIDE DEF new
  <2> QED
    BY <1>3, <2>1, <2>2, LocalType
<1>5. stale' \in [Handlers -> SUBSET Optional(Nonces)]
  <2>1. handed[t] \subseteq Optional(Nonces) /\ Spent(t) \subseteq Optional(Nonces)
    BY <1>2, SpentType DEF TypeOK
  <2> QED
    BY <2>1 DEF LookupToken, TypeOK
<1>6. pc[h] = "lookup" /\ req[h] \in CredentialRequests /\ ~Issued(h)
  BY DEF LookupToken, TypeOK, PlaceOK
<1>7. CASE ProofOf(req[h]) # Empty /\ Goto(h, "expiry") /\ UNCHANGED reply
  <2>1. pc'[h] = "expiry"
    BY <1>7 DEF Goto, TypeOK
  <2>2. req' = req /\ records' = records
    BY DEF LookupToken
  <2>3. PlaceOK(h)'
    BY <1>2, <1>4, <1>6, <1>7, <2>1, <2>2 DEF PlaceOK, Issued, ProofOf
  <2> QED
    BY <1>4, <1>5, <1>7, <2>3, StepType DEF TypeOK, LookupToken, PCs
<1>8. CASE Goto(h, "issue") /\ UNCHANGED reply
  <2>1. pc'[h] = "issue"
    BY <1>8 DEF Goto, TypeOK
  <2>2. req' = req /\ records' = records
    BY DEF LookupToken
  <2>3. PlaceOK(h)'
    BY <1>2, <1>4, <1>6, <1>8, <2>1, <2>2 DEF PlaceOK, Issued
  <2> QED
    BY <1>4, <1>5, <1>8, <2>3, StepType DEF TypeOK, LookupToken, PCs
<1>9. CASE Fail(h, "invalid_proof")
  <2>1. PICK r \in Reply : Answer(h, r)
    BY <1>9, FailReply DEF ErrorCodes
  <2> QED
    BY <1>4, <1>5, <2>1, AnswerType DEF Issued, TypeOK, LookupToken
<1> QED
  BY <1>7, <1>8, <1>9 DEF LookupToken

(* The invalid_proof answer, with its fresh nonce.                         *)
LEMMA RejectProofType ==
  ASSUME TypeOK, NEW h \in Handlers, RejectProof(h)
  PROVE  TypeOK'
<1>1. PICK nonce \in NonceOrEmpty :
        /\ local' = [local EXCEPT ![h].nonce = nonce]
        /\ Answer(h, [error |-> "invalid_proof", token |-> Empty,
                      cNonce |-> nonce, credential |-> Empty])
  BY DEF RejectProof
<1>2. nonce \in Optional(Nonces)
  BY NonceOrEmptyType
<1>3. /\ local' \in [Handlers -> Locals]
      /\ \A g \in Handlers \ {h} : local'[g] = local[g]
      /\ local'[h].credential = local[h].credential
  <2> DEFINE new == [local[h] EXCEPT !.nonce = nonce]
  <2>1. new \in Locals /\ new.credential = local[h].credential
    <3>1. local[h] \in Locals
      BY DEF TypeOK
    <3> QED
      BY <1>2, <3>1 DEF Locals
  <2>2. local' = [local EXCEPT ![h] = new]
    BY <1>1
  <2> HIDE DEF new
  <2> QED
    BY <2>1, <2>2, LocalType
<1>4. [error |-> "invalid_proof", token |-> Empty, cNonce |-> nonce,
       credential |-> Empty] \in Reply
  BY <1>2 DEF Reply, Optional, ErrorCodes
<1>5. /\ IsMap(offers', Codes, OfferEntry) /\ offers' = offers
      /\ IsMap(records', Tokens, AccessTokenRecord) /\ records' = records
      /\ tokenMu' \in Optional(Handlers)
      /\ handed' \in [Tokens -> SUBSET Optional(Nonces)]
      /\ stale' \in [Handlers -> SUBSET Optional(Nonces)]
      /\ UNCHANGED <<now, req>>
  BY DEF TypeOK, RejectProof, IsMap
<1>6. Issued(h)' => Issued(h)
  BY <1>3 DEF Issued
<1> QED
  BY <1>1, <1>3, <1>4, <1>5, <1>6, AnswerType

(* validateProof up to its expiry check.                                   *)
LEMMA CheckNonceExpiryType ==
  ASSUME TypeOK, NEW h \in Handlers, CheckNonceExpiry(h)
  PROVE  TypeOK'
<1>1. CASE NonceExpiryPasses(h) /\ Goto(h, "nonce")
           /\ UNCHANGED <<offers, records, tokenMu, now, req, local, reply, handed, stale>>
  <2>1. pc[h] = "expiry" /\ pc'[h] = "nonce"
    BY <1>1 DEF CheckNonceExpiry, Goto, TypeOK
  <2>2. PlaceOK(h)'
    BY <1>1, <2>1 DEF PlaceOK, TypeOK, NonceExpiryPasses, Issued, ProofOf
  <2> QED
    BY <1>1, <2>2, StepType DEF TypeOK, PCs
<1>2. CASE RejectProof(h)
  BY <1>2, RejectProofType
<1> QED
  BY <1>1, <1>2 DEF CheckNonceExpiry

(* validateProof from the nonce to the signature; the key is a JWK's.      *)
LEMMA CheckProofType ==
  ASSUME TypeOK, NEW h \in Handlers, CheckProof(h)
  PROVE  TypeOK'
<1> DEFINE key == PublicKeyToGoKey(ProofOf(req[h]).jwt.jwk)
<1>1. CASE /\ ProofPasses(h) /\ Goto(h, "issue")
           /\ local' = [local EXCEPT ![h].key = key]
           /\ UNCHANGED <<offers, records, tokenMu, now, req, reply, handed, stale>>
  <2>1. /\ pc[h] = "nonce" /\ req[h] \in CredentialRequests
        /\ ProofOf(req[h]) # Empty /\ ProofOf(req[h]).jwt # Empty
        /\ req[h].token \in DOMAIN records /\ ~Issued(h)
    BY DEF CheckProof, TypeOK, PlaceOK
  <2>2. key \in Optional(Keys)
    BY DEF PublicKeyToGoKey, Optional
  <2> HIDE DEF key
  <2>3. /\ local' \in [Handlers -> Locals]
        /\ \A g \in Handlers \ {h} : local'[g] = local[g]
        /\ local'[h].credential = local[h].credential
        /\ local'[h].config = local[h].config
    BY <1>1, <2>2 DEF TypeOK, Locals
  <2>4. pc'[h] = "issue"
    BY <1>1 DEF Goto, TypeOK
  <2>5. local[h].config # Empty
    BY <2>1 DEF TypeOK, PlaceOK
  <2>6. PlaceOK(h)'
    BY <1>1, <2>1, <2>3, <2>4, <2>5 DEF PlaceOK, Issued
  <2> QED
    BY <1>1, <2>3, <2>6, StepType DEF TypeOK, PCs
<1>2. CASE RejectProof(h)
  BY <1>2, RejectProofType
<1> QED
  BY <1>1, <1>2 DEF CheckProof

(* What the factory is called with is a typed credential.                  *)
LEMMA IssueCredentialType ==
  ASSUME TypeOK, NEW h \in Handlers, IssueCredential(h)
  PROVE  TypeOK'
<1> DEFINE cred == [config |-> local[h].config,
                    subject |-> records[req[h].token].subject,
                    key |-> local[h].key]
           until == now + CNonceTTL
<1>1. PICK nonce \in NonceOrEmpty :
        local' = [local EXCEPT ![h].credential = cred, ![h].nonce = nonce,
                               ![h].nonceExpiresAt = until]
  BY DEF IssueCredential
<1>2. /\ pc[h] = "issue" /\ req[h] \in CredentialRequests
      /\ req[h].token \in DOMAIN records /\ local[h].config # Empty
  BY DEF IssueCredential, TypeOK, PlaceOK
<1>3. records[req[h].token].subject \in Subjects
  BY <1>2 DEF TypeOK, IsMap, AccessTokenRecord
<1>4. cred \in Credential
  <2>1. local[h].config \in ConfigIds /\ local[h].key \in Optional(Keys)
    BY <1>2 DEF TypeOK, Locals, Optional
  <2> QED
    BY <1>3, <2>1 DEF Credential
<1>5. nonce \in Optional(Nonces) /\ until \in Nat
  BY NonceOrEmptyType, IssuerAssumption DEF TypeOK
<1> HIDE DEF cred, until
<1>6. /\ local' \in [Handlers -> Locals]
      /\ \A g \in Handlers \ {h} : local'[g] = local[g]
      /\ local'[h].config = local[h].config /\ local'[h].credential = cred
  <2> DEFINE new == [local[h] EXCEPT !.credential = cred, !.nonce = nonce,
                                     !.nonceExpiresAt = until]
  <2>1. cred \in Optional(Credential)
    BY <1>4 DEF Optional
  <2>2. new \in Locals /\ new.config = local[h].config /\ new.credential = cred
    <3>1. local[h] \in Locals
      BY DEF TypeOK
    <3> QED
      BY <1>5, <2>1, <3>1 DEF Locals
  <2>3. local' = [local EXCEPT ![h] = new]
    BY <1>1
  <2> HIDE DEF new
  <2> QED
    BY <2>2, <2>3, LocalType
<1>7. pc'[h] = "rotate"
  BY DEF IssueCredential, Goto, TypeOK
<1>8. PlaceOK(h)'
  <2>1. Issued(h)'
    BY <1>4, <1>6, EmptyAssumption DEF Issued
  <2> QED
    BY <1>2, <1>6, <1>7, <2>1 DEF IssueCredential, PlaceOK
<1>9. /\ Goto(h, "rotate") /\ "rotate" \in PCs
      /\ UNCHANGED <<offers, records, tokenMu, now, req, reply, handed, stale>>
  BY DEF IssueCredential, PCs
<1> QED
  BY <1>6, <1>8, <1>9, StepType DEF TypeOK

(* A credential answer is a reply.                                         *)
LEMMA CredentialReply ==
  ASSUME TypeOK, NEW h \in Handlers, AnswerCredential(h)
  PROVE  \E r \in Reply : Answer(h, r)
<1>1. local[h].nonce \in Optional(Nonces) /\ local[h].credential \in Optional(Credential)
  BY DEF TypeOK, Locals
<1> QED
  BY <1>1 DEF AnswerCredential, Reply, Optional

(* RotateCNonce changes two fields of one record, to values of their types. *)
LEMMA RotateType ==
  ASSUME TypeOK, NEW t \in DOMAIN records, UNCHANGED offers,
         NEW nonce \in Optional(Nonces), NEW until \in Nat,
         \/ records' = [records EXCEPT ![t].cNonce = nonce]
         \/ records' = [records EXCEPT ![t].cNonceExpiresAt = until]
         \/ records' = [records EXCEPT ![t].cNonce = nonce,
                                       ![t].cNonceExpiresAt = until]
  PROVE  /\ IsMap(records', Tokens, AccessTokenRecord)
         /\ DOMAIN records' = DOMAIN records
         /\ RightsKept
<1>1. PICK record :
        /\ record \in { [records[t] EXCEPT !.cNonce = nonce],
                        [records[t] EXCEPT !.cNonceExpiresAt = until],
                        [records[t] EXCEPT !.cNonce = nonce, !.cNonceExpiresAt = until] }
        /\ records' = [records EXCEPT ![t] = record]
  OBVIOUS
<1>2. IsMap(records, Tokens, AccessTokenRecord)
  BY DEF TypeOK
<1>3. records[t] \in AccessTokenRecord
  BY <1>2 DEF IsMap
<1>4. /\ record \in AccessTokenRecord
      /\ record.offer = records[t].offer /\ record.subject = records[t].subject
      /\ record.configs = records[t].configs /\ record.expiresAt = records[t].expiresAt
  BY <1>1, <1>3 DEF AccessTokenRecord
<1>5. DOMAIN records' = DOMAIN records
  BY <1>1
<1>6. IsMap(records', Tokens, AccessTokenRecord)
  BY <1>1, <1>2, <1>4 DEF IsMap
<1>7. \A u \in DOMAIN records :
        /\ records'[u].offer = records[u].offer
        /\ records'[u].subject = records[u].subject
        /\ records'[u].configs = records[u].configs
        /\ records'[u].expiresAt = records[u].expiresAt
  BY <1>1, <1>4
<1> QED
  BY <1>5, <1>6, <1>7 DEF RightsKept

(* RotateCNonce, the first field.                                          *)
LEMMA BeginRotateType ==
  ASSUME TypeOK, NEW h \in Handlers, BeginRotate(h)
  PROVE  TypeOK'
<1> DEFINE t == req[h].token
<1>1. /\ pc[h] = "rotate" /\ Goto(h, "unlock")
      /\ BeginRotateCNonce(h, t, local[h].nonce, local[h].nonceExpiresAt)
      /\ handed' = [handed EXCEPT ![t] = @ \cup {local[h].nonce}]
      /\ UNCHANGED <<offers, now, req, local, reply, stale>>
  BY DEF BeginRotate
<1>2. t \in DOMAIN records /\ t \in Tokens
  BY <1>1 DEF BeginRotateCNonce, CanGet, TypeOK, IsMap
<1>3. local[h].nonce \in Optional(Nonces) /\ local[h].nonceExpiresAt \in Nat
  BY DEF TypeOK, Locals
<1>4. IsMap(records', Tokens, AccessTokenRecord) /\ DOMAIN records' = DOMAIN records
  BY <1>1, <1>2, <1>3, RotateType DEF BeginRotateCNonce
<1>5. handed' \in [Tokens -> SUBSET Optional(Nonces)]
  BY <1>1, <1>3 DEF TypeOK
<1>6. tokenMu' \in Optional(Handlers)
  BY <1>1 DEF BeginRotateCNonce, Optional
<1>7. pc'[h] = "unlock"
  BY <1>1 DEF Goto, TypeOK
<1>8. PlaceOK(h)'
  BY <1>1, <1>4, <1>7 DEF PlaceOK, TypeOK, Issued
<1> QED
  BY <1>1, <1>4, <1>5, <1>6, <1>8, StepType DEF TypeOK, PCs

(* RotateCNonce, both fields, and the answer.                              *)
LEMMA EndRotateType ==
  ASSUME TypeOK, NEW h \in Handlers, EndRotate(h)
  PROVE  TypeOK'
<1>1. PICK r \in Reply : Answer(h, r)
  BY CredentialReply DEF EndRotate
<1>2. req[h].token \in DOMAIN records
  BY DEF EndRotate, TypeOK, PlaceOK
<1>3. local[h].nonce \in Optional(Nonces) /\ local[h].nonceExpiresAt \in Nat
  BY DEF TypeOK, Locals
<1>4. IsMap(records', Tokens, AccessTokenRecord) /\ DOMAIN records' = DOMAIN records
  BY <1>2, <1>3, RotateType DEF EndRotate, EndRotateCNonce
<1>5. tokenMu' \in Optional(Handlers)
  BY DEF EndRotate, EndRotateCNonce, Optional
<1> QED
  BY <1>1, <1>4, <1>5, AnswerType DEF TypeOK, EndRotate, Issued

(* RotateCNonce fails and the handler answers all the same.                *)
LEMMA RotateFailsType ==
  ASSUME TypeOK, NEW h \in Handlers, RotateFails(h)
  PROVE  TypeOK'
<1>1. PICK r \in Reply : Answer(h, r)
  BY CredentialReply DEF RotateFails
<1> QED
  BY <1>1, AnswerType DEF TypeOK, RotateFails, Issued

(* Every step of handleCredential preserves the types.                     *)
LEMMA HandleCredentialType ==
  ASSUME TypeOK, NEW h \in Handlers, HandleCredential(h)
  PROVE  TypeOK'
<1>1. CASE RejectToken(h)
  BY <1>1, FailType DEF RejectToken, ErrorCodes
<1>2. CASE RejectBody(h)
  BY <1>2, FailType DEF RejectBody, ErrorCodes
<1>3. CASE RejectConfig(h)
  BY <1>3, FailType DEF RejectConfig, ErrorCodes
<1>4. CASE LookupToken(h)
  BY <1>4, LookupTokenType
<1>5. CASE CheckNonceExpiry(h)
  BY <1>5, CheckNonceExpiryType
<1>6. CASE CheckProof(h)
  BY <1>6, CheckProofType
<1>7. CASE IssueCredential(h)
  BY <1>7, IssueCredentialType
<1>8. CASE FactoryFails(h)
  BY <1>8, FailType DEF FactoryFails, ErrorCodes
<1>9. CASE BeginRotate(h)
  BY <1>9, BeginRotateType
<1>10. CASE EndRotate(h)
  BY <1>10, EndRotateType
<1>11. CASE RotateFails(h)
  BY <1>11, RotateFailsType
<1> QED
  BY <1>1, <1>2, <1>3, <1>4, <1>5, <1>6, <1>7, <1>8, <1>9, <1>10, <1>11
     DEF HandleCredential

(* Every step preserves the types and the places of the handlers. *)
LEMMA TypeStep == TypeOK /\ [Next]_vars => TypeOK'
<1> SUFFICES ASSUME TypeOK, [Next]_vars
             PROVE  TypeOK'
  OBVIOUS
<1>1. CASE Tick
  BY <1>1, TickType
<1>2. CASE \E cfg \in OfferConfigs, code \in Codes : NewOffer(cfg, code)
  BY <1>2, NewOfferType
<1>3. CASE \E h \in Handlers, r \in TokenRequests \cup CredentialRequests : Receive(h, r)
  BY <1>3, ReceiveType
<1>4. CASE \E h \in Handlers : HandleToken(h) \/ HandleCredential(h)
  BY <1>4, HandleTokenType, HandleCredentialType
<1>5. CASE UNCHANGED vars
  BY <1>5 DEF vars, TypeOK, PlaceOK, Issued, IsMap, ProofOf
<1> QED
  BY <1>1, <1>2, <1>3, <1>4, <1>5 DEF Next

(* In every behaviour the state is typed, a handler past extractToken      *)
(* serves a credential request whose record is still stored, and one past  *)
(* Consume holds a stored offer, for any number of handlers, requests and  *)
(* offers.                                                                 *)
THEOREM TypeCorrect == Spec => []TypeOK
<1>1. Init => TypeOK
  BY TypeInit
<1>2. TypeOK /\ [Next]_vars => TypeOK'
  BY TypeStep
<1> QED
  BY <1>1, <1>2, PTL DEF Spec
=============================================================================
