---------------------------- MODULE SystemProofs ----------------------------
(***************************************************************************)
(* Wallets change nothing of what the issuer promises: a step of System is *)
(* a step of Issuer, on a request the issuer is ready for, or leaves the   *)
(* issuer alone.  A wallet's request is built from a session, so this      *)
(* needs the types of sessions, which in turn come from the issuer's       *)
(* answers: the two are proved together.                                   *)
(***************************************************************************)
EXTENDS SystemProperties, InvariantProofs

(* At first no library call is under way.                                  *)
LEMMA SystemTypeInit == SystemInit => SystemTypeOK
<1> SUFFICES ASSUME SystemInit PROVE SystemTypeOK
  OBVIOUS
<1>1. TypeOK
  BY TypeInit DEF SystemInit
<1>2. calls \in [Handlers -> Optional(Call)] /\ sessions \subseteq Session
  BY DEF SystemInit, Optional
<1>3. \A h \in Handlers : Called(h) <=> pc[h] # "ready"
  BY DEF SystemInit, Init, Called
<1> QED
  BY <1>1, <1>2, <1>3 DEF SystemTypeOK

-----------------------------------------------------------------------------
(* A handler that steps has a request and goes on having one; the others   *)
(* stay where they are.                                                    *)
LEMMA TokenPlace ==
  ASSUME TypeOK, NEW h \in Handlers, HandleToken(h)
  PROVE  \A g \in Handlers : pc'[g] = "ready" <=> pc[g] = "ready"
  BY DEF TypeOK, HandleToken, RejectTokenRequest, RefuseCode, ConsumeFails,
         ConsumeOffer, GrantToken, GrantFails, Fail, Answer, Goto

(* Nor does the credential endpoint put a handler back to its start.       *)
LEMMA CredentialPlace ==
  ASSUME TypeOK, NEW h \in Handlers, HandleCredential(h)
  PROVE  \A g \in Handlers : pc'[g] = "ready" <=> pc[g] = "ready"
  BY DEF TypeOK, HandleCredential, RejectToken, RejectBody, RejectConfig,
         LookupToken, CheckNonceExpiry, CheckProof, RejectProof, IssueCredential,
         FactoryFails, BeginRotate, EndRotate, RotateFails, AnswerCredential,
         Fail, Answer, Goto

(* The issuer's own steps. *)
LEMMA IssuerStepType ==
  ASSUME SystemTypeOK, IssuerStep
  PROVE  Next /\ SystemTypeOK'
<1>1. Next
  BY DEF IssuerStep, Next
<1>2. TypeOK'
  BY <1>1, TypeStep DEF SystemTypeOK
<1>3. \A g \in Handlers : pc'[g] = "ready" <=> pc[g] = "ready"
  <2>1. CASE Tick
    BY <2>1 DEF Tick
  <2>2. CASE \E cfg \in OfferConfigs, code \in Codes : NewOffer(cfg, code)
    BY <2>2 DEF NewOffer
  <2>3. CASE \E h \in Handlers : HandleToken(h) \/ HandleCredential(h)
    BY <2>3, TokenPlace, CredentialPlace DEF SystemTypeOK
  <2> QED
    BY <2>1, <2>2, <2>3 DEF IssuerStep
<1> QED
  BY <1>1, <1>2, <1>3 DEF IssuerStep, SystemTypeOK, walletVars, Called

-----------------------------------------------------------------------------
(* A request that the library can build is one the issuer may be asked, so *)
(* sending it is the issuer's Receive.                                     *)
LEMMA SendType ==
  ASSUME SystemTypeOK, NEW h \in Handlers,
         NEW request \in TokenRequests \cup CredentialRequests,
         NEW session \in Session, NEW config \in Optional(ConfigIds),
         NEW signer \in Optional(Signer),
         Send(h, request, session, config, signer)
  PROVE  Next /\ SystemTypeOK'
<1>1. Next
  BY DEF Send, Next
<1>2. TypeOK'
  BY <1>1, TypeStep DEF SystemTypeOK
<1> DEFINE call == [session |-> session, config |-> config, signer |-> signer,
                    outcome |-> "waiting"]
<1>3. call \in Call
  BY DEF Call, Outcomes
<1>4. calls' = [calls EXCEPT ![h] = call] /\ sessions' = sessions
  BY DEF Send
<1>5. calls' \in [Handlers -> Optional(Call)]
  BY <1>3, <1>4 DEF SystemTypeOK, Optional
<1>6. call # Empty
  BY <1>3, CallerAssumption
<1>7. pc'[h] # "ready" /\ \A g \in Handlers \ {h} : pc'[g] = pc[g]
  BY DEF Send, Receive, Goto, SystemTypeOK, TypeOK
<1>8. \A g \in Handlers : Called(g)' <=> pc'[g] # "ready"
  BY <1>4, <1>6, <1>7 DEF SystemTypeOK, Called
<1> QED
  BY <1>1, <1>2, <1>4, <1>5, <1>8 DEF SystemTypeOK

(* RedeemOffer sends a request the issuer knows.                           *)
LEMMA RedeemOfferType ==
  ASSUME SystemTypeOK, NEW h \in Handlers, NEW s \in sessions, NEW pin \in CallerPins,
         RedeemOffer(h, s, pin)
  PROVE  Next /\ SystemTypeOK'
<1>1. s \in Session /\ s.code \in Codes
  BY DEF SystemTypeOK, Session
<1>2. TokenForm(s.code, pin) \in TokenRequests
  BY <1>1, RequestAssumption
<1> QED
  BY <1>1, <1>2, SendType DEF RedeemOffer, Optional

(* So does RequestCredential.                                              *)
LEMMA RequestCredentialType ==
  ASSUME SystemTypeOK, NEW h \in Handlers, NEW s \in sessions,
         NEW k \in CallerConfigs, NEW signer \in CallerSigners,
         RequestCredential(h, s, k, signer)
  PROVE  Next /\ SystemTypeOK'
<1>1. s \in Session
  BY DEF SystemTypeOK
<1>2. PICK config \in Requested(s, k) :
        /\ signer # Empty => CanBuildProof(s.cNonce, signer)
        /\ Send(h, CredentialBody(s.token, s.cNonce, config, signer), s, config, signer)
  BY DEF RequestCredential
<1>3. config \in ConfigIds
  BY <1>1, CallerAssumption DEF Requested, Session, Optional
<1>4. s.token \in Optional(Tokens) /\ s.cNonce \in Optional(Nonces)
  BY <1>1 DEF Session
<1>5. CredentialBody(s.token, s.cNonce, config, signer) \in CredentialRequests
  BY <1>2, <1>3, <1>4, RequestAssumption
<1>6. config \in Optional(ConfigIds) /\ signer \in Optional(Signer)
  BY <1>3, CallerAssumption DEF Optional
<1> QED
  BY <1>1, <1>2, <1>5, <1>6, SendType

-----------------------------------------------------------------------------
(* An offer makes a typed session. *)
LEMMA ParseOfferType ==
  ASSUME SystemTypeOK, NEW code \in Codes, ParseOffer(code)
  PROVE  UNCHANGED vars /\ SystemTypeOK'
<1>1. offers[code].offer.configs \in SUBSET ConfigIds
  BY DEF ParseOffer, SystemTypeOK, TypeOK, IsMap, OfferEntry, Offer
<1>2. NewSession(CredentialOffer(code)) \in Session
  BY <1>1 DEF NewSession, CredentialOffer, Session, Optional
<1>3. UNCHANGED vars
  BY DEF ParseOffer
<1>4. TypeOK'
  BY <1>3, TypeStep DEF SystemTypeOK
<1> QED
  BY <1>2, <1>3, <1>4 DEF ParseOffer, SystemTypeOK, vars, Called

(* A lifetime in whole seconds falls short of the lifetime by less than a  *)
(* second, and is not zero when the lifetime is a second or more.          *)
LEMMA WholeSeconds ==
  ASSUME NEW at \in Nat, NEW ttl \in Nat
  PROVE  /\ ExpiresIn(ttl) \in Nat /\ Expiry(at, ExpiresIn(ttl)) \in Nat
         /\ Expiry(at, ExpiresIn(ttl)) + Second > at + ttl
         /\ ttl >= Second => ExpiresIn(ttl) > 0
<1> DEFINE e == ExpiresIn(ttl)
<1>1. Second \in Nat /\ Second > 0
  BY SecondAssumption
<1>2. e \in Nat
  BY <1>1 DEF ExpiresIn
<1>3. e * Second \in Nat
  BY <1>1, <1>2
<1>4. e * Second + Second > ttl
  BY <1>1, <1>2 DEF ExpiresIn
<1>5. ttl >= Second => e > 0
  BY <1>1, <1>2, <1>4
<1> QED
  BY <1>1, <1>2, <1>3, <1>4, <1>5 DEF Expiry

(* A typed answer makes a typed session of a typed session. *)
LEMMA ReturnedType ==
  ASSUME SystemTypeOK, NEW h \in Handlers, Waiting(h), reply[h] \in Reply
  PROVE  Returned(h) \in Session
<1>1. calls[h] \in Call /\ calls[h].session \in Session
  BY DEF SystemTypeOK, Waiting, Optional, Call
<1>2. /\ reply[h].token \in Optional(Tokens) /\ reply[h].cNonce \in Optional(Nonces)
      /\ now \in Nat /\ AccessTokenTTL \in Nat /\ CNonceTTL \in Nat
  BY IssuerAssumption DEF Reply, SystemTypeOK, TypeOK
<1> DEFINE expiresIn == ExpiresIn(AccessTokenTTL)
           cNonceExpiresIn == ExpiresIn(CNonceTTL)
<1>3. /\ Expiry(now, expiresIn) \in Nat /\ Expiry(now, cNonceExpiresIn) \in Nat
      /\ expiresIn \in Nat /\ cNonceExpiresIn \in Nat
  BY <1>2, WholeSeconds
<1> HIDE DEF expiresIn, cNonceExpiresIn
<1>4. ASSUME NEW s \in Session
      PROVE  WithNonce(s, reply[h].cNonce, cNonceExpiresIn, now) \in Session
  <2> DEFINE expiry == IF cNonceExpiresIn > 0 THEN Expiry(now, cNonceExpiresIn)
                       ELSE s.cNonceExpiry
  <2>1. expiry \in Nat
    BY <1>3 DEF Session
  <2>2. WithNonce(s, reply[h].cNonce, cNonceExpiresIn, now)
          = [s EXCEPT !.cNonce = reply[h].cNonce, !.cNonceExpiry = expiry]
    BY DEF WithNonce
  <2> HIDE DEF expiry
  <2> QED
    BY <1>2, <2>1, <2>2 DEF Session
<1>5. AfterRequest(calls[h].session, reply[h], cNonceExpiresIn, now) \in Session
  BY <1>1, <1>4 DEF AfterRequest
<1>6. AfterRedeem(calls[h].session, reply[h], expiresIn, cNonceExpiresIn, now) \in Session
  <2> DEFINE s == WithNonce(calls[h].session, reply[h].cNonce, cNonceExpiresIn, now)
  <2>1. s \in Session
    BY <1>1, <1>4
  <2>2. [s EXCEPT !.token = reply[h].token, !.tokenExpiry = Expiry(now, expiresIn)]
          \in Session
    <3> HIDE DEF s
    <3> QED
      BY <1>2, <1>3, <2>1 DEF Session
  <2> QED
    BY <2>2 DEF AfterRedeem
<1> QED
  BY <1>5, <1>6 DEF Returned, expiresIn, cNonceExpiresIn

(* A call that ends stays a call. *)
LEMMA OutcomeType ==
  ASSUME SystemTypeOK, NEW h \in Handlers, Waiting(h), NEW o \in Outcomes,
         calls' = [calls EXCEPT ![h].outcome = o]
  PROVE  /\ calls' \in [Handlers -> Optional(Call)]
         /\ \A g \in Handlers : Called(g)' <=> Called(g)
<1>1. calls[h] \in Call
  BY DEF SystemTypeOK, Waiting, Optional
<1>2. [calls[h] EXCEPT !.outcome = o] \in Call
  BY <1>1 DEF Call
<1>3. calls' = [calls EXCEPT ![h] = [calls[h] EXCEPT !.outcome = o]]
  BY DEF SystemTypeOK
<1> QED
  BY <1>1, <1>2, <1>3, CallerAssumption DEF SystemTypeOK, Optional, Called

(* The answer makes a session of the right type.                           *)
LEMMA ReturnType ==
  ASSUME SystemTypeOK, IssuerInv, NEW h \in Handlers, Return(h)
  PROVE  UNCHANGED vars /\ SystemTypeOK'
<1>1. UNCHANGED vars
  BY DEF Return
<1>2. TypeOK'
  BY <1>1, TypeStep DEF SystemTypeOK
<1>3. reply[h] \in Reply
  BY DEF Return, IssuerInv, TakerInv, TypeOK, Answered, Optional
<1>4. Returned(h) \in Session
  BY <1>3, ReturnedType DEF Return
<1>5. sessions' \subseteq Session
  BY <1>4 DEF Return, SystemTypeOK
<1>6. Waiting(h) /\ \E o \in Outcomes : calls' = [calls EXCEPT ![h].outcome = o]
  BY DEF Return, Outcomes
<1>7. /\ calls' \in [Handlers -> Optional(Call)]
      /\ \A g \in Handlers : Called(g)' <=> Called(g)
  BY <1>6, OutcomeType
<1> QED
  BY <1>1, <1>2, <1>5, <1>7 DEF SystemTypeOK, vars

(* Giving up changes no more than the outcome of the call.                 *)
LEMMA GiveUpType ==
  ASSUME SystemTypeOK, NEW h \in Handlers, GiveUp(h)
  PROVE  UNCHANGED vars /\ SystemTypeOK'
<1>1. UNCHANGED vars /\ UNCHANGED sessions
  BY DEF GiveUp
<1>2. TypeOK'
  BY <1>1, TypeStep DEF SystemTypeOK
<1>3. /\ calls' \in [Handlers -> Optional(Call)]
      /\ \A g \in Handlers : Called(g)' <=> Called(g)
  BY OutcomeType DEF GiveUp, Outcomes
<1> QED
  BY <1>1, <1>2, <1>3 DEF SystemTypeOK, vars

-----------------------------------------------------------------------------
(* A step of the system is a step of the issuer, or none of its own.       *)
LEMMA SystemStep ==
  SystemTypeOK /\ IssuerInv /\ [SystemNext]_systemVars => [Next]_vars /\ SystemTypeOK'
<1> SUFFICES ASSUME SystemTypeOK, IssuerInv, [SystemNext]_systemVars
             PROVE  [Next]_vars /\ SystemTypeOK'
  OBVIOUS
<1>1. CASE IssuerStep
  BY <1>1, IssuerStepType
<1>2. CASE \E code \in Codes : ParseOffer(code)
  BY <1>2, ParseOfferType
<1>3. CASE \E h \in Handlers, s \in sessions, pin \in CallerPins : RedeemOffer(h, s, pin)
  BY <1>3, RedeemOfferType
<1>4. CASE \E h \in Handlers, s \in sessions, k \in CallerConfigs, g \in CallerSigners :
             RequestCredential(h, s, k, g)
  BY <1>4, RequestCredentialType
<1>5. CASE \E h \in Handlers : Return(h) \/ GiveUp(h)
  BY <1>5, ReturnType, GiveUpType
<1>6. CASE UNCHANGED systemVars
  <2>1. UNCHANGED vars
    BY <1>6 DEF systemVars
  <2>2. TypeOK'
    BY <2>1, TypeStep DEF SystemTypeOK
  <2> QED
    BY <1>6, <2>1, <2>2 DEF SystemTypeOK, systemVars, walletVars, vars, Called
<1> QED
  BY <1>1, <1>2, <1>3, <1>4, <1>5, <1>6 DEF SystemNext

(* Whatever sessions the wallets use, in whatever order, and whichever     *)
(* answers they lose, sessions and calls stay typed and every call is one  *)
(* the issuer has received, for any number of calls, offers and signers.   *)
LEMMA SystemInvariant == SystemSpec => [](SystemTypeOK /\ IssuerInv)
<1>1. SystemInit => SystemTypeOK /\ IssuerInv
  BY SystemTypeInit, InvInit DEF SystemInit
<1>2. SystemTypeOK /\ IssuerInv /\ [SystemNext]_systemVars => SystemTypeOK' /\ IssuerInv'
  BY SystemStep, InvStep
<1> QED
  BY <1>1, <1>2, PTL DEF SystemSpec

(* Sessions, calls and the state of the issuer keep their types.           *)
THEOREM SystemTypeCorrect == SystemSpec => []SystemTypeOK
  BY SystemInvariant, PTL

(* With the wallets of the library as its clients the issuer behaves as    *)
(* Issuer says: everything proved of Spec holds of the whole system.       *)
THEOREM SystemRunsIssuer == SystemSpec => Spec
<1>1. SystemInit => Init
  BY DEF SystemInit
<1>2. SystemTypeOK /\ IssuerInv /\ [SystemNext]_systemVars => [Next]_vars
  BY SystemStep
<1> QED
  BY <1>1, <1>2, SystemInvariant, PTL DEF SystemSpec, Spec
=============================================================================
