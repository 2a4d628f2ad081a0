-------------------------- MODULE RefinementProofs --------------------------
(***************************************************************************)
(* The issuer implements PreAuthorizedIssuance, and wallets and issuer     *)
(* together implement CredentialAcquisition: the initial states map to     *)
(* initial states, and every step, in a state that satisfies the inductive *)
(* invariants, to a step of the promise or to none.  The lemmas go through *)
(* the actions by the abstract step they are: first the issuer's (a        *)
(* stutter, MakeOffer, Ask, Redeem, Forfeit or Issue), then the wallets'   *)
(* (ReadOffer, AskWithWhatIsHeld, BeTold, BeGiven or Lose).                *)
(***************************************************************************)
EXTENDS SystemRefinement, SessionProofs

(* Nothing has been offered, asked, sold or issued at the start. *)
LEMMA PromiseInit == Init => Promise!Init
<1> SUFFICES ASSUME Init PROVE Promise!Init
  OBVIOUS
<1>1. offers = [c \in {} |-> Empty] /\ records = [t \in {} |-> Empty]
  BY DEF Init, OfferStoreInit, TokenStoreInit
<1>2. \A h \in Handlers : req[h] = Empty /\ ~Issued(h)
  BY DEF Init, Issued, NoLocals
<1>3. Offered = [c \in {} |-> Empty] /\ Bought = [t \in {} |-> Empty] /\ SpentCodes = {}
  BY <1>1 DEF Offered, Bought, SpentCodes
<1>4. Redemptions = {} /\ Orders = {} /\ CredentialsIssued = {}
  BY <1>2, IssuerAssumption DEF Redemptions, Orders, CredentialsIssued
<1> QED
  BY <1>3, <1>4 DEF Promise!Init

-----------------------------------------------------------------------------
(* When each part of the abstract state stays as it is. *)

(* What is asked for is a matter of the requests alone.                    *)
LEMMA AskedKept ==
  ASSUME UNCHANGED req
  PROVE  UNCHANGED <<Redemptions, Orders>>
  BY DEF Redemptions, Orders, OrderOf, SigningKey, Candidates, ProofOf, WellFormed

(* The promise sees of an offer its terms and of a record its code.        *)
LEMMA TermsKept ==
  ASSUME DOMAIN offers' = DOMAIN offers,
         \A c \in DOMAIN offers : offers'[c].offer = offers[c].offer
  PROVE  UNCHANGED Offered
  BY DEF Offered

(* Nothing is bought when no record is added and none changes its offer.   *)
LEMMA BoughtKept ==
  ASSUME DOMAIN records' = DOMAIN records,
         \A t \in DOMAIN records : records'[t].offer = records[t].offer
  PROVE  UNCHANGED Bought
  BY DEF Bought

(* Nothing is issued when no handler's credential changes. *)
LEMMA IssuedKept ==
  ASSUME UNCHANGED req, \A g \in Handlers : local'[g].credential = local[g].credential
  PROVE  UNCHANGED CredentialsIssued
  BY DEF CredentialsIssued, Issued

(* A step that consumes no code and ends no grant spends none. *)
LEMMA SpentKept ==
  ASSUME DOMAIN offers' = DOMAIN offers,
         \A c \in DOMAIN offers : offers'[c].used = offers[c].used,
         \A g \in Handlers : /\ pc'[g] = "grant" <=> pc[g] = "grant"
                             /\ pc[g] = "grant" => local'[g].offer = local[g].offer
  PROVE  UNCHANGED SpentCodes
  BY DEF SpentCodes

(* Hence a step that touches neither offers nor rights nor credentials is  *)
(* a stutter.                                                              *)
LEMMA Stutter ==
  ASSUME UNCHANGED <<offers, req>>, DOMAIN records' = DOMAIN records,
         \A t \in DOMAIN records : records'[t].offer = records[t].offer,
         \A g \in Handlers : /\ local'[g].credential = local[g].credential
                             /\ pc'[g] = "grant" <=> pc[g] = "grant"
                             /\ pc[g] = "grant" => local'[g].offer = local[g].offer
  PROVE  UNCHANGED Promise!promised
<1>1. UNCHANGED <<Redemptions, Orders>>
  BY AskedKept
<1>2. UNCHANGED Offered
  BY TermsKept
<1>3. UNCHANGED Bought
  BY BoughtKept
<1>4. UNCHANGED CredentialsIssued
  BY IssuedKept
<1>5. UNCHANGED SpentCodes
  BY SpentKept
<1> QED
  BY <1>1, <1>2, <1>3, <1>4, <1>5 DEF Promise!promised

(* A handler that answers or moves on, other than from or to a grant,      *)
(* without touching a store or its credential.                             *)
LEMMA QuietStutter ==
  ASSUME TypeOK, NEW h \in Handlers, NEW p, Goto(h, p), p # "grant", pc[h] # "grant",
         UNCHANGED <<offers, records, req>>,
         \A g \in Handlers : local'[g].credential = local[g].credential,
         \A g \in Handlers \ {h} : local'[g] = local[g]
  PROVE  UNCHANGED Promise!promised
<1>1. pc'[h] = p /\ \A g \in Handlers \ {h} : pc'[g] = pc[g]
  BY DEF Goto, TypeOK
<1> QED
  BY <1>1, Stutter

-----------------------------------------------------------------------------
(* Offers and requests. *)

(* NewOffer makes an offer of the configuration's terms.                   *)
LEMMA NewOfferPromise ==
  ASSUME TypeOK, TypeOK', NEW cfg \in OfferConfigs, NEW code \in Codes, NewOffer(cfg, code)
  PROVE  Promise!MakeOffer(code)
<1>1. PICK o : offers' = Put(offers, code, [offer |-> o, used |-> FALSE])
  BY DEF NewOffer, SaveOffer
<1>2. /\ code \notin DOMAIN offers
      /\ UNCHANGED <<records, pc, req, local>>
  BY DEF NewOffer, SaveOffer
<1>3. /\ DOMAIN offers' = DOMAIN offers \cup {code}
      /\ \A c \in DOMAIN offers : offers'[c] = offers[c]
      /\ offers'[code].used = FALSE
  BY <1>1, <1>2 DEF Put
<1>4. /\ DOMAIN Offered = DOMAIN offers /\ DOMAIN Offered' = DOMAIN offers'
      /\ \A c \in DOMAIN Offered : Offered'[c] = Offered[c]
  BY <1>3 DEF Offered
<1>5. Offered'[code] \in Promise!Terms
  <2>1. offers'[code] \in OfferEntry
    BY <1>3 DEF TypeOK, IsMap
  <2> QED
    BY <1>3, <2>1 DEF Offered, Promise!Terms, Promise!Optional, Optional, OfferEntry, Offer
<1>6. UNCHANGED <<Redemptions, Orders>>
  BY <1>2, AskedKept
<1>7. UNCHANGED Bought
  BY <1>2, BoughtKept
<1>8. UNCHANGED CredentialsIssued
  BY <1>2, IssuedKept
<1>9. UNCHANGED SpentCodes
  BY <1>2, <1>3 DEF SpentCodes
<1> QED
  BY <1>2, <1>3, <1>4, <1>5, <1>6, <1>7, <1>8, <1>9 DEF Promise!MakeOffer

(* What clients can ask for is typed.                                      *)
LEMMA RedemptionType ==
  ASSUME NEW r \in TokenRequests, WellFormed(r)
  PROVE  [code |-> r.code, txCode |-> r.txCode] \in Promise!Redemption
<1>1. r \in TokenRequest
  BY IssuerAssumption
<1> QED
  BY <1>1 DEF TokenRequest, WellFormed, Promise!Redemption, Promise!Optional, Optional

(* A credential request of the issuer is an order of the promise.          *)
LEMMA OrderType ==
  ASSUME NEW r \in CredentialRequests
  PROVE  OrderOf(r) \in Promise!Order
<1>1. r \in CredentialRequest
  BY IssuerAssumption
<1>2. r.token \in Optional(Tokens)
  BY <1>1 DEF CredentialRequest
<1>3. Candidates(r) \subseteq ConfigIds
  <2>1. DOMAIN Supported \subseteq ConfigIds
    BY IssuerAssumption DEF IsMap
  <2>2. r.config \in Optional(ConfigIds)
    BY <1>1 DEF CredentialRequest
  <2> QED
    BY <2>1, <2>2 DEF Candidates, Optional
<1>4. SigningKey(r) \in Optional(Keys)
  <2>1. CASE ProofOf(r) = Empty \/ ProofOf(r).jwt = Empty
    BY <2>1 DEF SigningKey, Optional
  <2>2. CASE ProofOf(r) # Empty /\ ProofOf(r).jwt # Empty
    <3>1. ProofOf(r).jwt \in JWT
      BY <2>2, ProofOfType DEF Optional
    <3>2. ProofOf(r).jwt.signature.key \in Keys
      BY <3>1 DEF JWT
    <3> QED
      BY <2>2, <3>2 DEF SigningKey, Optional
  <2> QED
    BY <2>1, <2>2
<1> QED
  BY <1>2, <1>3, <1>4 DEF OrderOf, Promise!Order, Promise!Optional, Optional

(* A request that arrives is asked, and nothing else changes.              *)
LEMMA ReceivePromise ==
  ASSUME TypeOK, TypeOK', NEW h \in Handlers,
         NEW r \in TokenRequests \cup CredentialRequests, Receive(h, r)
  PROVE  Promise!Ask
<1>1. /\ pc[h] = "ready" /\ pc'[h] \in {"consume", "lookup"}
      /\ \A g \in Handlers \ {h} : pc'[g] = pc[g] /\ req'[g] = req[g]
      /\ UNCHANGED <<offers, records, local>>
  BY DEF Receive, Goto, TypeOK
<1>2. req[h] = Empty /\ ~Issued(h)
  BY <1>1 DEF TypeOK, PlaceOK
<1>3. req[h] \notin TokenRequests \cup CredentialRequests
  BY <1>2, IssuerAssumption
<1>4. Redemptions \subseteq Redemptions' /\ Orders \subseteq Orders'
  BY <1>1, <1>3 DEF Redemptions, Orders, OrderOf, SigningKey, Candidates, ProofOf,
                    WellFormed
<1>5. Redemptions' \in SUBSET Promise!Redemption
  <2>1. ASSUME NEW g \in Handlers, req'[g] \in TokenRequests, WellFormed(req'[g])
        PROVE  [code |-> req'[g].code, txCode |-> req'[g].txCode] \in Promise!Redemption
    BY <2>1, RedemptionType
  <2> QED
    BY <2>1 DEF Redemptions, WellFormed
<1>6. Orders' \in SUBSET Promise!Order
  <2>1. ASSUME NEW g \in Handlers, req'[g] \in CredentialRequests
        PROVE  OrderOf(req'[g]) \in Promise!Order
    BY <2>1, OrderType
  <2> QED
    BY <2>1 DEF Orders, OrderOf, SigningKey, Candidates, ProofOf
<1>7. UNCHANGED Offered
  BY <1>1, TermsKept
<1>8. UNCHANGED Bought
  BY <1>1, BoughtKept
<1>9. UNCHANGED SpentCodes
  BY <1>1 DEF SpentCodes
<1>10. UNCHANGED CredentialsIssued
  BY <1>1, <1>2 DEF CredentialsIssued, Issued
<1> QED
  BY <1>4, <1>5, <1>6, <1>7, <1>8, <1>9, <1>10 DEF Promise!Ask

-----------------------------------------------------------------------------
(* The token endpoint. *)

(* When handler h is done with its code, and nobody else has it, the code  *)
(* is spent.                                                               *)
LEMMA SpentGrows ==
  ASSUME NEW h \in Handlers, NEW code \in DOMAIN offers,
         DOMAIN offers' = DOMAIN offers, offers'[code].used,
         \A c \in DOMAIN offers \ {code} : offers'[c].used = offers[c].used,
         pc[h] = "grant" => local[h].offer = code, pc'[h] # "grant",
         \A g \in Handlers \ {h} : /\ pc'[g] = pc[g] /\ local'[g].offer = local[g].offer
                                   /\ pc[g] = "grant" => local[g].offer # code
  PROVE  SpentCodes' = SpentCodes \cup {code}
  BY DEF SpentCodes

(* A well-formed token request is one of the redemptions asked for, and    *)
(* gives the PIN if the handler finds that it does.                        *)
LEMMA Redeeming ==
  ASSUME NEW h \in Handlers, req[h] \in TokenRequests, WellFormed(req[h]),
         req[h].code \in DOMAIN offers
  PROVE  \E r \in Redemptions :
           /\ r.code = req[h].code /\ r.code \in DOMAIN Offered
           /\ Promise!GivesPin(r) <=> PinGiven(h, offers[req[h].code].offer)
<1> DEFINE r == [code |-> req[h].code, txCode |-> req[h].txCode]
<1>1. r \in Redemptions
  BY DEF Redemptions
<1>2. r.code \in DOMAIN Offered
  BY DEF Offered
<1>3. Promise!GivesPin(r) <=> PinGiven(h, offers[req[h].code].offer)
  BY DEF Promise!GivesPin, PinGiven, Offered
<1> QED
  BY <1>1, <1>2, <1>3

(* A refusal after Consume, or a failure, forfeits the code.               *)
LEMMA Forfeiting ==
  ASSUME NEW h \in Handlers, req[h] \in TokenRequests, WellFormed(req[h]),
         req[h].code \in DOMAIN offers \ SpentCodes,
         SpentCodes' = SpentCodes \cup {req[h].code},
         \/ Faults \cap {"rand", "store"} # {}
         \/ ~PinGiven(h, offers[req[h].code].offer),
         UNCHANGED <<Offered, Bought, req>>,
         \A g \in Handlers : local'[g].credential = local[g].credential
  PROVE  \E r \in Redemptions : Promise!Forfeit(r)
<1>1. PICK r \in Redemptions :
        /\ r.code = req[h].code /\ r.code \in DOMAIN Offered
        /\ Promise!GivesPin(r) <=> PinGiven(h, offers[req[h].code].offer)
  BY Redeeming
<1>2. UNCHANGED <<Redemptions, Orders>>
  BY AskedKept
<1>3. UNCHANGED CredentialsIssued
  BY IssuedKept
<1> QED
  BY <1>1, <1>2, <1>3 DEF Promise!Forfeit

(* No handler has an unused code. *)
LEMMA UnusedIsFree ==
  ASSUME IssuerInv, NEW c \in DOMAIN offers, ~offers[c].used, NEW g \in Handlers
  PROVE  local[g].offer # c
<1>1. c # Empty
  BY EmptyAssumption DEF IssuerInv, TypeOK, IsMap
<1> QED
  BY <1>1 DEF IssuerInv, TakerInv

(* Consume alone, for a right PIN, spends nothing yet; with a wrong one it *)
(* forfeits the code (issuer.go:225-247).                                  *)
LEMMA ConsumeOfferPromise ==
  ASSUME IssuerInv, NEW h \in Handlers, ConsumeOffer(h)
  PROVE  (\E r \in Redemptions : Promise!Forfeit(r)) \/ UNCHANGED Promise!promised
<1> DEFINE code == req[h].code
<1>1. /\ pc[h] = "consume" /\ WellFormed(req[h]) /\ Consume(code, now)
      /\ local' = [local EXCEPT ![h].offer = code]
      /\ UNCHANGED <<records, req>> /\ req[h] \in TokenRequests
  BY DEF ConsumeOffer, IssuerInv, TypeOK, PlaceOK
<1>2. TypeOK
  BY DEF IssuerInv
<1>3. /\ code \in DOMAIN offers /\ DOMAIN offers' = DOMAIN offers
      /\ ~offers[code].used /\ offers'[code].used
      /\ \A c \in DOMAIN offers : offers'[c].offer = offers[c].offer
      /\ \A c \in DOMAIN offers \ {code} : offers'[c] = offers[c]
  BY <1>1, <1>2, ConsumeType
<1>4. /\ local'[h].offer = code /\ local'[h].credential = local[h].credential
      /\ \A g \in Handlers \ {h} : local'[g] = local[g]
  BY <1>1, <1>2 DEF TypeOK, Locals
<1>5. \A g \in Handlers \ {h} : pc'[g] = pc[g]
  BY <1>2, OneMoves DEF HandleToken
<1>6. UNCHANGED Offered
  BY <1>3, TermsKept
<1>7. UNCHANGED Bought
  BY <1>1, BoughtKept
<1>8. CASE Goto(h, "grant")
  <2>1. pc'[h] = "grant"
    BY <1>2, <1>8 DEF Goto, TypeOK
  <2>2. UNCHANGED SpentCodes
    BY <1>1, <1>3, <1>4, <1>5, <2>1 DEF SpentCodes
  <2>3. UNCHANGED <<Redemptions, Orders>>
    BY <1>1, AskedKept
  <2>4. UNCHANGED CredentialsIssued
    BY <1>1, <1>4, IssuedKept
  <2> QED
    BY <1>6, <1>7, <2>2, <2>3, <2>4 DEF Promise!promised
<1>9. CASE ~PinMatches(h) /\ Goto(h, "done")
  <2>1. pc'[h] = "done"
    BY <1>2, <1>9 DEF Goto, TypeOK
  <2>2. \A g \in Handlers : local[g].offer # code
    BY <1>3, UnusedIsFree
  <2>3. SpentCodes' = SpentCodes \cup {code}
    BY <1>1, <1>3, <1>4, <1>5, <2>1, <2>2, SpentGrows
  <2>4. code \notin SpentCodes
    BY <1>3 DEF SpentCodes
  <2>5. ~PinGiven(h, offers[code].offer)
    BY <1>9 DEF PinMatches, PinGiven
  <2> QED
    BY <1>1, <1>3, <1>4, <1>6, <1>7, <2>3, <2>4, <2>5, Forfeiting
<1> QED
  BY <1>8, <1>9 DEF ConsumeOffer, Fail, Answer

(* Consume reports an error of its own: the code is forfeited if it took   *)
(* effect.                                                                 *)
LEMMA ConsumeFailsPromise ==
  ASSUME IssuerInv, NEW h \in Handlers, ConsumeFails(h)
  PROVE  (\E r \in Redemptions : Promise!Forfeit(r)) \/ UNCHANGED Promise!promised
<1> DEFINE code == req[h].code
<1>1. /\ pc[h] = "consume" /\ WellFormed(req[h]) /\ "store" \in Faults
      /\ Goto(h, "done") /\ UNCHANGED <<records, req, local>>
      /\ req[h] \in TokenRequests
  BY DEF ConsumeFails, Fail, Answer, IssuerInv, TypeOK, PlaceOK
<1>2. CASE UNCHANGED offers
  BY <1>1, <1>2, QuietStutter DEF IssuerInv
<1>3. CASE Consume(code, now)
  <2>1. /\ code \in DOMAIN offers /\ DOMAIN offers' = DOMAIN offers
        /\ ~offers[code].used /\ offers'[code].used
        /\ \A c \in DOMAIN offers : offers'[c].offer = offers[c].offer
        /\ \A c \in DOMAIN offers \ {code} : offers'[c] = offers[c]
    BY <1>3, ConsumeType DEF IssuerInv
  <2>2. pc'[h] = "done" /\ \A g \in Handlers \ {h} : pc'[g] = pc[g]
    BY <1>1 DEF Goto, IssuerInv, TypeOK
  <2>3. \A g \in Handlers : local[g].offer # code
    BY <2>1, UnusedIsFree
  <2>4. SpentCodes' = SpentCodes \cup {code}
    BY <1>1, <2>1, <2>2, <2>3, SpentGrows
  <2>5. code \notin SpentCodes
    BY <2>1 DEF SpentCodes
  <2>6. UNCHANGED Offered
    BY <2>1, TermsKept
  <2>7. UNCHANGED Bought
    BY <1>1, BoughtKept
  <2> QED
    BY <1>1, <2>1, <2>4, <2>5, <2>6, <2>7, Forfeiting
<1> QED
  BY <1>2, <1>3 DEF ConsumeFails

(* What a granting handler has: its own code, which is nobody else's.      *)
LEMMA Granting ==
  ASSUME IssuerInv, NEW h \in Handlers, pc[h] = "grant"
  PROVE  /\ req[h] \in TokenRequests /\ local[h].offer = req[h].code
         /\ WellFormed(req[h])
         /\ req[h].code \in DOMAIN offers \ SpentCodes /\ offers[req[h].code].used
         /\ PinGiven(h, offers[req[h].code].offer)
         /\ \A g \in Handlers \ {h} : local[g].offer # req[h].code
<1>1. /\ req[h] \in TokenRequests /\ local[h].offer = req[h].code
      /\ local[h].offer # Empty /\ WellFormed(req[h])
      /\ req[h].code \in DOMAIN offers /\ offers[req[h].code].used
      /\ PinGiven(h, offers[req[h].code].offer)
  BY DEF IssuerInv, TypeOK, PlaceOK, TakerInv
<1>2. req[h].code \notin SpentCodes
  BY <1>1 DEF SpentCodes
<1>3. \A g \in Handlers \ {h} : local[g].offer # req[h].code
  BY <1>1 DEF IssuerInv, CodeInv
<1> QED
  BY <1>1, <1>2, <1>3

(* Save sells a new token for the code: consume and grant together are the *)
(* one redemption (issuer.go:225-272).                                     *)
LEMMA GrantTokenPromise ==
  ASSUME IssuerInv, NEW h \in Handlers, GrantToken(h)
  PROVE  /\ reply'[h].token \in Tokens
         /\ \E r \in Redemptions : Promise!Redeem(r, reply'[h].token)
<1> DEFINE code == req[h].code
<1>1. PICK token \in FreshTokens, nonce \in FreshNonces :
        /\ pc[h] = "grant"
        /\ SaveToken(token, TokenRecord(local[h].offer, nonce))
        /\ local' = [local EXCEPT ![h].token = token, ![h].nonce = nonce]
        /\ Goto(h, "done") /\ UNCHANGED <<offers, req>>
        /\ reply' = [reply EXCEPT ![h] = [error |-> Empty, token |-> token,
                                         cNonce |-> nonce, credential |-> Empty]]
  BY DEF GrantToken, Answer
<1>2. /\ req[h] \in TokenRequests /\ local[h].offer = code /\ WellFormed(req[h])
      /\ code \in DOMAIN offers \ SpentCodes /\ offers[code].used
      /\ PinGiven(h, offers[code].offer)
      /\ \A g \in Handlers \ {h} : local[g].offer # code
  BY <1>1, Granting
<1>3. token \in Tokens /\ token \notin DOMAIN records /\ reply'[h].token = token
  BY <1>1, FreshIsNew DEF IssuerInv, TypeOK
<1>4. /\ local'[h].credential = local[h].credential
      /\ \A g \in Handlers \ {h} : local'[g] = local[g] /\ pc'[g] = pc[g]
      /\ pc'[h] = "done"
  BY <1>1 DEF Goto, IssuerInv, TypeOK, Locals
<1>5. PICK r \in Redemptions :
        /\ r.code = code /\ r.code \in DOMAIN Offered
        /\ Promise!GivesPin(r) <=> PinGiven(h, offers[code].offer)
  BY <1>2, Redeeming
<1>6. SpentCodes' = SpentCodes \cup {code}
  BY <1>1, <1>2, <1>4, SpentGrows
<1>7. Bought' = Promise!Put(Bought, token, code)
  <2>1. TokenRecord(local[h].offer, nonce).offer = code
    BY <1>2 DEF TokenRecord
  <2> DEFINE record == TokenRecord(local[h].offer, nonce)
  <2>2. records' = Put(records, token, record) /\ record.offer = code
    BY <1>1, <2>1 DEF SaveToken
  <2> HIDE DEF record
  <2> QED
    BY <1>3, <2>2 DEF Bought, Put, Promise!Put
<1>8. UNCHANGED Offered
  BY <1>1, TermsKept
<1>9. UNCHANGED <<Redemptions, Orders>>
  BY <1>1, AskedKept
<1>10. UNCHANGED CredentialsIssued
  BY <1>1, <1>4, IssuedKept
<1>11. token \notin DOMAIN Bought
  BY <1>3 DEF Bought
<1> QED
  BY <1>2, <1>3, <1>5, <1>6, <1>7, <1>8, <1>9, <1>10, <1>11 DEF Promise!Redeem

(* A grant that fails forfeits the code. *)
LEMMA GrantFailsPromise ==
  ASSUME IssuerInv, NEW h \in Handlers, GrantFails(h)
  PROVE  \E r \in Redemptions : Promise!Forfeit(r)
<1>1. /\ pc[h] = "grant" /\ Goto(h, "done") /\ Faults \cap {"rand", "store"} # {}
      /\ UNCHANGED <<offers, records, req, local>>
  BY DEF GrantFails, Fail, Answer
<1>2. /\ req[h] \in TokenRequests /\ local[h].offer = req[h].code /\ WellFormed(req[h])
      /\ req[h].code \in DOMAIN offers \ SpentCodes /\ offers[req[h].code].used
      /\ \A g \in Handlers \ {h} : local[g].offer # req[h].code
  BY <1>1, Granting
<1>3. pc'[h] = "done" /\ \A g \in Handlers \ {h} : pc'[g] = pc[g]
  BY <1>1 DEF Goto, IssuerInv, TypeOK
<1>4. SpentCodes' = SpentCodes \cup {req[h].code}
  BY <1>1, <1>2, <1>3, SpentGrows
<1>5. UNCHANGED Offered
  BY <1>1, TermsKept
<1>6. UNCHANGED Bought
  BY <1>1, BoughtKept
<1> QED
  BY <1>1, <1>2, <1>4, <1>5, <1>6, Forfeiting

-----------------------------------------------------------------------------
(* The credential endpoint. *)

(* The factory call issues, for the order this request placed, what the    *)
(* bought token's offer includes, for its subject and the key that signed. *)
LEMMA IssueCredentialPromise ==
  ASSUME IssuerInv, KeyInv, NEW h \in Handlers, IssueCredential(h)
  PROVE  \E o \in Orders, config \in ConfigIds : Promise!Issue(o, config)
<1> DEFINE t == req[h].token
           cred == [config |-> local[h].config, subject |-> records[t].subject,
                    key |-> local[h].key]
           o == OrderOf(req[h])
           new == [token |-> t, config |-> cred.config, key |-> cred.key,
                   subject |-> cred.subject]
<1>1. PICK nonce \in NonceOrEmpty :
        /\ local' = [local EXCEPT ![h].credential = cred, ![h].nonce = nonce,
                                  ![h].nonceExpiresAt = now + CNonceTTL]
        /\ pc[h] = "issue" /\ Goto(h, "rotate")
        /\ UNCHANGED <<offers, records, req>>
  BY DEF IssueCredential
<1>2. /\ TypeOK /\ IssueInv(h) /\ local[h].config # Empty /\ ~Issued(h)
      /\ req[h] \in CredentialRequests
  BY <1>1 DEF IssuerInv, TypeOK, PlaceOK
<1>3. /\ t \in DOMAIN records /\ local[h].config \in records[t].configs
      /\ local[h].config \in Candidates(req[h])
      /\ local[h].config \in ConfigIds
  BY <1>2 DEF IssueInv, TypeOK, Locals, Optional
<1>4. o \in Orders /\ o.token = t /\ o.configs = Candidates(req[h])
  BY <1>2 DEF Orders, OrderOf
<1>5. o.key = local[h].key
  BY <1>1 DEF KeyInv, HolderInv, KeyChecked, OrderOf, SigningKey
<1>6. /\ records[t].offer \in DOMAIN offers
      /\ records[t].subject = offers[records[t].offer].offer.subject
      /\ records[t].configs = offers[records[t].offer].offer.configs
  BY <1>3 DEF IssuerInv, RecordInv, TakerInv
<1>7. /\ t \in DOMAIN Bought /\ Bought[t] = records[t].offer
      /\ Offered[Bought[t]].subject = records[t].subject
      /\ Offered[Bought[t]].configs = records[t].configs
  BY <1>3, <1>6 DEF Bought, Offered
<1>8. cred # Empty /\ cred.config = local[h].config /\ cred.key = local[h].key
      /\ cred.subject = records[t].subject
  <2>1. records[t].subject \in Subjects /\ local[h].key \in Optional(Keys)
    BY <1>2, <1>3 DEF TypeOK, IsMap, AccessTokenRecord, Locals
  <2>2. cred \in Credential
    BY <1>3, <2>1 DEF Credential
  <2> QED
    BY <2>2, EmptyAssumption
<1>9. CredentialsIssued' = CredentialsIssued \cup {new}
  <2> HIDE DEF cred, o
  <2>1. local'[h].credential = cred /\ \A g \in Handlers \ {h} : local'[g] = local[g]
    BY <1>1, <1>2 DEF TypeOK, Locals
  <2>2. Issued(h)' /\ \A g \in Handlers \ {h} : Issued(g)' <=> Issued(g)
    BY <1>8, <2>1 DEF Issued
  <2>3. new = [token |-> req'[h].token, config |-> local'[h].credential.config,
               key |-> local'[h].credential.key, subject |-> local'[h].credential.subject]
    BY <1>1, <2>1
  <2> HIDE DEF new
  <2>4. CredentialsIssued' \subseteq CredentialsIssued \cup {new}
    BY <1>1, <2>1, <2>2, <2>3 DEF CredentialsIssued
  <2>5. new \in CredentialsIssued'
    BY <2>2, <2>3 DEF CredentialsIssued
  <2>6. CredentialsIssued \subseteq CredentialsIssued'
    BY <1>1, <1>2, <2>1, <2>2 DEF CredentialsIssued
  <2> QED
    BY <2>4, <2>5, <2>6
<1>10. UNCHANGED <<Redemptions, Orders>>
  BY <1>1, AskedKept
<1>11. UNCHANGED Offered
  BY <1>1, TermsKept
<1>12. UNCHANGED Bought
  BY <1>1, BoughtKept
<1>13. UNCHANGED SpentCodes
  <2>1. \A g \in Handlers \ {h} : local'[g] = local[g] /\ pc'[g] = pc[g]
    BY <1>2, OneMoves DEF HandleCredential
  <2>2. pc'[h] = "rotate"
    BY <1>1, <1>2 DEF Goto, TypeOK
  <2> QED
    BY <1>1, <2>1, <2>2 DEF SpentCodes
<1>14. new = [token |-> o.token, config |-> local[h].config, key |-> o.key,
              subject |-> Offered[Bought[o.token]].subject]
  BY <1>4, <1>5, <1>7, <1>8
<1> HIDE DEF new, o, cred
<1> QED
  BY <1>3, <1>4, <1>7, <1>9, <1>10, <1>11, <1>12, <1>13, <1>14 DEF Promise!Issue

(* Every other step of handleCredential is none of the promise. *)
LEMMA OtherCredentialPromise ==
  ASSUME IssuerInv, NEW h \in Handlers, HandleCredential(h), ~IssueCredential(h)
  PROVE  UNCHANGED Promise!promised
<1>1. TypeOK /\ UNCHANGED req /\ \A g \in Handlers \ {h} : local'[g] = local[g]
  BY OneMoves DEF IssuerInv
<1>2. UNCHANGED offers /\ pc[h] # "grant"
  BY DEF HandleCredential, RejectToken, RejectBody, RejectConfig, LookupToken,
         CheckNonceExpiry, CheckProof, RejectProof, FactoryFails, BeginRotate,
         EndRotate, RotateFails
<1>3. \E p : p # "grant" /\ Goto(h, p)
  BY DEF HandleCredential, RejectToken, RejectBody, RejectConfig, LookupToken,
         CheckNonceExpiry, CheckProof, RejectProof, FactoryFails, BeginRotate,
         EndRotate, RotateFails, AnswerCredential, Fail, Answer
<1>4. \A g \in Handlers : local'[g].credential = local[g].credential
  <2>1. local'[h].credential = local[h].credential
    <3>1. CASE CheckProof(h)
      BY <1>1, <3>1, CheckProofCredential
    <3>2. CASE ~CheckProof(h)
      BY <1>1, <3>2, KeyKept
    <3> QED
      BY <3>1, <3>2
  <2> QED
    BY <1>1, <2>1
<1>5. /\ DOMAIN records' = DOMAIN records
      /\ \A t \in DOMAIN records : records'[t].offer = records[t].offer
  <2>1. CASE BeginRotate(h) \/ EndRotate(h)
    <3>1. req[h].token \in DOMAIN records
      BY <1>1, <2>1 DEF BeginRotate, EndRotate, TypeOK, PlaceOK
    <3>2. local[h].nonce \in Optional(Nonces) /\ local[h].nonceExpiresAt \in Nat
      BY <1>1 DEF TypeOK, Locals
    <3>3. DOMAIN records' = DOMAIN records /\ RightsKept
      <4>1. CASE BeginRotate(h)
        <5>1. BeginRotateCNonce(h, req[h].token, local[h].nonce, local[h].nonceExpiresAt)
          BY <4>1 DEF BeginRotate
        <5> QED
          BY <1>1, <1>2, <3>1, <3>2, <5>1, RotateType DEF BeginRotateCNonce
      <4>2. CASE EndRotate(h)
        <5>1. EndRotateCNonce(h, req[h].token, local[h].nonce, local[h].nonceExpiresAt)
          BY <4>2 DEF EndRotate
        <5> QED
          BY <1>1, <1>2, <3>1, <3>2, <5>1, RotateType DEF EndRotateCNonce
      <4> QED
        BY <2>1, <4>1, <4>2
    <3> QED
      BY <3>3 DEF RightsKept
  <2>2. CASE ~BeginRotate(h) /\ ~EndRotate(h)
    BY <2>2 DEF HandleCredential, RejectToken, RejectBody, RejectConfig, LookupToken,
                CheckNonceExpiry, CheckProof, RejectProof, FactoryFails, RotateFails
  <2> QED
    BY <2>1, <2>2
<1>6. \A g \in Handlers : /\ pc'[g] = "grant" <=> pc[g] = "grant"
                          /\ pc[g] = "grant" => local'[g].offer = local[g].offer
  BY <1>1, <1>2, <1>3 DEF Goto, TypeOK
<1> QED
  BY <1>1, <1>2, <1>4, <1>5, <1>6, Stutter

-----------------------------------------------------------------------------
(* Of what the issuer itself does, only Save sells; every other step makes *)
(* an offer, spends one for nothing, issues, or is none of the promise.    *)
IssuerPromise ==
  \/ \E code \in Codes : Promise!MakeOffer(code)
  \/ \E r \in Redemptions : Promise!Forfeit(r)
  \/ \E o \in Orders, config \in ConfigIds : Promise!Issue(o, config)
  \/ UNCHANGED Promise!promised

(* Anything but the arrival of a request.                                  *)
IssuerAct ==
  \/ Tick \/ UNCHANGED vars
  \/ \E cfg \in OfferConfigs, code \in Codes : NewOffer(cfg, code)
  \/ \E h \in Handlers : HandleToken(h) \/ HandleCredential(h)

(* One lemma for each kind of step gives them all.                         *)
LEMMA IssuerPromiseStep ==
  ASSUME IssuerInv, KeyInv, IssuerAct, \A h \in Handlers : ~GrantToken(h)
  PROVE  IssuerPromise
<1>1. [Next]_vars
  BY DEF IssuerAct, Next
<1>2. TypeOK /\ TypeOK'
  BY <1>1, TypeStep DEF IssuerInv
<1>3. CASE \E cfg \in OfferConfigs, code \in Codes : NewOffer(cfg, code)
  BY <1>2, <1>3, NewOfferPromise DEF IssuerPromise
<1>4. ASSUME NEW h \in Handlers, HandleToken(h) PROVE IssuerPromise
  <2>1. CASE ConsumeFails(h)
    BY <2>1, ConsumeFailsPromise DEF IssuerPromise
  <2>2. CASE ConsumeOffer(h)
    BY <2>2, ConsumeOfferPromise DEF IssuerPromise
  <2>3. CASE GrantFails(h)
    BY <2>3, GrantFailsPromise DEF IssuerPromise
  <2>4. CASE RejectTokenRequest(h) \/ RefuseCode(h)
    <3>1. /\ pc[h] = "consume" /\ Goto(h, "done")
          /\ UNCHANGED <<offers, records, req, local>>
      BY <2>4 DEF RejectTokenRequest, RefuseCode, Fail, Answer
    <3> QED
      BY <1>2, <3>1, QuietStutter DEF IssuerPromise
  <2> QED
    BY <1>4, <2>1, <2>2, <2>3, <2>4 DEF HandleToken
<1>5. ASSUME NEW h \in Handlers, HandleCredential(h) PROVE IssuerPromise
  <2>1. CASE IssueCredential(h)
    BY <2>1, IssueCredentialPromise DEF IssuerPromise
  <2>2. CASE ~IssueCredential(h)
    BY <1>5, <2>2, OtherCredentialPromise DEF IssuerPromise
  <2> QED
    BY <2>1, <2>2
<1>6. CASE Tick \/ UNCHANGED vars
  BY <1>6, Stutter DEF Tick, vars, IssuerPromise
<1> QED
  BY <1>3, <1>4, <1>5, <1>6 DEF IssuerAct

(* Every step is a step of the promise or none. *)
LEMMA PromiseStep ==
  IssuerInv /\ KeyInv /\ [Next]_vars => [Promise!Next]_(Promise!promised)
<1> SUFFICES ASSUME IssuerInv, KeyInv, [Next]_vars
             PROVE  Promise!Next \/ UNCHANGED Promise!promised
  OBVIOUS
<1>1. TypeOK /\ TypeOK'
  BY TypeStep DEF IssuerInv
<1>2. CASE \E h \in Handlers, r \in TokenRequests \cup CredentialRequests : Receive(h, r)
  BY <1>1, <1>2, ReceivePromise DEF Promise!Next
<1>3. CASE \E h \in Handlers : GrantToken(h)
  BY <1>3, GrantTokenPromise DEF Promise!Next
<1>4. CASE IssuerAct /\ \A h \in Handlers : ~GrantToken(h)
  BY <1>4, IssuerPromiseStep DEF IssuerPromise, Promise!Next
<1> QED
  BY <1>2, <1>3, <1>4 DEF IssuerAct, Next

(* The issuer, with its stores, goroutines, failures, nonces and clock,    *)
(* keeps the promise of PreAuthorizedIssuance: a redemption and an         *)
(* issuance are each one indivisible step that some request asked for      *)
(* (handleToken and handleCredential, issuer.go:206-365).                  *)
THEOREM IssuerKeepsPromise == Spec => KeepsPromise
<1>1. Init => Promise!Init
  BY PromiseInit
<1>2. IssuerInv /\ KeyInv /\ [Next]_vars => [Promise!Next]_(Promise!promised)
  BY PromiseStep
<1> QED
  BY <1>1, <1>2, InvariantHolds, KeyInvariantHolds, PTL DEF Spec, KeepsPromise, Promise!Spec

-----------------------------------------------------------------------------
(* Wallets and issuer implement CredentialAcquisition.  First, what the    *)
(* wallets' part of the abstract state depends on.                         *)

(* Nothing is known, told, lost or acquired at the start. *)
LEMMA AcquisitionStart == SystemInit => Acquisition!AcquisitionInit
<1> SUFFICES ASSUME SystemInit PROVE Acquisition!AcquisitionInit
  OBVIOUS
<1>1. Acquisition!Init
  BY PromiseInit DEF SystemInit, Promise!Init, Acquisition!Init
<1>2. Known = {} /\ Told = {} /\ LostTokens = {} /\ CredentialsGiven = {}
  BY DEF SystemInit, Init, Known, Told, LostTokens, CredentialsGiven, Granted, Answered,
         IsRequest, Called
<1> QED
  BY <1>1, <1>2 DEF Acquisition!AcquisitionInit

(* What wallets know and were told is in their sessions. *)
LEMMA SessionsKept ==
  ASSUME UNCHANGED sessions
  PROVE  UNCHANGED <<Known, Told>>
  BY DEF Known, Told

(* A step of the wallets alone is none of the issuer's promise.            *)
LEMMA WalletsAlone ==
  ASSUME UNCHANGED vars
  PROVE  UNCHANGED Acquisition!promised
<1>1. UNCHANGED Promise!promised
  BY Stutter DEF vars
<1> QED
  BY <1>1 DEF Promise!promised, Acquisition!promised

(* A token is granted to one request. *)
LEMMA OneGranter ==
  ASSUME SystemInv, NEW g \in Handlers, NEW h \in Handlers, Granted(g), Granted(h),
         reply[g].token = reply[h].token
  PROVE  g = h
<1>1. local[g].offer = local[h].offer
  BY DEF SystemInv, AnswersInv, AnswerInv, Granted
<1>2. local[h].offer # Empty
  BY DEF SystemInv, IssuerInv, TakerInv
<1> QED
  BY <1>1, <1>2 DEF SystemInv, IssuerInv, CodeInv

(* A wallet can present the token of each of its sessions. *)
LEMMA HeldTokens ==
  \A t : t \in Acquisition!Held <=> \E s \in sessions : s.token = t /\ t # Empty
<1> SUFFICES ASSUME NEW t
             PROVE  t \in Acquisition!Held
                      <=> \E s \in sessions : s.token = t /\ t # Empty
  OBVIOUS
<1>1. ASSUME t \in Acquisition!Held PROVE \E s \in sessions : s.token = t /\ t # Empty
  <2>1. PICK p \in Told : t = p.token
    BY <1>1 DEF Acquisition!Held
  <2> QED
    BY <2>1 DEF Told
<1>2. ASSUME NEW s \in sessions, s.token = t, t # Empty PROVE t \in Acquisition!Held
  <2>1. [code |-> s.code, configs |-> s.configs, token |-> s.token] \in Told
    BY <1>2 DEF Told
  <2> QED
    BY <1>2, <2>1 DEF Acquisition!Held
<1> QED
  BY <1>1, <1>2

(* An answer that a waiting call has been given and not yet received is    *)
(* neither told nor lost.                                                  *)
LEMMA WaitingIsUndelivered ==
  ASSUME SystemInv, NEW h \in Handlers, Waiting(h), Granted(h)
  PROVE  /\ reply[h].token \in Tokens /\ reply[h].token \in Acquisition!Undelivered
         /\ reply[h].token \in DOMAIN records
<1> DEFINE t == reply[h].token
<1>1. t \in DOMAIN records
  BY DEF SystemInv, AnswersInv, AnswerInv, Granted
<1>2. t \in Tokens /\ t \in DOMAIN Bought
  BY <1>1 DEF SystemInv, IssuerInv, TypeOK, IsMap, Bought
<1>3. ASSUME t \in LostTokens PROVE FALSE
  <2>1. PICK g \in Handlers :
          Granted(g) /\ calls[g].outcome = "failed" /\ reply[g].token = t
    BY <1>3 DEF LostTokens
  <2>2. g = h
    BY <2>1, OneGranter
  <2> QED
    BY <2>1, <2>2 DEF Waiting
<1>4. ASSUME t \in Acquisition!Held PROVE FALSE
  <2>1. PICK s \in sessions : s.token = t /\ s.token # Empty
    BY <1>4, HeldTokens
  <2>2. PICK g \in Handlers :
          Granted(g) /\ calls[g].outcome = "returned" /\ reply[g].token = t
    BY <2>1, SessionGrant
  <2>3. g = h
    BY <2>2, OneGranter
  <2> QED
    BY <2>2, <2>3 DEF Waiting
<1> QED
  BY <1>1, <1>2, <1>3, <1>4 DEF Acquisition!Undelivered

-----------------------------------------------------------------------------
(* The issuer's side. *)

(* What a call returned was answered, and answers rest.                    *)
LEMMA AcquiredKept ==
  ASSUME SystemInv, [Next]_vars, UNCHANGED calls
  PROVE  UNCHANGED CredentialsGiven
<1>1. ASSUME NEW h \in Handlers, IsRequest(h), calls[h].outcome = "returned"
      PROVE  UNCHANGED <<req[h], reply[h]>>
  <2>1. pc[h] = "done" /\ TypeOK
    BY <1>1 DEF SystemInv, SessionInv, CallInv, IsRequest, IssuerInv, TakerInv
  <2> QED
    BY <2>1, SettledKept
<1>2. \A h \in Handlers : IsRequest(h)' <=> IsRequest(h)
  BY DEF IsRequest, Called
<1>3. \A h \in Handlers : IsRequest(h) /\ calls[h].outcome = "returned" =>
        CredentialOf(h)' = CredentialOf(h)
  BY <1>1 DEF CredentialOf
<1> QED
  BY <1>2, <1>3 DEF CredentialsGiven

(* Only GrantToken grants. *)
LEMMA GrantedKept ==
  ASSUME IssuerInv, [Next]_vars, NEW h \in Handlers, ~GrantToken(h)
  PROVE  /\ Granted(h)' <=> Granted(h)
         /\ Granted(h) => UNCHANGED reply[h]
<1>1. CASE Granted(h)
  BY <1>1, GranterKept
<1>2. CASE ~Granted(h) /\ Answered(h)
  <2>1. TypeOK /\ pc[h] = "done"
    BY <1>2 DEF IssuerInv, TakerInv
  <2>2. UNCHANGED reply[h]
    BY <2>1, SettledKept
  <2> QED
    BY <1>2, <2>2 DEF Granted, Answered
<1>3. CASE ~Answered(h) /\ Answered(h)'
  <2>1. CASE EndRotate(h) \/ RotateFails(h)
    <3>1. reply'[h].token = Empty
      BY <2>1 DEF EndRotate, RotateFails, AnswerCredential, Answer, IssuerInv, TypeOK
    <3> QED
      BY <1>3, <3>1 DEF Granted
  <2> QED
    BY <1>3, <2>1, AnswerCases DEF Granted
<1> QED
  BY <1>1, <1>2, <1>3 DEF Granted

(* Save sells a token; its answer is lost already if the caller is gone.   *)
LEMMA SellStep ==
  ASSUME SystemInv, [Next]_vars, UNCHANGED walletVars, NEW h \in Handlers, GrantToken(h)
  PROVE  \E r \in Redemptions, token \in Tokens : Acquisition!Sell(r, token)
<1> DEFINE token == reply'[h].token
<1>1. PICK r \in Redemptions : Promise!Redeem(r, token) /\ token \in Tokens
  BY GrantTokenPromise DEF SystemInv
<1>2. Acquisition!Redeem(r, token)
  BY <1>1 DEF Promise!Redeem, Acquisition!Redeem, Promise!GivesPin, Acquisition!GivesPin,
              Promise!Put, Acquisition!Put
<1>3. UNCHANGED calls /\ \A g \in Handlers \ {h} : reply'[g] = reply[g]
  BY OneMoves DEF SystemInv, IssuerInv, HandleToken, walletVars
<1>4. \A g \in Handlers \ {h} : Granted(g)' <=> Granted(g)
  BY <1>3 DEF Granted, Answered
<1>5. Granted(h)' /\ ~Granted(h)
  <2>1. TypeOK /\ pc[h] = "grant" /\ ~Answered(h)
    BY DEF SystemInv, IssuerInv, TakerInv, GrantToken
  <2>2. PICK t \in Tokens, nonce \in FreshNonces : Grants(h, t, nonce)
    BY GrantEffect DEF SystemInv
  <2>3. reply'[h].token = t /\ reply'[h].error = Empty /\ pc'[h] = "done" /\ IssuerInv'
    BY <2>2, InvStep DEF Grants, SystemInv
  <2>4. Answered(h)'
    BY <2>3 DEF IssuerInv, TakerInv
  <2> QED
    BY <2>1, <2>3, <2>4, <1>1, EmptyAssumption DEF Granted
<1>6. LostTokens' \in {LostTokens, LostTokens \cup {token}}
  <2>1. CASE calls[h].outcome = "failed"
    BY <1>3, <1>4, <1>5, <2>1 DEF LostTokens
  <2>2. CASE calls[h].outcome # "failed"
    BY <1>3, <1>4, <1>5, <2>2 DEF LostTokens
  <2> QED
    BY <2>1, <2>2
<1>7. UNCHANGED <<Known, Told, CredentialsGiven>>
  BY SessionsKept, AcquiredKept DEF walletVars
<1> QED
  BY <1>1, <1>2, <1>6, <1>7 DEF Acquisition!Sell

(* Every other step of the issuer leaves the wallets' part alone.          *)
LEMMA IssuerStepAcquisition ==
  ASSUME SystemInv, KeyInv, IssuerStep
  PROVE  Acquisition!AcquisitionNext \/ UNCHANGED Acquisition!everything
<1>1. IssuerAct /\ [Next]_vars /\ UNCHANGED walletVars
  BY DEF IssuerStep, IssuerAct, Next
<1>2. CASE \E h \in Handlers : GrantToken(h)
  BY <1>1, <1>2, SellStep DEF Acquisition!AcquisitionNext
<1>3. CASE \A h \in Handlers : ~GrantToken(h)
  <2>1. UNCHANGED LostTokens
    <3>1. \A h \in Handlers : /\ Granted(h)' <=> Granted(h)
                              /\ Granted(h) => UNCHANGED reply[h]
      BY <1>1, <1>3, GrantedKept DEF SystemInv
    <3> QED
      BY <1>1, <3>1 DEF LostTokens, walletVars
  <2>2. UNCHANGED Acquisition!walletPart
    BY <1>1, <2>1, SessionsKept, AcquiredKept DEF walletVars, Acquisition!walletPart
  <2>3. IssuerPromise
    BY <1>1, <1>3, IssuerPromiseStep DEF SystemInv
  <2>4. CASE \E code \in Codes : Promise!MakeOffer(code)
    BY <2>2, <2>4 DEF Promise!MakeOffer, Promise!Terms, Promise!Optional,
       Acquisition!MakeOffer, Acquisition!Terms, Acquisition!Optional,
       Acquisition!AcquisitionNext
  <2>5. CASE \E r \in Redemptions : Promise!Forfeit(r)
    BY <2>2, <2>5 DEF Promise!Forfeit, Promise!GivesPin, Acquisition!Forfeit,
       Acquisition!GivesPin, Acquisition!AcquisitionNext
  <2>6. CASE \E o \in Orders, config \in ConfigIds : Promise!Issue(o, config)
    BY <2>2, <2>6 DEF Promise!Issue, Acquisition!Issue, Acquisition!AcquisitionNext
  <2>7. CASE UNCHANGED Promise!promised
    BY <2>2, <2>7 DEF Promise!promised, Acquisition!promised, Acquisition!everything
  <2> QED
    BY <2>3, <2>4, <2>5, <2>6, <2>7 DEF IssuerPromise
<1> QED
  BY <1>2, <1>3

-----------------------------------------------------------------------------
(* The wallets' side. *)

(* Parsing an offer makes it known. *)
LEMMA ParseOfferAcquisition ==
  ASSUME NEW code \in Codes, ParseOffer(code)
  PROVE  Acquisition!ReadOffer(code)
<1> DEFINE s == NewSession(CredentialOffer(code))
           offer == [code |-> code, configs |-> Offered[code].configs]
<1>1. /\ code \in DOMAIN offers /\ sessions' = sessions \cup {s}
      /\ UNCHANGED <<vars, calls>>
  BY DEF ParseOffer
<1>2. code \in DOMAIN Offered /\ Offered[code].configs = offers[code].offer.configs
  BY <1>1 DEF Offered
<1>3. /\ s.code = code /\ s.configs = Offered[code].configs /\ s.token = Empty
  BY <1>2 DEF NewSession, CredentialOffer
<1> HIDE DEF s
<1>4. Known' = Known \cup {offer}
  BY <1>1, <1>3 DEF Known
<1>5. UNCHANGED Told
  BY <1>1, <1>3 DEF Told
<1>6. UNCHANGED <<LostTokens, CredentialsGiven>>
  BY <1>1 DEF vars, LostTokens, CredentialsGiven, Granted, Answered, IsRequest, Called,
              CredentialOf
<1>7. UNCHANGED Acquisition!promised
  BY <1>1, WalletsAlone
<1> QED
  BY <1>2, <1>4, <1>5, <1>6, <1>7 DEF Acquisition!ReadOffer

(* Sending a request changes nothing of what wallets know and hold. *)
LEMMA SendKeeps ==
  ASSUME SystemInv, NEW h \in Handlers, NEW request, NEW s, NEW config, NEW signer,
         Send(h, request, s, config, signer)
  PROVE  UNCHANGED Acquisition!walletPart
<1>1. /\ pc[h] = "ready" /\ UNCHANGED <<sessions, reply>>
      /\ \A g \in Handlers \ {h} : req'[g] = req[g] /\ calls'[g] = calls[g]
      /\ calls'[h].outcome = "waiting"
  BY DEF Send, Receive, SystemInv, SystemTypeOK, TypeOK
<1>2. ~Called(h) /\ ~Answered(h) /\ ~Answered(h)'
  BY <1>1 DEF SystemInv, SystemTypeOK, IssuerInv, TakerInv, Answered
<1>3. UNCHANGED LostTokens
  BY <1>1, <1>2 DEF LostTokens, Granted, Answered
<1>4. UNCHANGED CredentialsGiven
  BY <1>1, <1>2 DEF CredentialsGiven, IsRequest, Called, CredentialOf
<1> QED
  BY <1>1, <1>3, <1>4, SessionsKept DEF Acquisition!walletPart

(* What a call asks for is the one thing that is new.                      *)
LEMMA NewlyAsked ==
  ASSUME TypeOK, NEW h \in Handlers,
         NEW request \in TokenRequests \cup CredentialRequests, Receive(h, request)
  PROVE  /\ \A r \in Redemptions' \ Redemptions :
              request \in TokenRequests /\ r.code = request.code
         /\ \A o \in Orders' \ Orders :
              request \in CredentialRequests /\ o = OrderOf(request)
<1>1. req'[h] = request /\ \A g \in Handlers \ {h} : req'[g] = req[g]
  BY DEF Receive, TypeOK
<1>2. ASSUME NEW r \in Redemptions' \ Redemptions
      PROVE  request \in TokenRequests /\ r.code = request.code
  <2>1. PICK g \in Handlers :
          /\ req'[g] \in TokenRequests /\ WellFormed(req'[g])
          /\ r = [code |-> req'[g].code, txCode |-> req'[g].txCode]
    BY DEF Redemptions, WellFormed
  <2>2. g = h
    BY <1>1, <2>1 DEF Redemptions
  <2> QED
    BY <1>1, <2>1, <2>2
<1>3. ASSUME NEW o \in Orders' \ Orders
      PROVE  request \in CredentialRequests /\ o = OrderOf(request)
  <2>1. PICK g \in Handlers : req'[g] \in CredentialRequests /\ o = OrderOf(req'[g])
    BY DEF Orders, OrderOf, SigningKey, Candidates, ProofOf
  <2>2. g = h
    BY <1>1, <2>1 DEF Orders
  <2> QED
    BY <1>1, <2>1, <2>2
<1> QED
  BY <1>2, <1>3

(* A wallet asks with the code of an offer it has read, or with a token    *)
(* that it holds.                                                          *)
LEMMA SendAcquisition ==
  ASSUME SystemInv, NEW h \in Handlers, NEW s \in sessions,
         NEW request \in TokenRequests \cup CredentialRequests,
         NEW config, NEW signer, Send(h, request, s, config, signer),
         request \in TokenRequests => request.code = s.code,
         request \in CredentialRequests =>
           /\ request.token = s.token
           /\ request.config \in ConfigIds /\ request.config # Empty
  PROVE  Acquisition!AskWithWhatIsHeld
<1>1. TypeOK /\ TypeOK' /\ Receive(h, request)
  <2>1. Receive(h, request) /\ [Next]_vars
    BY DEF Send, Next
  <2> QED
    BY <2>1, TypeStep DEF SystemInv, IssuerInv
<1>2. Acquisition!Ask
  BY <1>1, ReceivePromise DEF Promise!Ask, Promise!Redemption, Promise!Order,
     Promise!Optional, Acquisition!Ask, Acquisition!Redemption, Acquisition!Order,
     Acquisition!Optional
<1>3. ASSUME NEW r \in Redemptions' \ Redemptions
      PROVE  r.code \in {offer.code : offer \in Known}
  <2>1. r.code = s.code
    BY <1>1, NewlyAsked
  <2>2. [code |-> s.code, configs |-> s.configs] \in Known
    BY DEF Known
  <2> QED
    BY <2>1, <2>2
<1>4. ASSUME NEW o \in Orders' \ Orders
      PROVE  /\ o.token \in Acquisition!Held \cup {Empty}
             /\ \E k \in ConfigIds : o.configs = {k}
  <2>1. request \in CredentialRequests /\ o = OrderOf(request)
    BY <1>1, NewlyAsked
  <2>2. o.token = s.token /\ o.configs = {request.config}
    BY <2>1 DEF OrderOf, Candidates
  <2> QED
    BY <2>1, <2>2, HeldTokens
<1>5. UNCHANGED Acquisition!walletPart
  BY SendKeeps
<1> QED
  BY <1>2, <1>3, <1>4, <1>5 DEF Acquisition!AskWithWhatIsHeld

(* RedeemOffer sends the code of a session. *)
LEMMA RedeemOfferAcquisition ==
  ASSUME SystemInv, NEW h \in Handlers, NEW s \in sessions, NEW pin \in CallerPins,
         RedeemOffer(h, s, pin)
  PROVE  Acquisition!AskWithWhatIsHeld
<1>1. s.code \in Codes
  BY DEF SystemInv, SystemTypeOK, Session
<1>2. TokenForm(s.code, pin) \in TokenRequests
  BY <1>1, RequestAssumption
<1>3. TokenForm(s.code, pin).code = s.code
  BY DEF TokenForm
<1> QED
  BY <1>2, <1>3, Disjoint, SendAcquisition DEF RedeemOffer

(* RequestCredential sends the token of a session, and one configuration.  *)
LEMMA RequestCredentialAcquisition ==
  ASSUME SystemInv, NEW h \in Handlers, NEW s \in sessions,
         NEW k \in CallerConfigs, NEW signer \in CallerSigners,
         RequestCredential(h, s, k, signer)
  PROVE  Acquisition!AskWithWhatIsHeld
<1>1. s \in Session
  BY DEF SystemInv, SystemTypeOK
<1>2. PICK config \in Requested(s, k) :
        /\ signer # Empty => CanBuildProof(s.cNonce, signer)
        /\ Send(h, CredentialBody(s.token, s.cNonce, config, signer), s, config, signer)
  BY DEF RequestCredential
<1>3. config \in ConfigIds
  BY <1>1, CallerAssumption DEF Requested, Session, Optional
<1>4. s.token \in Optional(Tokens) /\ s.cNonce \in Optional(Nonces)
  BY <1>1 DEF Session
<1> DEFINE request == CredentialBody(s.token, s.cNonce, config, signer)
<1>5. request \in CredentialRequests
  BY <1>2, <1>3, <1>4, RequestAssumption
<1>6. request.token = s.token /\ request.config = config
  BY DEF CredentialBody
<1>7. config # Empty
  BY <1>3, EmptyAssumption
<1> HIDE DEF request
<1> QED
  BY <1>2, <1>3, <1>5, <1>6, <1>7, Disjoint, SendAcquisition DEF request

(* The session a call returns is of the same offer. *)
LEMMA ReturnedFields ==
  ASSUME SystemInv, NEW h \in Handlers, Called(h)
  PROVE  /\ Returned(h).code = calls[h].session.code
         /\ Returned(h).configs = calls[h].session.configs
         /\ IsRequest(h) => Returned(h).token = calls[h].session.token
         /\ ~IsRequest(h) => Returned(h).token = reply[h].token
<1>1. calls[h].session \in Session
  BY CallFacts
<1> QED
  BY <1>1 DEF Returned, AfterRedeem, AfterRequest, WithNonce, Session, IsRequest

(* A call that ends: what the others were given and have lost stays so.    *)
LEMMA EndKeeps ==
  ASSUME SystemInv, NEW h \in Handlers, Waiting(h), UNCHANGED vars,
         NEW outcome \in Outcomes, calls' = [calls EXCEPT ![h].outcome = outcome]
  PROVE  /\ LostTokens' = LostTokens \cup
              IF Granted(h) /\ outcome = "failed" THEN {reply[h].token} ELSE {}
         /\ CredentialsGiven' = CredentialsGiven \cup
              IF IsRequest(h) /\ outcome = "returned" THEN {CredentialOf(h)} ELSE {}
<1>1. /\ calls'[h].outcome = outcome /\ calls'[h].config = calls[h].config
      /\ \A g \in Handlers \ {h} : calls'[g] = calls[g]
  BY DEF SystemInv, SystemTypeOK, Waiting, Optional, Call
<1>2. \A g \in Handlers : /\ IsRequest(g)' <=> IsRequest(g)
                          /\ Granted(g)' <=> Granted(g)
                          /\ CredentialOf(g)' = CredentialOf(g)
                          /\ reply'[g] = reply[g]
  <2>1. \A g \in Handlers : Called(g)' <=> Called(g)
    BY OutcomeType DEF SystemInv
  <2> QED
    BY <1>1, <2>1 DEF IsRequest, Granted, Answered, CredentialOf, vars
<1>3. calls[h].outcome = "waiting"
  BY DEF Waiting
<1> QED
  BY <1>1, <1>2, <1>3 DEF LostTokens, CredentialsGiven

(* The answer to a redemption tells the wallet of its token.               *)
LEMMA TellStep ==
  ASSUME SystemInv, NEW h \in Handlers, Return(h), reply[h].error = Empty, ~IsRequest(h)
  PROVE  \E token \in Tokens : Acquisition!BeTold(token)
<1> DEFINE t == reply[h].token
           code == calls[h].session.code
           purchase == [code |-> code, configs |-> calls[h].session.configs, token |-> t]
<1>1. /\ UNCHANGED vars /\ Waiting(h) /\ Called(h) /\ Answered(h)
      /\ calls' = [calls EXCEPT ![h].outcome = "returned"]
      /\ sessions' = sessions \cup {Returned(h)}
  BY DEF Return, SystemInv, IssuerInv, TakerInv, Waiting, Called
<1>2. /\ Granted(h) /\ calls[h].session \in sessions /\ req[h].code = code
      /\ code \in DOMAIN offers
  BY <1>1, AnswerFits, CallFacts
<1>3. t \in Tokens /\ t \in Acquisition!Undelivered /\ t \in DOMAIN records
  BY <1>1, <1>2, WaitingIsUndelivered
<1>4. /\ Returned(h).code = code /\ Returned(h).configs = calls[h].session.configs
      /\ Returned(h).token = t /\ t # Empty
  BY <1>1, <1>2, ReturnedFields DEF Granted
<1>5. Told' = Told \cup {purchase}
  BY <1>1, <1>4 DEF Told
<1>6. purchase = Acquisition!Purchase(Bought[t], t)
  <2>1. Bought[t] = code
    <3>1. records[t].offer = local[h].offer /\ local[h].offer = req[h].code
      BY <1>2 DEF SystemInv, AnswersInv, AnswerInv, IssuerInv, TakerInv, Granted
    <3> QED
      BY <1>2, <1>3, <3>1 DEF Bought
  <2>2. calls[h].session.configs = Offered[code].configs
    BY <1>2 DEF SystemInv, SessionInv, HeldInv, Offered
  <2> QED
    BY <2>1, <2>2 DEF Acquisition!Purchase
<1>7. UNCHANGED Known
  BY <1>1, <1>2, <1>4 DEF Known
<1>8. UNCHANGED <<LostTokens, CredentialsGiven>>
  BY <1>1, EndKeeps DEF Outcomes
<1>9. UNCHANGED Acquisition!promised
  BY <1>1, WalletsAlone
<1> HIDE DEF purchase, t
<1> QED
  BY <1>3, <1>5, <1>6, <1>7, <1>8, <1>9 DEF Acquisition!BeTold

(* The answer to a request gives the wallet a credential that was issued   *)
(* for a token it holds.                                                   *)
LEMMA GiveStep ==
  ASSUME SystemInv, NEW h \in Handlers, Return(h), reply[h].error = Empty, IsRequest(h)
  PROVE  \E credential \in CredentialsIssued : Acquisition!BeGiven(credential)
<1> DEFINE session == calls[h].session
<1>1. /\ UNCHANGED vars /\ Waiting(h) /\ Called(h) /\ Answered(h)
      /\ calls' = [calls EXCEPT ![h].outcome = "returned"]
      /\ sessions' = sessions \cup {Returned(h)}
  BY DEF Return, SystemInv, IssuerInv, TakerInv, Waiting, Called
<1>2. /\ Issued(h) /\ ~Granted(h) /\ session \in sessions /\ req[h].token = session.token
  BY <1>1, AnswerFits, CallFacts
<1>3. /\ Returned(h).code = session.code /\ Returned(h).configs = session.configs
      /\ Returned(h).token = session.token
  BY <1>1, ReturnedFields
<1>4. UNCHANGED <<Known, Told>>
  BY <1>1, <1>2, <1>3 DEF Known, Told
<1>5. CredentialOf(h) \in CredentialsIssued
  <2>1. reply[h].credential = local[h].credential
    BY <1>1, <1>2 DEF SystemInv, AnswersInv, AnswerInv
  <2> QED
    BY <1>2, <2>1 DEF CredentialOf, CredentialsIssued
<1>6. CredentialOf(h).token \in Acquisition!Held
  <2>1. req[h].token # Empty
    <3>1. req[h].token \in DOMAIN records
      BY <1>2 DEF SystemInv, IssuerInv, IssueInv
    <3> QED
      BY <3>1, EmptyAssumption DEF SystemInv, IssuerInv, TypeOK, IsMap
  <2> QED
    BY <1>2, <2>1, HeldTokens DEF CredentialOf
<1>7. CredentialsGiven' = CredentialsGiven \cup {CredentialOf(h)} /\ UNCHANGED LostTokens
  BY <1>1, EndKeeps DEF Outcomes
<1>8. UNCHANGED Acquisition!promised
  BY <1>1, WalletsAlone
<1> QED
  BY <1>4, <1>5, <1>6, <1>7, <1>8 DEF Acquisition!BeGiven

(* A call that fails loses the token it was granted, if it was.            *)
LEMMA MissedStep ==
  ASSUME SystemInv, NEW h \in Handlers, Waiting(h), UNCHANGED vars, UNCHANGED sessions,
         calls' = [calls EXCEPT ![h].outcome = "failed"]
  PROVE  Acquisition!AcquisitionNext \/ UNCHANGED Acquisition!everything
<1> DEFINE missed == IF Granted(h) THEN {reply[h].token} ELSE {}
<1>1. LostTokens' = LostTokens \cup missed /\ UNCHANGED CredentialsGiven
  BY EndKeeps DEF Outcomes
<1>2. UNCHANGED Acquisition!promised /\ UNCHANGED Known /\ UNCHANGED Told
  BY WalletsAlone, SessionsKept
<1>3. CASE Granted(h)
  <2>1. reply[h].token \in Tokens /\ reply[h].token \in Acquisition!Undelivered
    BY <1>3, WaitingIsUndelivered
  <2>2. LostTokens' = LostTokens \cup {reply[h].token}
    BY <1>1, <1>3
  <2>3. Acquisition!Lose(reply[h].token)
    BY <1>1, <1>2, <2>1, <2>2 DEF Acquisition!Lose
  <2> QED
    BY <2>1, <2>3 DEF Acquisition!AcquisitionNext
<1>4. CASE ~Granted(h)
  BY <1>1, <1>2, <1>4 DEF Acquisition!everything, Acquisition!walletPart
<1> QED
  BY <1>3, <1>4

(* Every step of the system is a step of the acquisition or none.          *)
LEMMA AcquisitionStep ==
  ASSUME SystemInv, KeyInv, [SystemNext]_systemVars
  PROVE  Acquisition!AcquisitionNext \/ UNCHANGED Acquisition!everything
<1>1. CASE IssuerStep
  BY <1>1, IssuerStepAcquisition
<1>2. CASE \E code \in Codes : ParseOffer(code)
  BY <1>2, ParseOfferAcquisition DEF Acquisition!AcquisitionNext
<1>3. CASE \E h \in Handlers, s \in sessions, pin \in CallerPins : RedeemOffer(h, s, pin)
  BY <1>3, RedeemOfferAcquisition DEF Acquisition!AcquisitionNext
<1>4. CASE \E h \in Handlers, s \in sessions, k \in CallerConfigs, g \in CallerSigners :
             RequestCredential(h, s, k, g)
  BY <1>4, RequestCredentialAcquisition DEF Acquisition!AcquisitionNext
<1>5. ASSUME NEW h \in Handlers, Return(h)
      PROVE  Acquisition!AcquisitionNext \/ UNCHANGED Acquisition!everything
  <2>1. CASE reply[h].error = Empty /\ ~IsRequest(h)
    BY <1>5, <2>1, TellStep DEF Acquisition!AcquisitionNext
  <2>2. CASE reply[h].error = Empty /\ IsRequest(h)
    BY <1>5, <2>2, GiveStep DEF Acquisition!AcquisitionNext
  <2>3. CASE reply[h].error # Empty
    <3>1. /\ Waiting(h) /\ UNCHANGED vars /\ UNCHANGED sessions
          /\ calls' = [calls EXCEPT ![h].outcome = "failed"]
      BY <1>5, <2>3 DEF Return
    <3> QED
      BY <3>1, MissedStep
  <2> QED
    BY <2>1, <2>2, <2>3
<1>6. ASSUME NEW h \in Handlers, GiveUp(h)
      PROVE  Acquisition!AcquisitionNext \/ UNCHANGED Acquisition!everything
  <2>1. /\ Waiting(h) /\ UNCHANGED vars /\ UNCHANGED sessions
        /\ calls' = [calls EXCEPT ![h].outcome = "failed"]
    BY <1>6 DEF GiveUp
  <2> QED
    BY <2>1, MissedStep
<1>7. CASE UNCHANGED systemVars
  <2>1. UNCHANGED vars /\ UNCHANGED <<sessions, calls>>
    BY <1>7 DEF systemVars, walletVars
  <2>2. UNCHANGED <<LostTokens, CredentialsGiven>>
    BY <2>1 DEF vars, LostTokens, CredentialsGiven, Granted, Answered, IsRequest, Called,
                CredentialOf
  <2> QED
    BY <2>1, <2>2, WalletsAlone, SessionsKept
       DEF Acquisition!everything, Acquisition!walletPart
<1> QED
  BY <1>1, <1>2, <1>3, <1>4, <1>5, <1>6, <1>7 DEF SystemNext

(* Wallets and issuer, with overlapping calls from any session and answers *)
(* late or lost, keep the promise of CredentialAcquisition                 *)
(* (client.go:160-314, issuer.go:206-365).                                 *)
THEOREM SystemKeepsPromise == SystemSpec => WalletsKeepPromise
<1>1. SystemInit => Acquisition!AcquisitionInit
  BY AcquisitionStart
<1>2. SystemInv /\ KeyInv /\ [SystemNext]_systemVars
        => [Acquisition!AcquisitionNext]_(Acquisition!everything)
  BY AcquisitionStep
<1>3. SystemSpec => []KeyInv
  BY SystemRunsIssuer, KeyInvariantHolds, PTL
<1> QED
  BY <1>1, <1>2, <1>3, SystemInvHolds, PTL
     DEF SystemSpec, WalletsKeepPromise, Acquisition!AcquisitionSpec
=============================================================================
