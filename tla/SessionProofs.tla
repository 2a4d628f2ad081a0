--------------------------- MODULE SessionProofs ----------------------------
(***************************************************************************)
(* What is proved about the sessions a wallet holds, for any number of     *)
(* calls, sessions and offers, used at once, again or in any order, and    *)
(* whichever answers are lost.  First what the issuer's answers say of     *)
(* what it stores (AnswersInv), then what the sessions made of them say of *)
(* it (SessionInv), then the properties, and last why calls fail           *)
(* (CauseInv).                                                             *)
(***************************************************************************)
EXTENDS SystemProofs, NonceProofs

-----------------------------------------------------------------------------
(* What the issuer's answers say.                                          *)

(* A request is a token request or a credential request, never both.       *)
LEMMA Disjoint == \A r \in TokenRequests : r \notin CredentialRequests
<1>1. ASSUME NEW r \in TokenRequest, r \in CredentialRequest PROVE FALSE
  <2>1. DOMAIN r = {"preAuthGrant", "code", "txCode"}
    BY DEF TokenRequest
  <2>2. "token" \in DOMAIN r
    BY <1>1 DEF CredentialRequest
  <2> QED
    BY <2>1, <2>2
<1> QED
  BY <1>1, IssuerAssumption

(* What a request that has been answered was told stays true: its handler  *)
(* rests, records keep their offer and nonces handed out stay handed out.  *)
LEMMA AnswerKept ==
  ASSUME IssuerInv, [Next]_vars, NEW h \in Handlers, Answered(h), AnswerInv(h)
  PROVE  AnswerInv(h)'
<1>1. TypeOK /\ pc[h] = "done"
  BY DEF IssuerInv, TakerInv
<1>2. UNCHANGED <<req[h], local[h], reply[h]>>
  BY <1>1, SettledKept
<1>3. ASSUME NEW t \in DOMAIN records
      PROVE  /\ t \in DOMAIN records' /\ records'[t].offer = records[t].offer
             /\ handed[t] \subseteq handed'[t]
  BY TokenKept, InvStep DEF RightsKept
<1>4. Issued(h) => req[h].token \in DOMAIN records
  BY DEF IssuerInv, IssueInv
<1> QED
  BY <1>2, <1>3, <1>4 DEF AnswerInv, Answered, Granted, Issued

(* The actions that answer a request with success, and all the others.     *)
LEMMA AnswerCases ==
  ASSUME IssuerInv, [Next]_vars, NEW h \in Handlers, ~Answered(h), Answered(h)'
  PROVE  \/ ~Issued(h)' /\ ~Granted(h)' /\ reply'[h].error # Empty
         \/ GrantToken(h) \/ EndRotate(h) \/ RotateFails(h)
<1>1. TypeOK /\ IssuerInv'
  BY InvStep DEF IssuerInv
<1>2. HandleToken(h) \/ HandleCredential(h)
  <2>1. CASE \E g \in Handlers : HandleToken(g) \/ HandleCredential(g)
    BY <1>1, <2>1, OneMoves DEF Answered
  <2>2. CASE UNCHANGED reply
    BY <2>2 DEF Answered
  <2> QED
    BY <2>1, <2>2 DEF Next, Tick, NewOffer, Receive, vars
<1>3. SUFFICES ASSUME ~GrantToken(h), ~EndRotate(h), ~RotateFails(h)
               PROVE  ~Issued(h)' /\ ~Granted(h)' /\ reply'[h].error # Empty
  OBVIOUS
<1>4. pc'[h] = "done" /\ pc[h] # "done"
  BY <1>1 DEF IssuerInv, TakerInv
<1>5. \E code \in ErrorCodes : \E nonce :
        reply' = [reply EXCEPT ![h] = [error |-> code, token |-> Empty,
                                       cNonce |-> nonce, credential |-> Empty]]
  <2>1. CASE \E code \in ErrorCodes : Fail(h, code)
    BY <2>1 DEF Fail, Answer
  <2>2. CASE RejectProof(h)
    BY <2>2 DEF RejectProof, Answer, ErrorCodes
  <2>3. CASE UNCHANGED reply
    BY <2>3 DEF Answered
  <2>4. \/ \E code \in ErrorCodes : Fail(h, code)
        \/ RejectProof(h)
        \/ UNCHANGED reply
    BY <1>2, <1>3 DEF HandleToken, RejectTokenRequest, RefuseCode, ConsumeFails,
         ConsumeOffer, GrantFails, HandleCredential, RejectToken, RejectBody,
         RejectConfig, LookupToken, CheckNonceExpiry, CheckProof, IssueCredential,
         FactoryFails, BeginRotate, ErrorCodes
  <2> QED
    BY <2>1, <2>2, <2>3, <2>4
<1>6. reply'[h].error # Empty /\ reply'[h].token = Empty
  BY <1>1, <1>5, EmptyAssumption DEF TypeOK
<1>7. ~Issued(h)'
  <2>1. ~IssueCredential(h)
    BY <1>1, <1>4 DEF IssueCredential, Goto, TypeOK
  <2>2. local'[h].credential = local[h].credential
    <3>1. CASE CheckProof(h)
      <4>1. RejectProof(h)
        BY <1>1, <1>4, <3>1 DEF CheckProof, Goto, TypeOK
      <4> QED
        BY <1>1, <4>1 DEF RejectProof, TypeOK, Locals
    <3> QED
      BY <1>1, <1>2, <2>1, <3>1, KeyKept
  <2>3. pc[h] \notin {"rotate", "unlock"}
    BY <1>1, <1>2, <1>3, <1>4, IdleEffect
       DEF BeginRotate, Goto, TypeOK, HandleToken, RejectTokenRequest, RefuseCode,
           ConsumeFails, ConsumeOffer, GrantFails, HandleCredential, RejectToken,
           RejectBody, RejectConfig, LookupToken, CheckNonceExpiry, CheckProof,
           IssueCredential, FactoryFails
  <2> QED
    BY <1>1, <1>4, <2>2, <2>3 DEF TypeOK, PlaceOK, Issued
<1> QED
  BY <1>6, <1>7 DEF Granted

(* A success that is answered is one that is stored: the token with its    *)
(* offer, the credential, and the nonce drawn for it.                      *)
LEMMA AnswerStep ==
  ASSUME IssuerInv, NonceInv, [Next]_vars, NEW h \in Handlers, AnswerInv(h)
  PROVE  AnswerInv(h)'
<1>1. TypeOK /\ IssuerInv' /\ DrawnInv
  BY InvStep DEF IssuerInv, NonceInv
<1>2. CASE Answered(h)
  BY <1>2, AnswerKept
<1>3. CASE ~Answered(h)'
  BY <1>3 DEF AnswerInv
<1>4. CASE GrantToken(h) /\ Answered(h)'
  <2>1. PICK token \in Tokens, nonce \in FreshNonces : Grants(h, token, nonce)
    BY <1>4, GrantEffect
  <2>2. /\ pc[h] = "grant" /\ pc'[h] = "done" /\ UNCHANGED req
        /\ req[h] \in TokenRequests
    BY <1>1, <1>4, <2>1 DEF Grants, GrantToken, TypeOK, PlaceOK
  <2>3. ~Issued(h)'
    BY <1>1, <2>2, Disjoint DEF IssuerInv, TypeOK, PlaceOK
  <2>4. /\ token \in DOMAIN records' /\ records'[token].offer = local'[h].offer
        /\ local'[h].nonce = nonce /\ nonce \in handed'[token]
        /\ reply'[h].error = Empty /\ reply'[h].token = token
        /\ reply'[h].cNonce = nonce
    BY <2>1 DEF Grants
  <2>5. token # Empty /\ nonce # Empty
    BY <2>1, EmptyAssumption DEF FreshNonces
  <2> QED
    BY <1>4, <2>2, <2>3, <2>4, <2>5 DEF AnswerInv, Granted
<1>5. CASE EndRotate(h)
  <2> DEFINE t == req[h].token
  <2>1. /\ t \in DOMAIN records /\ pc[h] = "unlock"
        /\ reply'[h] = [error |-> Empty, token |-> Empty, cNonce |-> local[h].nonce,
                        credential |-> local[h].credential]
        /\ UNCHANGED <<local, handed, req>>
    BY <1>1, <1>5, EndEffect DEF EndRotate
  <2>2. local[h].nonce \in handed[t]
    BY <1>1, <2>1 DEF DrawnInv, Current
  <2>3. Issued(h)' /\ ~Granted(h)'
    BY <1>1, <2>1 DEF TypeOK, PlaceOK, Issued, Granted
  <2> QED
    BY <2>1, <2>2, <2>3 DEF AnswerInv
<1>6. CASE RotateFails(h)
  <2>1. /\ pc[h] = "rotate" /\ "store" \in Faults /\ UNCHANGED <<local, req>>
        /\ reply'[h] = [error |-> Empty, token |-> Empty, cNonce |-> local[h].nonce,
                        credential |-> local[h].credential]
    BY <1>1, <1>6 DEF RotateFails, AnswerCredential, Answer, TypeOK
  <2>2. Issued(h)' /\ ~Granted(h)'
    BY <1>1, <2>1 DEF TypeOK, PlaceOK, Issued, Granted
  <2> QED
    BY <2>1, <2>2 DEF AnswerInv
<1> QED
  BY <1>2, <1>3, <1>4, <1>5, <1>6, AnswerCases DEF AnswerInv

(* A nonce is stored by the request whose answer carries it.               *)
LEMMA StoredStep ==
  ASSUME IssuerInv, [Next]_vars, \A u \in DOMAIN records : StoredInv(u),
         NEW t \in DOMAIN records'
  PROVE  StoredInv(t)'
<1>1. TypeOK /\ IssuerInv'
  BY InvStep DEF IssuerInv
<1>2. CASE t \notin DOMAIN records
  <2>1. PICK h \in Handlers : GrantToken(h)
    BY <1>2, NewRecord
  <2>2. PICK token \in Tokens, nonce \in FreshNonces : Grants(h, token, nonce)
    BY <2>1, GrantEffect
  <2>3. /\ t = token /\ pc'[h] = "done" /\ reply'[h].token = t
        /\ records'[t].cNonce = local'[h].nonce
    BY <1>2, <2>2 DEF Grants
  <2>4. Granted(h)'
    BY <1>1, <2>2, <2>3, EmptyAssumption DEF IssuerInv, TakerInv, Granted
  <2> QED
    BY <2>3, <2>4 DEF StoredInv
<1>3. ASSUME NEW h \in Handlers, local[h].nonce = records'[t].cNonce,
             \/ Granted(h) /\ reply[h].token = t
             \/ Issued(h) /\ req[h].token = t /\ pc[h] \in {"unlock", "done"}
      PROVE  StoredInv(t)'
  <2>1. pc[h] \in {"unlock", "done"} /\ (Granted(h) => pc[h] = "done")
    BY <1>3 DEF Granted, IssuerInv, TakerInv
  <2>2. /\ UNCHANGED <<req[h], local[h]>> /\ pc'[h] \in {"unlock", "done"}
        /\ Granted(h) => UNCHANGED reply[h]
    BY <1>1, <2>1, SettledKept
  <2> QED
    BY <1>3, <2>2 DEF StoredInv, Granted, Answered, Issued
<1>4. CASE t \in DOMAIN records /\ records'[t].cNonce = records[t].cNonce
  BY <1>3, <1>4 DEF StoredInv
<1>5. CASE \E g \in Handlers : (BeginRotate(g) \/ EndRotate(g)) /\ req[g].token = t
  <2>1. PICK g \in Handlers : (BeginRotate(g) \/ EndRotate(g)) /\ req[g].token = t
    BY <1>5
  <2>2. /\ records'[t].cNonce \in {records[t].cNonce, local[g].nonce}
        /\ pc[g] \in {"rotate", "unlock"} /\ pc'[g] \in {"unlock", "done"}
        /\ UNCHANGED <<local, req>> /\ t \in DOMAIN records
    <3>1. CASE BeginRotate(g)
      BY <1>1, <2>1, <3>1, BeginEffect DEF BeginRotate
    <3>2. CASE EndRotate(g)
      BY <1>1, <2>1, <3>2, EndEffect DEF EndRotate
    <3> QED
      BY <2>1, <3>1, <3>2
  <2>3. CASE records'[t].cNonce = local[g].nonce
    <3>1. Issued(g)
      BY <1>1, <2>2 DEF TypeOK, PlaceOK
    <3> QED
      BY <2>1, <2>2, <2>3, <3>1 DEF StoredInv, Issued
  <2> QED
    BY <1>4, <2>2, <2>3
<1> QED
  BY <1>2, <1>4, <1>5, TokenKept

(* What clients are told is what the server has done, in every behaviour.  *)
THEOREM AnswersInvariantHolds == Spec => []AnswersInv
<1>1. Init => AnswersInv
  BY DEF Init, TokenStoreInit, AnswersInv, AnswerInv, Answered
<1>2. IssuerInv /\ NonceInv /\ AnswersInv /\ [Next]_vars => AnswersInv'
  <2> SUFFICES ASSUME IssuerInv, NonceInv, AnswersInv, [Next]_vars
               PROVE  AnswersInv'
    OBVIOUS
  <2> QED
    BY AnswerStep, StoredStep DEF AnswersInv
<1> QED
  BY <1>1, <1>2, InvariantHolds, NonceInvariantHolds, PTL DEF Spec

-----------------------------------------------------------------------------
(* What a step leaves of the sessions and calls there are.                 *)

(* All that is known of a state, of the issuer and of the wallets.         *)
SystemInv ==
  /\ SystemTypeOK /\ IssuerInv /\ NonceInv /\ AnswersInv
  /\ SessionInv

(* A call, once made, is from the same session, and stays returned.        *)
CallKept(g) ==
  Called(g) =>
    /\ Called(g)'
    /\ calls'[g].session = calls[g].session /\ calls'[g].config = calls[g].config
    /\ calls[g].outcome = "returned" => calls'[g].outcome = "returned"

(* A handler that serves a request goes on serving it.                     *)
LEMMA RequestKept ==
  ASSUME TypeOK, [Next]_vars, NEW g \in Handlers, pc[g] # "ready"
  PROVE  req'[g] = req[g]
<1>1. CASE \E h \in Handlers : HandleToken(h) \/ HandleCredential(h)
  BY <1>1, OneMoves
<1>2. CASE \E h \in Handlers, r \in TokenRequests \cup CredentialRequests : Receive(h, r)
  BY <1>2 DEF Receive, TypeOK
<1> QED
  BY <1>1, <1>2 DEF Next, Tick, NewOffer, vars

(* Only ConsumeOffer takes an offer, and only one that is not used.        *)
LEMMA OfferTaken ==
  ASSUME TypeOK, [Next]_vars, NEW h \in Handlers, local'[h].offer # local[h].offer
  PROVE  /\ pc[h] # "ready" /\ ~offers[req[h].code].used
         /\ local'[h].offer = req[h].code
<1>1. HandleToken(h) \/ HandleCredential(h)
  BY OneMoves DEF Next, Tick, NewOffer, Receive, vars
<1>2. ConsumeOffer(h)
  <2>1. local[h] \in Locals
    BY DEF TypeOK
  <2>2. CASE GrantToken(h)
    BY <2>1, <2>2 DEF GrantToken, TypeOK, Locals
  <2>3. CASE IssueCredential(h)
    <3> DEFINE cred == [config |-> local[h].config,
                        subject |-> records[req[h].token].subject,
                        key |-> local[h].key]
               until == now + CNonceTTL
    <3>1. PICK nonce : local' = [local EXCEPT ![h].credential = cred,
                                   ![h].nonce = nonce, ![h].nonceExpiresAt = until]
      BY <2>3 DEF IssueCredential
    <3> HIDE DEF cred, until
    <3> QED
      BY <2>1, <3>1 DEF TypeOK, Locals
  <2>4. CASE RejectProof(h)
    BY <2>1, <2>4 DEF RejectProof, TypeOK, Locals
  <2>5. CASE LookupToken(h)
    BY <2>1, <2>5 DEF LookupToken, TypeOK, Locals
  <2>6. CASE CheckProof(h)
    BY <2>1, <2>4, <2>6 DEF CheckProof, TypeOK, Locals
  <2> QED
    BY <1>1, <2>2, <2>3, <2>4, <2>5, <2>6
       DEF HandleToken, RejectTokenRequest, RefuseCode, ConsumeFails, GrantFails,
           HandleCredential, RejectToken, RejectBody, RejectConfig, CheckNonceExpiry,
           FactoryFails, BeginRotate, EndRotate, RotateFails
<1>3. local'[h].offer = req[h].code
  BY <1>2 DEF ConsumeOffer, TypeOK, Locals
<1> QED
  BY <1>2, <1>3 DEF ConsumeOffer, Consume, ConsumeResult

(* The mutex is held until its holder ends the rotation.                   *)
LEMMA UnlockKept ==
  ASSUME TypeOK, [Next]_vars, NEW g \in Handlers, pc[g] = "unlock", ~EndRotate(g)
  PROVE  pc'[g] = "unlock"
<1>1. ~HandleToken(g) /\ ~HandleCredential(g)
  BY DEF HandleToken, RejectTokenRequest, RefuseCode, ConsumeFails, ConsumeOffer,
         GrantToken, GrantFails, HandleCredential, RejectToken, RejectBody,
         RejectConfig, LookupToken, CheckNonceExpiry, CheckProof, IssueCredential,
         FactoryFails, BeginRotate, RotateFails
<1>2. CASE \E h \in Handlers : HandleToken(h) \/ HandleCredential(h)
  BY <1>1, <1>2, OneMoves
<1>3. CASE \E h \in Handlers, r \in TokenRequests \cup CredentialRequests : Receive(h, r)
  BY <1>3 DEF Receive, Goto, TypeOK
<1> QED
  BY <1>2, <1>3 DEF Next, Tick, NewOffer, vars

(* A request that was granted a token has been answered, and rests.        *)
LEMMA GranterKept ==
  ASSUME IssuerInv, [Next]_vars, NEW h \in Handlers, Granted(h)
  PROVE  Granted(h)' /\ UNCHANGED <<local[h], reply[h]>>
<1>1. TypeOK /\ pc[h] = "done"
  BY DEF IssuerInv, TakerInv, Granted
<1> QED
  BY <1>1, SettledKept DEF Granted, Answered

(* No rotation stores a nonce that a session holds: its drawer has been    *)
(* answered.  So the session still outlasts what is stored.                *)
LEMMA ExpiryKept ==
  ASSUME IssuerInv, DrawnInv, [Next]_vars, NEW t \in DOMAIN records,
         NEW n, n # Empty, \E h \in Handlers : pc[h] = "done" /\ local[h].nonce = n,
         n = records'[t].cNonce,
         ~\E h \in Handlers : pc'[h] = "unlock" /\ req'[h].token = t
  PROVE  /\ records'[t] = records[t]
         /\ ~\E h \in Handlers : pc[h] = "unlock" /\ req[h].token = t
<1>1. TypeOK
  BY DEF IssuerInv
<1>2. ASSUME NEW g \in Handlers, BeginRotate(g), req[g].token = t PROVE FALSE
  <2>1. pc'[g] = "unlock" /\ req'[g] = req[g]
    BY <1>1, <1>2, BeginEffect DEF BeginRotate
  <2> QED
    BY <1>2, <2>1
<1>3. ASSUME NEW g \in Handlers, EndRotate(g), req[g].token = t PROVE FALSE
  <2>1. pc[g] = "unlock" /\ n = local[g].nonce
    BY <1>1, <1>3, EndEffect
  <2> QED
    BY <2>1 DEF DrawnInv
<1>4. ASSUME NEW g \in Handlers, pc[g] = "unlock", req[g].token = t PROVE FALSE
  BY <1>1, <1>3, <1>4, UnlockKept, RequestKept
<1> QED
  BY <1>2, <1>3, <1>4, TokenKept

(* A call keeps its invariant until it returns.  No handler takes an offer *)
(* for a session that has a token, because that offer's code is used.      *)
LEMMA CallFrame ==
  ASSUME SystemInv, [Next]_vars, NEW h \in Handlers, Called(h), CallKept(h),
         calls'[h].outcome = "returned" => calls[h].outcome = "returned",
         sessions \subseteq sessions'
  PROVE  CallInv(h)'
<1>1. TypeOK /\ CallInv(h) /\ pc[h] # "ready"
  BY DEF SystemInv, SystemTypeOK, SessionInv
<1>2. UNCHANGED req[h] /\ (IsRequest(h)' <=> IsRequest(h))
  BY <1>1, RequestKept DEF CallKept, IsRequest
<1>3. /\ calls'[h].session = calls[h].session /\ calls'[h].config = calls[h].config
      /\ calls[h].session \in sessions
  BY <1>1 DEF CallInv, CallKept
<1>4. ASSUME ~IsRequest(h), calls[h].session.token # Empty
      PROVE  local'[h].offer = Empty
  <2>1. local[h].offer = Empty /\ req[h].code = calls[h].session.code
    BY <1>1, <1>4 DEF CallInv
  <2>2. PICK g \in Handlers : Granted(g) /\ local[g].offer = calls[h].session.code
    BY <1>3, <1>4 DEF SystemInv, SessionInv, HeldInv
  <2>3. offers[req[h].code].used
    BY <2>1, <2>2 DEF SystemInv, IssuerInv, TakerInv
  <2> QED
    BY <1>1, <2>1, <2>3, OfferTaken
<1>5. ASSUME calls[h].outcome = "returned"
      PROVE  /\ Answered(h)' /\ reply'[h].error = Empty
             /\ reply'[h].cNonce # Empty =>
                  \E s \in sessions' : s.cNonce = reply'[h].cNonce /\ About(h, s.token)'
  <2>1. /\ Answered(h) /\ reply[h].error = Empty
        /\ reply[h].cNonce # Empty =>
             \E s \in sessions : s.cNonce = reply[h].cNonce /\ About(h, s.token)
    BY <1>1, <1>5 DEF CallInv
  <2>2. UNCHANGED reply[h]
    BY <1>1, <2>1, SettledKept DEF SystemInv, IssuerInv, TakerInv
  <2> QED
    BY <1>2, <2>1, <2>2 DEF About, Answered, Granted
<1> QED
  BY <1>1, <1>2, <1>3, <1>4, <1>5 DEF CallInv

(* A session keeps its invariant: its granter and its nonce's drawer rest, *)
(* rights are fixed, and only a rotation could prolong what is stored.     *)
LEMMA HeldFrame ==
  ASSUME SystemInv, [Next]_vars, \A g \in Handlers : CallKept(g),
         NEW s, HeldInv(s), SystemTypeOK'
  PROVE  HeldInv(s)'
<1>1. TypeOK /\ IssuerInv /\ DrawnInv /\ RightsKept
  BY InvStep DEF SystemInv, IssuerInv, NonceInv
<1>2. s.code \in DOMAIN offers' /\ s.configs = offers'[s.code].offer.configs
  BY <1>1 DEF HeldInv, RightsKept
<1> DEFINE t == s.token
<1>3. SUFFICES ASSUME t # Empty
      PROVE  /\ \E h \in Handlers :
                  /\ Granted(h)' /\ calls'[h].outcome = "returned"
                  /\ reply'[h].token = t /\ local'[h].offer = s.code
             /\ s.tokenExpiry + Second > records'[t].expiresAt
             /\ s.cNonce # Empty =>
                  /\ \E h \in Handlers : pc'[h] = "done" /\ local'[h].nonce = s.cNonce
                  /\ "store" \notin Faults => s.cNonce \in handed'[t]
                  /\ /\ s.cNonce = records'[t].cNonce /\ CNonceTTL >= Second
                     /\ ~\E h \in Handlers : pc'[h] = "unlock" /\ req'[h].token = t
                     => s.cNonceExpiry + Second > records'[t].cNonceExpiresAt
  BY <1>2 DEF HeldInv
<1>4. PICK h \in Handlers : /\ Granted(h) /\ calls[h].outcome = "returned"
                            /\ reply[h].token = t /\ local[h].offer = s.code
  BY <1>3 DEF HeldInv
<1>5. t \in DOMAIN records
  BY <1>4 DEF SystemInv, AnswersInv, AnswerInv, Granted
<1>6. Called(h)
  BY <1>1, <1>4 DEF SystemInv, SystemTypeOK, IssuerInv, TakerInv, Granted
<1>7. /\ Granted(h)' /\ calls'[h].outcome = "returned"
      /\ reply'[h].token = t /\ local'[h].offer = s.code
  BY <1>1, <1>4, <1>6, GranterKept DEF CallKept
<1>8. s.tokenExpiry + Second > records'[t].expiresAt
  <2>1. records'[t].expiresAt = records[t].expiresAt
    BY <1>1, <1>5 DEF RightsKept
  <2> QED
    BY <1>3, <2>1 DEF HeldInv
<1>9. ASSUME s.cNonce # Empty
      PROVE  /\ \E g \in Handlers : pc'[g] = "done" /\ local'[g].nonce = s.cNonce
             /\ "store" \notin Faults => s.cNonce \in handed'[t]
             /\ /\ s.cNonce = records'[t].cNonce /\ CNonceTTL >= Second
                /\ ~\E g \in Handlers : pc'[g] = "unlock" /\ req'[g].token = t
                => s.cNonceExpiry + Second > records'[t].cNonceExpiresAt
  <2>1. PICK g \in Handlers : pc[g] = "done" /\ local[g].nonce = s.cNonce
    BY <1>3, <1>9 DEF HeldInv
  <2>2. pc'[g] = "done" /\ local'[g].nonce = s.cNonce
    BY <1>1, <2>1, SettledKept
  <2>3. "store" \notin Faults => s.cNonce \in handed'[t]
    BY <1>3, <1>5, <1>9, TokenKept, <1>1 DEF HeldInv
  <2>4. ASSUME s.cNonce = records'[t].cNonce, CNonceTTL >= Second,
               ~\E f \in Handlers : pc'[f] = "unlock" /\ req'[f].token = t
        PROVE  s.cNonceExpiry + Second > records'[t].cNonceExpiresAt
    <3>1. /\ records'[t] = records[t]
          /\ ~\E f \in Handlers : pc[f] = "unlock" /\ req[f].token = t
      BY <1>1, <1>5, <1>9, <2>1, <2>4, ExpiryKept
    <3> QED
      BY <1>3, <1>9, <2>4, <3>1 DEF HeldInv
  <2> QED
    BY <2>2, <2>3, <2>4
<1> QED
  BY <1>7, <1>8, <1>9

(* A spent session stays spent, and a session that a credential is issued  *)
(* from is spent when its answer is: the rotation has replaced its nonce.  *)
LEMMA SpentFrame ==
  ASSUME SystemInv, [Next]_vars, "store" \notin Faults,
         NEW h \in Handlers, Called(h), CallKept(h)
  PROVE  SpentSession(h)'
<1>1. TypeOK /\ IssuerInv /\ IssuerInv' /\ DrawnInv /\ DrawnInv' /\ CallInv(h)
  BY InvStep, DrawnStep DEF SystemInv, IssuerInv, NonceInv, SessionInv
<1>2. UNCHANGED req[h] /\ (IsRequest(h)' <=> IsRequest(h))
      /\ calls'[h].session = calls[h].session
  BY <1>1, RequestKept DEF CallKept, IsRequest, SystemInv, SystemTypeOK
<1>3. PICK s, t, n : s = calls[h].session /\ t = req[h].token /\ n = s.cNonce
  OBVIOUS
<1> SUFFICES ASSUME IsRequest(h), Issued(h)', Answered(h)', n \in Current(t)', n # Empty
             PROVE  FALSE
  BY <1>2, <1>3 DEF SpentSession
<1>4. s \in sessions /\ s.token = t
  BY <1>1, <1>3 DEF CallInv, IsRequest
<1>5. Issued(h) /\ t \in DOMAIN records /\ t # Empty
      /\ (Answered(h) \/ (EndRotate(h) /\ ~Answered(h)))
  <2>1. CASE Answered(h)
    <3>1. UNCHANGED local[h]
      BY <1>1, <2>1, SettledKept DEF IssuerInv, TakerInv
    <3>2. Issued(h)
      BY <1>3, <3>1 DEF Issued
    <3>3. t \in DOMAIN records
      BY <1>1, <1>3, <3>2 DEF IssuerInv, IssueInv
    <3> QED
      BY <1>1, <2>1, <3>2, <3>3, EmptyAssumption DEF TypeOK, IsMap
  <2>2. CASE ~Answered(h)
    <3>1. EndRotate(h)
      <4>1. ASSUME GrantToken(h) PROVE FALSE
        <5>1. req'[h] \in TokenRequests
          BY <1>1, <1>2, <4>1 DEF GrantToken, TypeOK, PlaceOK
        <5>2. req'[h] \in CredentialRequests
          BY <1>1 DEF IssuerInv, TypeOK, PlaceOK
        <5> QED
          BY <5>1, <5>2, Disjoint
      <4> QED
        BY <1>1, <2>2, <4>1, AnswerCases DEF RotateFails
    <3>2. Issued(h) /\ t \in DOMAIN records
      BY <1>1, <1>3, <3>1 DEF EndRotate, TypeOK, PlaceOK
    <3> QED
      BY <1>1, <2>2, <3>1, <3>2, EmptyAssumption DEF TypeOK, IsMap
  <2> QED
    BY <2>1, <2>2
<1>6. /\ n \in handed[t]
      /\ \E g \in Handlers : pc[g] = "done" /\ local[g].nonce = n
  BY <1>3, <1>4, <1>5 DEF SystemInv, SessionInv, HeldInv
<1>7. CASE Answered(h)
  <2>1. n \notin Current(t)
    BY <1>3, <1>4, <1>5, <1>7 DEF SystemInv, SessionInv, SpentSession
  <2> QED
    BY <1>1, <1>3, <1>5, <1>6, <2>1, CurrentKept
<1>8. CASE EndRotate(h)
  <2>1. /\ pc[h] = "unlock" /\ pc'[h] = "done" /\ tokenMu' = Empty
        /\ records'[t].cNonce = local[h].nonce
    BY <1>1, <1>3, <1>8, EndEffect
  <2>2. Current(t)' = {local[h].nonce}
    BY <1>1, <2>1, IssuerAssumption DEF Current, DrawnInv
  <2> QED
    BY <1>1, <1>3, <1>6, <2>1, <2>2 DEF DrawnInv
<1> QED
  BY <1>5, <1>7, <1>8

-----------------------------------------------------------------------------
(* The steps of the system.                                                *)

(* A step that makes no session and in which no call returns: whatever the *)
(* issuer does, a call that is made, and one that is given up.             *)
LEMMA StillStep ==
  ASSUME SystemInv, [Next]_vars, SystemTypeOK', UNCHANGED sessions,
         \A g \in Handlers : CallKept(g),
         \A g \in Handlers : Called(g) /\ calls'[g].outcome = "returned" =>
           calls[g].outcome = "returned",
         \A g \in Handlers : ~Called(g) => CallInv(g)' /\ SpentSession(g)'
  PROVE  SessionInv'
<1>1. ASSUME NEW g \in Handlers PROVE CallInv(g)'
  BY CallFrame
<1>2. ASSUME NEW s \in sessions PROVE HeldInv(s)'
  BY HeldFrame DEF SystemInv, SessionInv
<1>3. ASSUME "store" \notin Faults, NEW g \in Handlers PROVE SpentSession(g)'
  BY <1>3, SpentFrame
<1> QED
  BY <1>1, <1>2, <1>3 DEF SessionInv

(* A call that is not made changes nothing of what is known.               *)
LEMMA NoCall ==
  ASSUME NEW h \in Handlers, ~Called(h)'
  PROVE  CallInv(h)' /\ SpentSession(h)'
  BY DEF CallInv, SpentSession, IsRequest

(* A call is made: its request is the one its session makes it, and its    *)
(* handler has taken, issued and answered nothing yet.                     *)
LEMMA SendStep ==
  ASSUME SystemInv, SystemTypeOK', NEW h \in Handlers,
         NEW s \in sessions, NEW request \in TokenRequests \cup CredentialRequests,
         NEW config, NEW signer, Send(h, request, s, config, signer),
         IF config # Empty
         THEN /\ request \in CredentialRequests
              /\ request.token = s.token /\ request.config = config
         ELSE request \in TokenRequests /\ request.code = s.code
  PROVE  SessionInv'
<1>1. TypeOK /\ [Next]_vars /\ pc[h] = "ready" /\ UNCHANGED sessions
  BY DEF SystemInv, IssuerInv, Send, Receive, Next
<1>2. ~Called(h) /\ \A g \in Handlers \ {h} : calls'[g] = calls[g]
  BY <1>1 DEF SystemInv, SystemTypeOK, Send
<1>3. /\ calls'[h].session = s /\ calls'[h].config = config
      /\ calls'[h].outcome = "waiting"
  BY DEF SystemInv, SystemTypeOK, Send
<1>4. req'[h] = request /\ UNCHANGED <<local, reply>>
  BY <1>1 DEF Send, Receive, TypeOK
<1>5. local[h].offer = Empty /\ ~Issued(h)
  BY <1>1 DEF SystemInv, IssuerInv, TakerInv, TypeOK, PlaceOK
<1>6. CallInv(h)'
  BY <1>1, <1>3, <1>4, <1>5 DEF CallInv, IsRequest
<1>7. SpentSession(h)'
  BY <1>4, <1>5 DEF SpentSession, Issued
<1>8. \A g \in Handlers \ {h} : ~Called(g) => ~Called(g)'
  BY <1>2 DEF Called
<1>9. \A g \in Handlers : CallKept(g)
  BY <1>2 DEF CallKept, Called
<1>10. \A g \in Handlers : Called(g) /\ calls'[g].outcome = "returned" =>
          calls[g].outcome = "returned"
  BY <1>2, <1>3
<1>11. \A g \in Handlers : ~Called(g) => CallInv(g)' /\ SpentSession(g)'
  BY <1>6, <1>7, <1>8, NoCall
<1> QED
  BY <1>1, <1>9, <1>10, <1>11, StillStep

(* An offer makes a session with that offer's code and configurations.     *)
LEMMA ParseOfferStep ==
  ASSUME SystemInv, SystemTypeOK', NEW code \in Codes, ParseOffer(code)
  PROVE  SessionInv'
<1>1. [Next]_vars /\ UNCHANGED calls /\ sessions \subseteq sessions'
  BY DEF ParseOffer
<1>2. \A g \in Handlers : CallKept(g)
  BY <1>1 DEF CallKept, Called
<1>3. \A g \in Handlers : CallInv(g)'
  BY <1>1, <1>2, CallFrame, NoCall DEF Called
<1>4. "store" \notin Faults => \A g \in Handlers : SpentSession(g)'
  BY <1>1, <1>2, SpentFrame, NoCall DEF Called
<1>5. ASSUME NEW s \in sessions' PROVE HeldInv(s)'
  <2>1. CASE s \in sessions
    BY <1>1, <1>2, <2>1, HeldFrame DEF SystemInv, SessionInv
  <2>2. CASE s = NewSession(CredentialOffer(code))
    <3>1. /\ s.code = code /\ s.configs = offers[code].offer.configs /\ s.token = Empty
          /\ code \in DOMAIN offers /\ UNCHANGED offers
      BY <2>2 DEF ParseOffer, NewSession, CredentialOffer, vars
    <3> QED
      BY <3>1 DEF HeldInv
  <2> QED
    BY <2>1, <2>2 DEF ParseOffer
<1> QED
  BY <1>3, <1>4, <1>5 DEF SessionInv

(* The answer to a call is one to what the call asked for: a redemption    *)
(* is granted a token, a request is issued a credential.                   *)
LEMMA AnswerFits ==
  ASSUME SystemInv, NEW h \in Handlers, Called(h), Answered(h), reply[h].error = Empty
  PROVE  /\ IsRequest(h) => Issued(h) /\ ~Granted(h)
         /\ ~IsRequest(h) => Granted(h) /\ ~Issued(h)
<1>1. /\ IsRequest(h) => req[h] \in CredentialRequests
      /\ ~IsRequest(h) => req[h] \in TokenRequests
  BY DEF SystemInv, SessionInv, CallInv
<1>2. /\ Granted(h) => req[h] \in TokenRequests
      /\ Granted(h) \/ Issued(h)
  BY DEF SystemInv, AnswersInv, AnswerInv
<1>3. Issued(h) => req[h] \in CredentialRequests
  BY DEF SystemInv, IssuerInv, TypeOK, PlaceOK
<1> QED
  BY <1>1, <1>2, <1>3, Disjoint

(* The session a redemption returns: the call is itself the one that was   *)
(* granted its token, and every lifetime starts no earlier than the        *)
(* issuer's did and is less than a second shorter.                         *)
LEMMA RedeemedHeld ==
  ASSUME SystemInv, NEW h \in Handlers, Called(h), ~IsRequest(h),
         Answered(h), reply[h].error = Empty, calls'[h].outcome = "returned",
         UNCHANGED vars, NEW s, s = Returned(h)
  PROVE  /\ HeldInv(s)'
         /\ s.cNonce = reply[h].cNonce /\ s.token = reply[h].token /\ Granted(h)
<1> DEFINE session == calls[h].session
           t == reply[h].token
<1>1. /\ TypeOK /\ Granted(h) /\ TakerInv(h) /\ pc[h] = "done"
      /\ session \in sessions /\ session \in Session
      /\ req[h].code = session.code
  BY AnswerFits DEF SystemInv, SystemTypeOK, IssuerInv, TakerInv, SessionInv, CallInv
<1>2. /\ reply[h].cNonce \in Optional(Nonces) /\ t \in Optional(Tokens)
      /\ now \in Nat /\ AccessTokenTTL \in Nat /\ CNonceTTL \in Nat
  BY <1>1, IssuerAssumption DEF TypeOK, Optional, Reply, Answered
<1> DEFINE tokenExpiry == Expiry(now, ExpiresIn(AccessTokenTTL))
           cNonceExpiry == Expiry(now, ExpiresIn(CNonceTTL))
<1>3. s = [WithNonce(session, reply[h].cNonce, ExpiresIn(CNonceTTL), now) EXCEPT
             !.token = t, !.tokenExpiry = tokenExpiry]
  BY DEF Returned, AfterRedeem, IsRequest
<1>4. /\ s.code = session.code /\ s.configs = session.configs
      /\ s.token = t /\ s.tokenExpiry = tokenExpiry
      /\ s.cNonce = reply[h].cNonce
      /\ CNonceTTL >= Second => s.cNonceExpiry = cNonceExpiry
  <2>1. CNonceTTL >= Second => ExpiresIn(CNonceTTL) > 0
    BY <1>2, WholeSeconds
  <2> QED
    BY <1>1, <1>3, <2>1 DEF WithNonce, Session
<1>5. /\ t \in DOMAIN records /\ reply[h].cNonce = local[h].nonce
      /\ local[h].nonce \in handed[t]
  BY <1>1 DEF SystemInv, AnswersInv, AnswerInv, Granted
<1>6. local[h].offer = s.code
  BY <1>1, <1>4 DEF TakerInv
<1>7. /\ records[t].cNonceExpiresAt <= now + CNonceTTL
      /\ records[t].expiresAt <= now + AccessTokenTTL
      /\ records[t].cNonceExpiresAt \in Nat /\ records[t].expiresAt \in Nat
  BY <1>1, <1>5, IssuerAssumption
     DEF SystemInv, NonceInv, LifetimeInv, TypeOK, IsMap, AccessTokenRecord
<1>8. s.code \in DOMAIN offers /\ s.configs = offers[s.code].offer.configs
  BY <1>1, <1>4 DEF SystemInv, SessionInv, HeldInv
<1>9. /\ s.tokenExpiry + Second > records[t].expiresAt
      /\ CNonceTTL >= Second => s.cNonceExpiry + Second > records[t].cNonceExpiresAt
  <2>1. /\ tokenExpiry \in Nat /\ tokenExpiry + Second > now + AccessTokenTTL
        /\ cNonceExpiry \in Nat /\ cNonceExpiry + Second > now + CNonceTTL
    BY <1>2, WholeSeconds
  <2> HIDE DEF tokenExpiry, cNonceExpiry
  <2> QED
    BY <1>2, <1>4, <1>7, <2>1, SecondAssumption
<1> HIDE DEF session, t, tokenExpiry, cNonceExpiry
<1>10. /\ UNCHANGED <<offers, records, handed, pc, local, reply>>
       /\ Granted(h)'
  BY <1>1 DEF vars, Granted, Answered
<1> QED
  BY <1>1, <1>4, <1>5, <1>6, <1>8, <1>9, <1>10 DEF HeldInv, t

(* The session a request returns is the one it was made from, with the     *)
(* nonce of the answer if there is one.                                    *)
LEMMA RequestedHeld ==
  ASSUME SystemInv, NEW h \in Handlers, Called(h), IsRequest(h),
         Answered(h), reply[h].error = Empty, UNCHANGED vars,
         NEW session, session = calls[h].session, HeldInv(session)',
         NEW s, s = Returned(h)
  PROVE  /\ HeldInv(s)'
         /\ s.token = req[h].token
         /\ reply[h].cNonce # Empty => s.cNonce = reply[h].cNonce
<1>1. /\ TypeOK /\ Issued(h) /\ pc[h] = "done"
      /\ session \in Session /\ req[h].token = session.token
  BY AnswerFits
     DEF SystemInv, SystemTypeOK, IssuerInv, TakerInv, SessionInv, CallInv
<1>2. s = AfterRequest(session, reply[h], ExpiresIn(CNonceTTL), now)
  BY DEF Returned, IsRequest
<1>3. CASE reply[h].cNonce = Empty
  BY <1>1, <1>2, <1>3 DEF AfterRequest
<1>4. CASE reply[h].cNonce # Empty
  <2>1. /\ s.code = session.code /\ s.configs = session.configs
        /\ s.token = session.token /\ s.tokenExpiry = session.tokenExpiry
        /\ s.cNonce = reply[h].cNonce
        /\ CNonceTTL >= Second => s.cNonceExpiry = Expiry(now, ExpiresIn(CNonceTTL))
    <3>1. CNonceTTL >= Second => ExpiresIn(CNonceTTL) > 0
      BY IssuerAssumption, WholeSeconds
    <3> QED
      BY <1>1, <1>2, <1>4, <3>1 DEF AfterRequest, WithNonce, Session
  <2>2. /\ reply[h].cNonce = local[h].nonce
        /\ "store" \notin Faults => local[h].nonce \in handed[s.token]
        /\ s.token \in DOMAIN records
    BY <1>1, <2>1 DEF SystemInv, AnswersInv, AnswerInv, IssuerInv, IssueInv
  <2>3. /\ records[s.token].cNonceExpiresAt <= now + CNonceTTL
        /\ records[s.token].cNonceExpiresAt \in Nat
    BY <1>1, <2>2, IssuerAssumption
       DEF SystemInv, NonceInv, LifetimeInv, TypeOK, IsMap, AccessTokenRecord
  <2>4. CNonceTTL >= Second => s.cNonceExpiry + Second > records[s.token].cNonceExpiresAt
    <3>1. /\ now \in Nat /\ CNonceTTL \in Nat
          /\ Expiry(now, ExpiresIn(CNonceTTL)) \in Nat
          /\ Expiry(now, ExpiresIn(CNonceTTL)) + Second > now + CNonceTTL
      BY <1>1, IssuerAssumption, WholeSeconds DEF TypeOK
    <3> QED
      BY <2>1, <2>3, <3>1, SecondAssumption
  <2>5. UNCHANGED <<offers, records, handed, pc, local, reply>>
    BY DEF vars
  <2> QED
    BY <1>1, <2>1, <2>2, <2>4, <2>5 DEF HeldInv
<1> QED
  BY <1>3, <1>4

(* A call returns: the session it leaves has the nonce of its answer.      *)
LEMMA ReturnStep ==
  ASSUME SystemInv, SystemTypeOK', NEW h \in Handlers, Return(h), reply[h].error = Empty
  PROVE  SessionInv'
<1>1. /\ UNCHANGED vars /\ Waiting(h) /\ pc[h] = "done"
      /\ calls' = [calls EXCEPT ![h].outcome = "returned"]
      /\ sessions' = sessions \cup {Returned(h)}
  BY DEF Return
<1>2. PICK s, session : s = Returned(h) /\ session = calls[h].session
  OBVIOUS
<1>3. TypeOK /\ Answered(h) /\ Called(h) /\ CallInv(h) /\ session \in sessions
  BY <1>1, <1>2
     DEF SystemInv, IssuerInv, TakerInv, Waiting, Called, SessionInv, CallInv
<1>4. /\ calls'[h].outcome = "returned" /\ calls'[h].session = session
      /\ calls'[h].config = calls[h].config /\ Called(h)'
      /\ \A g \in Handlers \ {h} : calls'[g] = calls[g]
  <2>1. calls[h] \in Call /\ calls \in [Handlers -> Optional(Call)]
    BY <1>3 DEF SystemInv, SystemTypeOK, Called, Optional
  <2>2. Called(h)'
    BY <1>1, <1>3 DEF SystemTypeOK, SystemInv, vars
  <2> QED
    BY <1>1, <1>2, <2>1, <2>2 DEF Call
<1>5. \A g \in Handlers : CallKept(g)
  BY <1>2, <1>4 DEF CallKept, Called
<1>6. \A r \in sessions : HeldInv(r)'
  BY <1>1, <1>5, HeldFrame DEF SystemInv, SessionInv
<1>7. /\ HeldInv(s)'
      /\ reply[h].cNonce # Empty => s.cNonce = reply[h].cNonce /\ About(h, s.token)
  <2>1. CASE IsRequest(h)
    BY <1>1, <1>2, <1>3, <1>6, <2>1, RequestedHeld DEF About
  <2>2. CASE ~IsRequest(h)
    BY <1>1, <1>2, <1>3, <1>4, <2>2, RedeemedHeld DEF About
  <2> QED
    BY <2>1, <2>2
<1>8. ASSUME NEW g \in Handlers PROVE CallInv(g)'
  <2>1. CASE g # h
    BY <1>1, <1>4, <1>5, <2>1, CallFrame, NoCall DEF Called
  <2>2. CASE g = h
    <3>1. UNCHANGED <<req, local, reply>> /\ (IsRequest(h)' <=> IsRequest(h))
      BY <1>1, <1>3, <1>4 DEF vars, IsRequest
    <3>2. (Answered(h)' <=> Answered(h)) /\ (About(h, s.token)' <=> About(h, s.token))
      BY <3>1 DEF Answered, About, Granted
    <3>3. reply'[h].cNonce # Empty =>
            \E r \in sessions' : r.cNonce = reply'[h].cNonce /\ About(h, r.token)'
      BY <1>1, <1>2, <1>7, <3>1, <3>2
    <3> QED
      BY <1>1, <1>2, <1>3, <1>4, <2>2, <3>1, <3>2, <3>3 DEF CallInv
  <2> QED
    BY <2>1, <2>2
<1>9. ASSUME "store" \notin Faults, NEW g \in Handlers PROVE SpentSession(g)'
  <2>1. CASE Called(g)
    BY <1>1, <1>5, <1>9, <2>1, SpentFrame
  <2>2. CASE ~Called(g)
    BY <1>3, <1>4, <2>2, NoCall DEF Called
  <2> QED
    BY <2>1, <2>2
<1>10. ASSUME NEW r \in sessions' PROVE HeldInv(r)'
  <2>1. r \in sessions \/ r = s
    BY <1>1, <1>2
  <2> QED
    BY <1>6, <1>7, <2>1
<1> QED
  BY <1>8, <1>9, <1>10 DEF SessionInv

(* A call fails, with an error or without an answer.                       *)
LEMMA EndedStep ==
  ASSUME SystemInv, SystemTypeOK', NEW h \in Handlers, Waiting(h), UNCHANGED vars,
         UNCHANGED sessions, calls' = [calls EXCEPT ![h].outcome = "failed"]
  PROVE  SessionInv'
<1>1. calls[h] \in Call /\ calls \in [Handlers -> Optional(Call)]
  BY DEF SystemInv, SystemTypeOK, Waiting, Optional
<1>2. /\ calls'[h].outcome = "failed" /\ calls'[h].session = calls[h].session
      /\ calls'[h].config = calls[h].config
      /\ \A g \in Handlers \ {h} : calls'[g] = calls[g]
  BY <1>1 DEF Call
<1>3. \A g \in Handlers : Called(g)' <=> Called(g)
  BY DEF SystemInv, SystemTypeOK, vars
<1>4. \A g \in Handlers : CallKept(g)
  BY <1>2, <1>3 DEF CallKept, Waiting
<1>5. \A g \in Handlers : Called(g) /\ calls'[g].outcome = "returned" =>
        calls[g].outcome = "returned"
  BY <1>2
<1>6. \A g \in Handlers : ~Called(g) => CallInv(g)' /\ SpentSession(g)'
  BY <1>3, NoCall
<1>7. [Next]_vars
  OBVIOUS
<1> QED
  BY <1>4, <1>5, <1>6, <1>7, StillStep

(* Every step of the system preserves the invariant.                       *)
LEMMA SessionStep ==
  ASSUME SystemInv, SystemTypeOK', [SystemNext]_systemVars
  PROVE  SessionInv'
<1>1. [Next]_vars
  BY SystemStep DEF SystemInv
<1>2. CASE UNCHANGED walletVars
  <2>1. \A g \in Handlers : CallKept(g) /\ calls'[g] = calls[g]
    BY <1>2 DEF walletVars, CallKept, Called
  <2> QED
    BY <1>1, <1>2, <2>1, StillStep, NoCall DEF walletVars, Called
<1>3. CASE \E code \in Codes : ParseOffer(code)
  BY <1>3, ParseOfferStep
<1>4. CASE \E h \in Handlers, s \in sessions, pin \in CallerPins : RedeemOffer(h, s, pin)
  <2>1. PICK h \in Handlers, s \in sessions, pin \in CallerPins : RedeemOffer(h, s, pin)
    BY <1>4
  <2>2. s.code \in Codes
    BY DEF SystemInv, SystemTypeOK, Session
  <2>3. TokenForm(s.code, pin) \in TokenRequests /\ TokenForm(s.code, pin).code = s.code
    BY <2>2, RequestAssumption DEF TokenForm
  <2> QED
    BY <2>1, <2>3, SendStep DEF RedeemOffer
<1>5. CASE \E h \in Handlers, s \in sessions, k \in CallerConfigs, g \in CallerSigners :
             RequestCredential(h, s, k, g)
  <2>1. PICK h \in Handlers, s \in sessions, k \in CallerConfigs, g \in CallerSigners :
          RequestCredential(h, s, k, g)
    BY <1>5
  <2>2. PICK config \in Requested(s, k) :
          /\ g # Empty => CanBuildProof(s.cNonce, g)
          /\ Send(h, CredentialBody(s.token, s.cNonce, config, g), s, config, g)
    BY <2>1 DEF RequestCredential
  <2> DEFINE body == CredentialBody(s.token, s.cNonce, config, g)
  <2>3. s \in Session
    BY DEF SystemInv, SystemTypeOK
  <2>4. config \in ConfigIds /\ config # Empty
    BY <2>3, CallerAssumption, EmptyAssumption DEF Requested, Session, Optional
  <2>5. body \in CredentialRequests
    BY <2>2, <2>3, <2>4, RequestAssumption DEF Session
  <2>6. body.token = s.token /\ body.config = config
    BY DEF CredentialBody
  <2> HIDE DEF body
  <2> QED
    BY <2>2, <2>4, <2>5, <2>6, SendStep DEF body
<1>6. CASE \E h \in Handlers : GiveUp(h)
  <2>1. PICK h \in Handlers : GiveUp(h)
    BY <1>6
  <2>2. /\ UNCHANGED sessions
        /\ calls' = [calls EXCEPT ![h].outcome = "failed"]
    BY <2>1 DEF GiveUp
  <2>3. Waiting(h) /\ UNCHANGED vars
    BY <2>1 DEF GiveUp
  <2> QED
    BY <2>2, <2>3, EndedStep
<1>7. CASE \E h \in Handlers : Return(h)
  <2>1. PICK h \in Handlers : Return(h)
    BY <1>7
  <2>2. CASE reply[h].error = Empty
    BY <2>1, <2>2, ReturnStep
  <2>3. CASE reply[h].error # Empty
    <3>1. /\ UNCHANGED sessions /\ Waiting(h) /\ UNCHANGED vars
          /\ calls' = [calls EXCEPT ![h].outcome = "failed"]
      BY <2>1, <2>3 DEF Return
    <3> QED
      BY <3>1, EndedStep
  <2> QED
    BY <2>2, <2>3
<1> QED
  BY <1>2, <1>3, <1>4, <1>5, <1>6, <1>7
     DEF SystemNext, IssuerStep, systemVars

(* In every behaviour of the system a session has the rights, and the      *)
(* nonce and expiry, that SessionInv says, whatever is lost or reordered.  *)
THEOREM SessionInvariantHolds == SystemSpec => []SessionInv
<1>1. SystemSpec => [](SystemTypeOK /\ IssuerInv /\ NonceInv /\ AnswersInv)
  BY SystemInvariant, SystemRunsIssuer, NonceInvariantHolds, AnswersInvariantHolds, PTL
<1>2. SystemInit => SessionInv
  BY DEF SystemInit, SessionInv, CallInv, SpentSession, IsRequest, Called
<1>3. ASSUME SystemTypeOK /\ IssuerInv /\ NonceInv /\ AnswersInv, SessionInv,
             SystemTypeOK', [SystemNext]_systemVars
      PROVE  SessionInv'
  BY <1>3, SessionStep DEF SystemInv
<1>4. (SystemTypeOK /\ IssuerInv /\ NonceInv /\ AnswersInv) /\ SessionInv
        /\ (SystemTypeOK /\ IssuerInv /\ NonceInv /\ AnswersInv)'
        /\ [SystemNext]_systemVars => SessionInv'
  BY <1>3
<1> QED
  BY <1>1, <1>2, <1>4, PTL DEF SystemSpec

(* All of it together.                                                     *)
LEMMA SystemInvHolds == SystemSpec => []SystemInv
<1>1. SystemTypeOK /\ IssuerInv /\ NonceInv /\ AnswersInv /\ SessionInv => SystemInv
  BY DEF SystemInv
<1> QED
  BY <1>1, SystemInvariant, SystemRunsIssuer, NonceInvariantHolds, AnswersInvariantHolds,
     SessionInvariantHolds, PTL

-----------------------------------------------------------------------------
(* What follows from the invariant.                                        *)

(* The token in a session was granted, in an answer that arrived, to a     *)
(* request with the code of the session's offer and its PIN, and its       *)
(* record is of that offer.                                                *)
LEMMA SessionGrant ==
  ASSUME SystemInv, NEW s \in sessions, s.token # Empty
  PROVE  /\ s.code \in DOMAIN offers /\ s.token \in DOMAIN records
         /\ records[s.token].offer = s.code
         /\ records[s.token].configs = s.configs
         /\ records[s.token].subject = offers[s.code].offer.subject
         /\ \E g \in Handlers : /\ Granted(g) /\ calls[g].outcome = "returned"
                                /\ reply[g].token = s.token /\ local[g].offer = s.code
                                /\ req[g].code = s.code
                                /\ PinGiven(g, offers[s.code].offer)
<1>1. PICK g \in Handlers : /\ Granted(g) /\ calls[g].outcome = "returned"
                            /\ reply[g].token = s.token /\ local[g].offer = s.code
  BY DEF SystemInv, SessionInv, HeldInv
<1>2. /\ s.token \in DOMAIN records /\ records[s.token].offer = s.code
  BY <1>1 DEF SystemInv, AnswersInv, AnswerInv, Granted
<1>3. /\ records[s.token].subject = offers[s.code].offer.subject
      /\ records[s.token].configs = offers[s.code].offer.configs
  BY <1>2 DEF SystemInv, IssuerInv, RecordInv
<1>4. s.code \in DOMAIN offers /\ s.configs = offers[s.code].offer.configs
  BY DEF SystemInv, SessionInv, HeldInv
<1>5. req[g].code = s.code /\ PinGiven(g, offers[s.code].offer)
  BY <1>1 DEF SystemInv, IssuerInv, TakerInv
<1> QED
  BY <1>1, <1>2, <1>3, <1>4, <1>5

(* The token in a session is the one the issuer sold for that session's    *)
(* own offer, and after a lost redemption there is none: its code was      *)
(* taken by the request whose answer is lost (client.go:193-222).          *)
THEOREM SessionRightsHolds == SystemSpec => []SessionRights
<1>1. SystemInv => SessionRights
  <2> SUFFICES ASSUME SystemInv PROVE SessionRights
    OBVIOUS
  <2>1. ASSUME NEW h \in Handlers, Granted(h), Lost(h),
               NEW s \in sessions, s.code = req[h].code, s.token # Empty
        PROVE  FALSE
    <3>1. PICK g \in Handlers : calls[g].outcome = "returned" /\ local[g].offer = s.code
      BY <2>1, SessionGrant
    <3>2. local[h].offer = s.code /\ local[h].offer # Empty
      BY <2>1 DEF SystemInv, IssuerInv, TakerInv
    <3>3. g = h
      BY <3>1, <3>2 DEF SystemInv, IssuerInv, CodeInv
    <3> QED
      BY <2>1, <3>1, <3>3 DEF Lost
  <2> QED
    BY <2>1, SessionGrant DEF SessionRights
<1> QED
  BY <1>1, SystemInvHolds, PTL

(* What RequestCredential returns is what was offered, in the format it    *)
(* reports, for the offer's subject, after a redemption with its PIN       *)
(* (client.go:231-314).                                                    *)
THEOREM AcquiredAsOfferedHolds == SystemSpec => []AcquiredAsOffered
<1>1. SystemInv => AcquiredAsOffered
  <2> SUFFICES ASSUME SystemInv, NEW h \in Handlers, IsRequest(h),
                      calls[h].outcome = "returned"
               PROVE  LET cred == reply[h].credential
                          session == calls[h].session
                          offer == offers[session.code].offer
                      IN /\ cred.config = calls[h].config
                         /\ cred.config \in session.configs \cap DOMAIN Supported
                         /\ FormatOf(Supported, calls[h].config)
                              = Supported[cred.config].format
                         /\ cred.subject = offer.subject
                         /\ \E g \in Handlers :
                              Granted(g) /\ req[g].code = session.code /\ PinGiven(g, offer)
    BY DEF AcquiredAsOffered
  <2> DEFINE cred == reply[h].credential
             s == calls[h].session
             k == calls[h].config
  <2>1. /\ Answered(h) /\ reply[h].error = Empty /\ s \in sessions
        /\ req[h].token = s.token /\ req[h].config = k /\ k # Empty
    BY DEF SystemInv, SessionInv, CallInv, IsRequest
  <2>2. Issued(h) /\ cred = local[h].credential
    BY <2>1, AnswerFits DEF SystemInv, AnswersInv, AnswerInv, IsRequest
  <2>3. /\ s.token \in DOMAIN records
        /\ local[h].config \in records[s.token].configs
        /\ local[h].config \in Candidates(req[h]) \cap DOMAIN Supported
        /\ cred.config = local[h].config /\ cred.subject = records[s.token].subject
    BY <2>1, <2>2 DEF SystemInv, IssuerInv, IssueInv
  <2>4. local[h].config = k
    BY <2>1, <2>3 DEF Candidates
  <2>5. s.token # Empty
    BY <2>3, EmptyAssumption DEF SystemInv, IssuerInv, TypeOK, IsMap
  <2>6. /\ records[s.token].configs = s.configs
        /\ records[s.token].subject = offers[s.code].offer.subject
        /\ \E g \in Handlers : Granted(g) /\ req[g].code = s.code
                               /\ PinGiven(g, offers[s.code].offer)
    BY <2>1, <2>5, SessionGrant
  <2> HIDE DEF cred, s, k
  <2>7. FormatOf(Supported, k) = Supported[cred.config].format
    BY <2>3, <2>4 DEF FormatOf
  <2> QED
    BY <2>3, <2>4, <2>6, <2>7 DEF cred, s, k
<1> QED
  BY <1>1, SystemInvHolds, PTL

(* The expiry in a session is less than a second before the issuer's,      *)
(* unless a rotation is under way (client.go:216-220, 308-310,             *)
(* issuer.go:280-282, 355, 361).                                           *)
THEOREM ExpiryNotASecondEarlyHolds == SystemSpec => []ExpiryNotASecondEarly
<1>1. SystemInv => ExpiryNotASecondEarly
  <2> SUFFICES ASSUME SystemInv, NEW s \in sessions, s.token # Empty
               PROVE  LET r == records[s.token]
                      IN /\ s.tokenExpiry + Second > r.expiresAt
                         /\ /\ s.cNonce = r.cNonce /\ r.cNonce # Empty
                            /\ tokenMu = Empty /\ CNonceTTL >= Second
                            => s.cNonceExpiry + Second > r.cNonceExpiresAt
    BY DEF ExpiryNotASecondEarly
  <2>1. HeldInv(s)
    BY DEF SystemInv, SessionInv
  <2>2. tokenMu = Empty => ~\E h \in Handlers : pc[h] = "unlock" /\ req[h].token = s.token
    BY IssuerAssumption DEF SystemInv, NonceInv, DrawnInv
  <2> QED
    BY <2>1, <2>2 DEF HeldInv
<1> QED
  BY <1>1, SystemInvHolds, PTL

(* A call is about one token only.                                         *)
LEMMA OneSubject ==
  ASSUME SystemInv, NEW h \in Handlers, NEW t, NEW u, About(h, t), About(h, u)
  PROVE  t = u
<1>1. IsRequest(h) => req[h] \in CredentialRequests
  BY DEF SystemInv, SessionInv, CallInv, IsRequest
<1>2. Granted(h) => req[h] \in TokenRequests
  BY DEF SystemInv, AnswersInv, AnswerInv, Granted
<1> QED
  BY <1>1, <1>2, Disjoint DEF About

(* An answer that has returned with a nonce left a session of its token    *)
(* that holds the nonce drawn for it.                                      *)
LEMMA ReturnedNonce ==
  ASSUME SystemInv, NEW h \in Handlers, NEW t, About(h, t), Called(h),
         calls[h].outcome = "returned", local[h].nonce # Empty
  PROVE  \E s \in sessions : s.token = t /\ s.cNonce = local[h].nonce
<1>1. /\ Answered(h) /\ reply[h].error = Empty
      /\ reply[h].cNonce # Empty =>
           \E s \in sessions : s.cNonce = reply[h].cNonce /\ About(h, s.token)
  BY DEF SystemInv, SessionInv, CallInv
<1>2. reply[h].cNonce = local[h].nonce
  BY <1>1 DEF SystemInv, AnswersInv, AnswerInv
<1> QED
  BY <1>1, <1>2, OneSubject

(* Whoever drew the nonce that t's record holds is a call about t, and has *)
(* not been refused.                                                       *)
LEMMA StoredDrawer ==
  ASSUME SystemInv, NEW t \in DOMAIN records, records[t].cNonce # Empty
  PROVE  \E h \in Handlers :
           /\ About(h, t) /\ Called(h) /\ local[h].nonce = records[t].cNonce
           /\ Answered(h) => reply[h].error = Empty
<1>1. PICK h \in Handlers :
        /\ local[h].nonce = records[t].cNonce
        /\ \/ Granted(h) /\ reply[h].token = t
           \/ Issued(h) /\ req[h].token = t /\ pc[h] \in {"unlock", "done"}
  BY DEF SystemInv, AnswersInv, StoredInv
<1>2. Called(h)
  BY <1>1 DEF SystemInv, SystemTypeOK, IssuerInv, TakerInv, Granted
<1>3. Answered(h) => reply[h].error = Empty
  BY <1>1 DEF SystemInv, AnswersInv, AnswerInv
<1>4. Issued(h) => IsRequest(h)
  BY <1>2, Disjoint
     DEF SystemInv, SessionInv, CallInv, IsRequest, IssuerInv, TypeOK, PlaceOK
<1> QED
  BY <1>1, <1>2, <1>3, <1>4 DEF About

(* However calls overlap and fail, the nonce the issuer expects is in some *)
(* session, or only in an answer that has not arrived.                     *)
THEOREM NonceKnownHolds == SystemSpec => []NonceKnown
<1>1. SystemInv => NonceKnown
  <2> SUFFICES ASSUME SystemInv, NEW t \in DOMAIN records, records[t].cNonce # Empty
               PROVE  \/ \E s \in sessions : s.token = t /\ s.cNonce = records[t].cNonce
                      \/ \E h \in Handlers :
                           /\ About(h, t) /\ local[h].nonce = records[t].cNonce
                           /\ calls[h].outcome # "returned"
    BY DEF NonceKnown
  <2>1. PICK h \in Handlers :
          About(h, t) /\ Called(h) /\ local[h].nonce = records[t].cNonce
    BY StoredDrawer
  <2> QED
    BY <2>1, ReturnedNonce
<1> QED
  BY <1>1, SystemInvHolds, PTL

(* A session that a successful call was made from does not hold the nonce  *)
(* the issuer expects: a redemption was made from one without a token, and *)
(* a request has had the nonce replaced.                                   *)
LEMMA SupersededGone ==
  ASSUME SystemInv, "store" \notin Faults, NEW s \in sessions, Superseded(s),
         s.token \in DOMAIN records, records[s.token].cNonce # Empty
  PROVE  s.cNonce # records[s.token].cNonce
<1>1. PICK h \in Handlers : /\ Called(h) /\ calls[h].outcome = "returned"
                            /\ calls[h].session = s
  BY DEF Superseded
<1>2. CallInv(h) /\ Answered(h) /\ reply[h].error = Empty
  BY <1>1 DEF SystemInv, SessionInv, CallInv
<1>3. CASE IsRequest(h)
  <2>1. Issued(h) /\ req[h].token = s.token
    BY <1>1, <1>2, <1>3, AnswerFits DEF CallInv
  <2>2. s.cNonce \notin Current(s.token) \ {Empty}
    BY <1>1, <1>2, <1>3, <2>1 DEF SystemInv, SessionInv, SpentSession
  <2> QED
    BY <2>2 DEF Current
<1>4. CASE ~IsRequest(h)
  <2>1. Granted(h) /\ local[h].offer # Empty
    BY <1>1, <1>2, <1>4, AnswerFits DEF SystemInv, IssuerInv, TakerInv
  <2>2. s.token # Empty
    BY EmptyAssumption DEF SystemInv, IssuerInv, TypeOK, IsMap
  <2> QED
    BY <1>1, <1>2, <1>4, <2>1, <2>2 DEF CallInv
<1> QED
  BY <1>3, <1>4

(* When no answer is lost or on its way, some session that no successful   *)
(* call was made from holds the nonce the issuer expects next, or, if it   *)
(* has none, one that it had (client.go:214-222, 304-313).                 *)
THEOREM LastSessionInStepHolds == SystemSpec => []LastSessionInStep
<1>1. SystemInv => LastSessionInStep
  <2> SUFFICES ASSUME SystemInv, "store" \notin Faults,
                      NEW t \in DOMAIN records, Settled(t)
               PROVE  \E s \in sessions :
                        /\ s.token = t
                        /\ \/ s.cNonce = records[t].cNonce /\ ~Superseded(s)
                           \/ s.cNonce \in handed[t] \ {Empty} /\ records[t].cNonce = Empty
    BY DEF LastSessionInStep
  <2>1. ASSUME NEW h \in Handlers, About(h, t), Called(h),
               Answered(h) => reply[h].error = Empty
        PROVE  calls[h].outcome = "returned"
    <3>1. calls[h].outcome \in Outcomes
      BY <2>1 DEF SystemInv, SystemTypeOK, Called, Optional, Call
    <3> QED
      BY <2>1, <3>1 DEF Settled, Waiting, Lost, Outcomes, Called
  <2>2. CASE records[t].cNonce # Empty
    <3>1. PICK h \in Handlers :
            /\ About(h, t) /\ Called(h) /\ local[h].nonce = records[t].cNonce
            /\ Answered(h) => reply[h].error = Empty
      BY <2>2, StoredDrawer
    <3>2. PICK s \in sessions : s.token = t /\ s.cNonce = records[t].cNonce
      BY <2>1, <2>2, <3>1, ReturnedNonce
    <3>3. ~Superseded(s)
      BY <2>2, <3>2, SupersededGone
    <3> QED
      BY <3>2, <3>3
  <2>3. CASE records[t].cNonce = Empty
    <3>1. PICK h \in Handlers : Granted(h) /\ reply[h].token = t
      BY DEF SystemInv, IssuerInv, RecordInv
    <3>2. Called(h)
      BY <3>1 DEF SystemInv, SystemTypeOK, IssuerInv, TakerInv, Granted
    <3>3. reply[h].error = Empty /\ local[h].nonce \in handed[t] \ {Empty}
      BY <3>1 DEF SystemInv, AnswersInv, AnswerInv, Granted
    <3>4. About(h, t)
      BY <3>1 DEF About
    <3>5. PICK s \in sessions : s.token = t /\ s.cNonce = local[h].nonce
      BY <2>1, <3>2, <3>3, <3>4, ReturnedNonce
    <3> QED
      BY <2>3, <3>3, <3>5
  <2> QED
    BY <2>2, <2>3
<1> QED
  BY <1>1, SystemInvHolds, PTL

-----------------------------------------------------------------------------
(* Why calls fail.                                                         *)

(* A call goes on being the one that was made.                             *)
CallFixed(g) ==
  Called(g) =>
    /\ Called(g)'
    /\ calls'[g].session = calls[g].session
    /\ calls'[g].config = calls[g].config /\ calls'[g].signer = calls[g].signer

(* A step of the system fixes every call, and one that it makes has the    *)
(* form the library gives it and no answer yet.                            *)
LEMMA CallMade ==
  ASSUME SystemInv, SystemTypeOK', [SystemNext]_systemVars, NEW g \in Handlers
  PROVE  /\ CallFixed(g)
         /\ ~Called(g) => FormInv(g)' /\ (Called(g)' => ~Answered(g)')
<1>1. /\ TypeOK /\ calls \in [Handlers -> Optional(Call)]
      /\ Called(g) => calls[g] \in Call
      /\ Called(g) <=> pc[g] # "ready"
  BY DEF SystemInv, SystemTypeOK, Called, Optional
<1>2. CASE UNCHANGED calls
  BY <1>2 DEF CallFixed, FormInv, Called
<1>3. ASSUME NEW h \in Handlers, NEW outcome,
             Waiting(h), calls' = [calls EXCEPT ![h].outcome = outcome], UNCHANGED vars
      PROVE  /\ CallFixed(g)
             /\ ~Called(g) => FormInv(g)' /\ (Called(g)' => ~Answered(g)')
  <2>1. Called(g)' <=> Called(g)
    BY <1>1, <1>3 DEF SystemTypeOK, vars
  <2>2. Called(g) => /\ calls'[g].session = calls[g].session
                     /\ calls'[g].config = calls[g].config
                     /\ calls'[g].signer = calls[g].signer
    BY <1>1, <1>3 DEF Call
  <2> QED
    BY <2>1, <2>2 DEF CallFixed, FormInv
<1>4. ASSUME NEW h \in Handlers, NEW r, NEW s, NEW config, NEW signer,
             Send(h, r, s, config, signer),
             IF config # Empty THEN r = CredentialBody(s.token, s.cNonce, config, signer)
             ELSE \E pin \in CallerPins : r = TokenForm(s.code, pin)
      PROVE  /\ CallFixed(g)
             /\ ~Called(g) => FormInv(g)' /\ (Called(g)' => ~Answered(g)')
  <2>1. pc[h] = "ready" /\ req'[h] = r /\ UNCHANGED reply
    BY <1>1, <1>4 DEF Send, Receive, TypeOK
  <2>2. g # h => calls'[g] = calls[g]
    BY <1>1, <1>4 DEF Send
  <2>3. CASE g # h
    BY <2>2, <2>3 DEF CallFixed, FormInv, Called
  <2>4. CASE g = h
    <3>1. ~Called(h)
      BY <1>1, <2>1, <2>4
    <3>2. ~Answered(h)'
      BY <2>1 DEF SystemInv, IssuerInv, TakerInv, Answered
    <3>3. /\ calls'[h].session = s /\ calls'[h].config = config
          /\ calls'[h].signer = signer
      BY <1>1, <1>4 DEF Send
    <3>4. FormInv(h)'
      BY <1>4, <2>1, <3>3 DEF FormInv, IsRequest
    <3> QED
      BY <2>4, <3>1, <3>2, <3>4 DEF CallFixed
  <2> QED
    BY <2>3, <2>4
<1>5. CASE \E h \in Handlers, s \in sessions, pin \in CallerPins : RedeemOffer(h, s, pin)
  <2>1. PICK h \in Handlers, s \in sessions, pin \in CallerPins :
          Send(h, TokenForm(s.code, pin), s, Empty, Empty)
    BY <1>5 DEF RedeemOffer
  <2> QED
    BY <1>4, <2>1
<1>6. CASE \E h \in Handlers, s \in sessions, k \in CallerConfigs, signer \in CallerSigners :
             RequestCredential(h, s, k, signer)
  <2>1. PICK h \in Handlers, s \in sessions, k \in CallerConfigs, signer \in CallerSigners :
          RequestCredential(h, s, k, signer)
    BY <1>6
  <2>2. PICK config \in Requested(s, k) :
          Send(h, CredentialBody(s.token, s.cNonce, config, signer), s, config, signer)
    BY <2>1 DEF RequestCredential
  <2>3. s \in Session
    BY DEF SystemInv, SystemTypeOK
  <2>4. config # Empty
    BY <2>3, CallerAssumption, EmptyAssumption DEF Requested, Session, Optional
  <2> QED
    BY <1>4, <2>2, <2>4
<1>7. CASE \E h \in Handlers : Return(h) \/ GiveUp(h)
  <2>1. PICK h \in Handlers : Return(h) \/ GiveUp(h)
    BY <1>7
  <2>2. /\ Waiting(h) /\ UNCHANGED vars
        /\ \E outcome : calls' = [calls EXCEPT ![h].outcome = outcome]
    BY <2>1 DEF Return, GiveUp
  <2> QED
    BY <1>3, <2>2
<1> QED
  BY <1>2, <1>5, <1>6, <1>7
     DEF SystemNext, IssuerStep, ParseOffer, walletVars, systemVars

(* The form of a call stays what it was.                                   *)
LEMMA FormKept ==
  ASSUME SystemInv, [Next]_vars, NEW h \in Handlers, Called(h), CallFixed(h), FormInv(h)
  PROVE  /\ UNCHANGED req[h] /\ (IsRequest(h)' <=> IsRequest(h))
         /\ FormInv(h)'
<1>1. UNCHANGED req[h]
  BY RequestKept DEF SystemInv, SystemTypeOK
<1>2. IsRequest(h)' <=> IsRequest(h)
  BY DEF CallFixed, IsRequest
<1> QED
  BY <1>1, <1>2 DEF FormInv, CallFixed

(* What a call was made with.                                              *)
LEMMA CallFacts ==
  ASSUME SystemInv, NEW h \in Handlers, Called(h)
  PROVE  /\ calls[h].session \in sessions /\ calls[h].session \in Session
         /\ calls[h].session.code \in DOMAIN offers
         /\ ~IsRequest(h) => /\ req[h] \in TokenRequests
                             /\ req[h].code = calls[h].session.code
         /\ IsRequest(h) =>
              /\ req[h] \in CredentialRequests
              /\ req[h].token = calls[h].session.token
              /\ req[h].token # Empty =>
                   /\ req[h].token \in DOMAIN records
                   /\ records[req[h].token].configs = calls[h].session.configs
<1>1. CallInv(h) /\ calls[h].session \in sessions
  BY DEF SystemInv, SessionInv, CallInv
<1>2. calls[h].session \in Session /\ calls[h].session.code \in DOMAIN offers
  BY <1>1 DEF SystemInv, SystemTypeOK, SessionInv, HeldInv
<1>3. calls[h].session.token # Empty =>
        /\ calls[h].session.token \in DOMAIN records
        /\ records[calls[h].session.token].configs = calls[h].session.configs
  BY <1>1, SessionGrant
<1> QED
  BY <1>1, <1>2, <1>3 DEF CallInv

(* Time only advances.                                                     *)
LEMMA TimeAdvances ==
  ASSUME TypeOK, [Next]_vars
  PROVE  now \in Nat /\ now' \in Nat /\ now' >= now
<1>1. now \in Nat
  BY DEF TypeOK
<1>2. CASE \E h \in Handlers : HandleToken(h) \/ HandleCredential(h)
  BY <1>1, <1>2, OneMoves
<1>3. CASE Tick
  BY <1>1, <1>3 DEF Tick
<1>4. CASE UNCHANGED now
  BY <1>1, <1>4
<1> QED
  BY <1>2, <1>3, <1>4 DEF Next, NewOffer, Receive, vars

(* The cause of a refusal stays one: a PIN stays wrong, what has expired   *)
(* stays expired, a used code stays used.                                  *)
LEMMA CauseKept ==
  ASSUME SystemInv, CauseInv, [Next]_vars,
         NEW h \in Handlers, Called(h), CallFixed(h), Answered(h)
  PROVE  CallCause(h)'
<1>1. TypeOK /\ RightsKept /\ FormInv(h) /\ CallCause(h)
  BY InvStep DEF SystemInv, IssuerInv, CauseInv
<1>2. /\ UNCHANGED <<req[h], local[h], reply[h]>>
      /\ IsRequest(h)' <=> IsRequest(h)
  BY <1>1, SettledKept, FormKept DEF SystemInv, IssuerInv, TakerInv
<1>3. now \in Nat /\ now' \in Nat /\ now' >= now
  BY <1>1, TimeAdvances
<1>4. ASSUME IsRequest(h), RequestCause(h) PROVE RequestCause(h)'
  <2>1. req[h].token # Empty => records'[req[h].token].expiresAt
                                  = records[req[h].token].expiresAt
    BY <1>1, <1>4, CallFacts DEF RightsKept
  <2>2. req[h].token # Empty => records[req[h].token].expiresAt \in Nat
    BY <1>1, <1>4, CallFacts DEF TypeOK, IsMap, AccessTokenRecord
  <2>3. req[h].token # Empty /\ now > records[req[h].token].expiresAt
          => now' > records'[req[h].token].expiresAt
    BY <1>3, <2>1, <2>2
  <2> QED
    BY <1>2, <1>4, <2>3 DEF RequestCause, CallFixed
<1>5. ASSUME ~IsRequest(h), RedeemCause(h) PROVE RedeemCause(h)'
  <2>1. PICK code, offer : code = req[h].code /\ offer = offers[code].offer
    OBVIOUS
  <2>2. /\ code \in DOMAIN offers /\ offers'[code].offer = offer
        /\ offers[code].used => offers'[code].used
    BY <1>1, <1>5, <2>1, CallFacts DEF RightsKept
  <2>3. offer.expiresAt \in Nat
    BY <1>1, <2>1, <2>2 DEF TypeOK, IsMap, OfferEntry, Offer
  <2>4. now > offer.expiresAt => now' > offer.expiresAt
    BY <1>3, <2>3
  <2>5. PinGiven(h, offer)' <=> PinGiven(h, offer)
    BY <1>2 DEF PinGiven
  <2> QED
    BY <1>2, <1>5, <2>1, <2>2, <2>4, <2>5 DEF RedeemCause
<1> QED
  BY <1>1, <1>2, <1>4, <1>5 DEF CallCause, CallFixed, Answered

(* Only its own handler answers a request.                                 *)
LEMMA OwnAnswer ==
  ASSUME IssuerInv, [Next]_vars, NEW h \in Handlers, ~Answered(h), Answered(h)'
  PROVE  (HandleToken(h) \/ HandleCredential(h)) /\ pc[h] # "done" /\ pc'[h] = "done"
<1>1. TypeOK /\ IssuerInv'
  BY InvStep DEF IssuerInv
<1>2. CASE \E g \in Handlers : HandleToken(g) \/ HandleCredential(g)
  BY <1>1, <1>2, OneMoves DEF IssuerInv, TakerInv, Answered
<1>3. CASE UNCHANGED reply
  BY <1>3 DEF Answered
<1> QED
  BY <1>1, <1>2, <1>3 DEF Next, Tick, NewOffer, Receive, vars, IssuerInv, TakerInv

(* handleCredential's steps start where it has been.                       *)
LEMMA CredentialPlaces ==
  ASSUME NEW h \in Handlers, HandleCredential(h)
  PROVE  pc[h] \in {"lookup", "expiry", "nonce", "issue", "rotate", "unlock"}
<1>1. CASE RejectToken(h) \/ RejectBody(h) \/ RejectConfig(h) \/ LookupToken(h)
  BY <1>1 DEF RejectToken, RejectBody, RejectConfig, LookupToken
<1>2. CASE CheckNonceExpiry(h) \/ CheckProof(h)
  BY <1>2 DEF CheckNonceExpiry, CheckProof
<1>3. CASE IssueCredential(h) \/ FactoryFails(h)
  BY <1>3 DEF IssueCredential, FactoryFails
<1>4. CASE BeginRotate(h) \/ EndRotate(h) \/ RotateFails(h)
  BY <1>4 DEF BeginRotate, EndRotate, RotateFails
<1> QED
  BY <1>1, <1>2, <1>3, <1>4 DEF HandleCredential

(* handleToken's do too.                                                   *)
LEMMA TokenPlaces ==
  ASSUME NEW h \in Handlers, HandleToken(h)
  PROVE  pc[h] \in {"consume", "grant"}
BY DEF HandleToken, RejectTokenRequest, RefuseCode, ConsumeFails, ConsumeOffer,
       GrantToken, GrantFails

(* A redemption is answered with an error.                                 *)
LEMMA RedeemFails ==
  ASSUME SystemInv, CauseInv, [Next]_vars, NEW h \in Handlers, Called(h), ~IsRequest(h),
         ~Answered(h), Answered(h)', reply'[h].error # Empty
  PROVE  RedeemCause(h)'
<1>1. TypeOK /\ TakerInv(h) /\ FormInv(h) /\ UNCHANGED req[h] /\ RightsKept
  BY RequestKept, InvStep DEF SystemInv, SystemTypeOK, IssuerInv, CauseInv
<1>2. PICK code, offer : code = req[h].code /\ offer = offers[code].offer
  OBVIOUS
<1>3. /\ req[h] \in TokenRequests /\ WellFormed(req[h])
      /\ code \in DOMAIN offers /\ code # Empty
  <2>1. PICK pin \in CallerPins : req[h] = TokenForm(calls[h].session.code, pin)
    BY <1>1 DEF FormInv
  <2>2. calls[h].session.code \in DOMAIN offers /\ req[h] \in TokenRequests
    BY CallFacts
  <2>3. calls[h].session.code # Empty
    BY <1>1, <2>2, EmptyAssumption DEF TypeOK, IsMap
  <2> QED
    BY <1>2, <2>1, <2>2, <2>3 DEF TokenForm, WellFormed
<1>4. offers'[code].offer = offer
  BY <1>1, <1>2, <1>3 DEF RightsKept
<1>5. HandleToken(h) /\ pc'[h] = "done"
  <2>1. pc[h] \notin {"lookup", "expiry", "nonce", "issue", "rotate", "unlock"}
    BY <1>1, <1>3, Disjoint DEF TypeOK, PlaceOK
  <2>2. ~HandleCredential(h)
    BY <2>1, CredentialPlaces
  <2> QED
    BY <2>2, OwnAnswer DEF SystemInv
<1>6. CASE ConsumeFails(h) \/ GrantFails(h)
  <2>1. reply'[h].error = "server_error" /\ Faults \cap {"rand", "store"} # {}
    BY <1>1, <1>6 DEF ConsumeFails, GrantFails, Fail, Answer, TypeOK
  <2> QED
    BY <2>1 DEF RedeemCause
<1>7. CASE RefuseCode(h)
  <2>1. /\ reply'[h].error = "invalid_grant" /\ UNCHANGED <<offers, local, now>>
        /\ pc[h] = "consume"
    BY <1>1, <1>7 DEF RefuseCode, Fail, Answer, TypeOK
  <2>2. offers[code].used \/ now > offer.expiresAt
    BY <1>2, <1>3, <1>7 DEF RefuseCode, ConsumeResult
  <2>3. local[h].offer = Empty
    BY <1>1, <2>1 DEF TakerInv
  <2> QED
    BY <1>1, <1>2, <1>4, <2>1, <2>2, <2>3 DEF RedeemCause
<1>8. CASE ConsumeOffer(h)
  <2>1. Fail(h, "invalid_grant") /\ ~PinMatches(h)
    BY <1>1, <1>5, <1>8 DEF ConsumeOffer, Goto, TypeOK
  <2>2. reply'[h].error = "invalid_grant"
    BY <1>1, <2>1 DEF Fail, Answer, TypeOK
  <2>3. ~PinGiven(h, offer)'
    BY <1>1, <1>2, <2>1 DEF PinMatches, PinGiven
  <2> QED
    BY <1>1, <1>2, <1>4, <2>2, <2>3 DEF RedeemCause
<1>9. CASE GrantToken(h)
  <2>1. reply'[h].error = Empty
    <3>1. PICK token \in Tokens, nonce \in FreshNonces : Grants(h, token, nonce)
      BY <1>9, GrantEffect DEF SystemInv
    <3> QED
      BY <3>1 DEF Grants
  <2> QED
    BY <2>1
<1> QED
  BY <1>3, <1>5, <1>6, <1>7, <1>8, <1>9 DEF HandleToken, RejectTokenRequest

(* A credential request without a proof is answered with an error.         *)
LEMMA RequestFails ==
  ASSUME SystemInv, CauseInv, [Next]_vars, NEW h \in Handlers, Called(h), IsRequest(h),
         CallFixed(h), calls[h].signer = Empty,
         ~Answered(h), Answered(h)', reply'[h].error # Empty
  PROVE  RequestCause(h)'
<1> DEFINE t == req[h].token
           config == calls[h].config
           session == calls[h].session
<1>1. /\ TypeOK /\ TakerInv(h) /\ FormInv(h) /\ UNCHANGED req[h]
      /\ pc[h] \in PCs /\ pc \in [Handlers -> PCs]
      /\ reply \in [Handlers -> Optional(Reply)] /\ local \in [Handlers -> Locals]
  BY RequestKept DEF SystemInv, SystemTypeOK, IssuerInv, CauseInv, TypeOK
<1>2. /\ req[h] \in CredentialRequests
      /\ t # Empty => t \in DOMAIN records /\ records[t].configs = session.configs
      /\ session \in sessions /\ session.code \in DOMAIN offers
  BY CallFacts
<1>3. /\ req[h].decodes /\ req[h].config = config /\ config # Empty
      /\ req[h].proofs = Empty /\ req[h].proof = Empty
  BY <1>1 DEF FormInv, CredentialBody, IsRequest
<1>4. UNCHANGED <<session, config>>
  BY DEF CallFixed
<1>5. session.configs \subseteq DOMAIN Supported
  BY <1>2 DEF SystemInv, SessionInv, HeldInv, CauseInv, SpenderInv
<1>6. Empty \notin Tokens /\ DOMAIN records \subseteq Tokens
  BY <1>1, EmptyAssumption DEF TypeOK, IsMap
<1>7. HandleCredential(h) /\ pc'[h] = "done" /\ pc[h] # "done"
  <2>1. pc[h] \notin {"consume", "grant"}
    BY <1>1, <1>2, Disjoint DEF TypeOK, PlaceOK
  <2>2. ~HandleToken(h)
    BY <2>1, TokenPlaces
  <2> QED
    BY <2>2, OwnAnswer DEF SystemInv
<1>8. CASE RejectToken(h)
  <2>1. reply'[h].error = "invalid_token" /\ UNCHANGED <<records, now>>
    BY <1>1, <1>8 DEF RejectToken, Fail, Answer
  <2>2. "store" \in Faults \/ t \notin DOMAIN records \/ ~(now <= records[t].expiresAt)
    BY <1>8 DEF RejectToken, Found, CanGet
  <2>3. t \in DOMAIN records /\ ~(now <= records[t].expiresAt) => now > records[t].expiresAt
    BY <1>1 DEF TypeOK, IsMap, AccessTokenRecord
  <2>4. t = Empty \/ "store" \in Faults \/ now > records[t].expiresAt
    BY <1>2, <2>2, <2>3
  <2> QED
    BY <1>1, <2>1, <2>4 DEF RequestCause
<1>9. CASE RejectBody(h)
  BY <1>3, <1>9 DEF RejectBody
<1>10. CASE RejectConfig(h)
  <2>1. reply'[h].error = "unsupported_credential_type"
    BY <1>1, <1>10 DEF RejectConfig, Fail, Answer
  <2>2. t \in DOMAIN records /\ Empty \in ResolveConfigID(req[h], records[t])
    BY <1>10 DEF RejectConfig, Found, CanGet
  <2>3. config \notin records[t].configs \cap DOMAIN Supported
    BY <1>3, <2>2 DEF ResolveConfigID, Candidates
  <2>4. config \notin session.configs
    BY <1>2, <1>5, <1>6, <2>2, <2>3
  <2> QED
    BY <1>4, <2>1, <2>4 DEF RequestCause
<1>11. CASE LookupToken(h)
  <2>1. RequireProof /\ Fail(h, "invalid_proof")
    BY <1>1, <1>7, <1>11 DEF LookupToken, Goto
  <2>2. reply'[h].error = "invalid_proof"
    BY <1>1, <2>1 DEF Fail, Answer
  <2> QED
    BY <2>1, <2>2 DEF RequestCause
<1>12. CASE CheckNonceExpiry(h) \/ CheckProof(h)
  BY <1>1, <1>3, <1>12 DEF CheckNonceExpiry, CheckProof, TypeOK, PlaceOK, ProofOf
<1>13. CASE IssueCredential(h) \/ BeginRotate(h)
  BY <1>1, <1>7, <1>13 DEF IssueCredential, BeginRotate, Goto
<1>14. CASE FactoryFails(h)
  <2>1. reply'[h].error = "server_error" /\ "factory" \in Faults
    BY <1>1, <1>14 DEF FactoryFails, Fail, Answer
  <2> QED
    BY <2>1 DEF RequestCause
<1>15. CASE EndRotate(h) \/ RotateFails(h)
  <2>1. reply'[h].error = Empty
    BY <1>1, <1>15 DEF EndRotate, RotateFails, AnswerCredential, Answer
  <2> QED
    BY <2>1
<1> QED
  BY <1>7, <1>8, <1>9, <1>10, <1>11, <1>12, <1>13, <1>14, <1>15 DEF HandleCredential

(* Why h is refused, at every step.                                        *)
LEMMA CallCauseStep ==
  ASSUME SystemInv, CauseInv, SystemTypeOK', [SystemNext]_systemVars, [Next]_vars,
         NEW h \in Handlers
  PROVE  FormInv(h)' /\ CallCause(h)'
<1>1. /\ CallFixed(h)
      /\ ~Called(h) => FormInv(h)' /\ (Called(h)' => ~Answered(h)')
  BY CallMade
<1>2. CASE ~Called(h)
  BY <1>1, <1>2 DEF CallCause
<1>3. CASE Called(h)
  <2>1. (IsRequest(h)' <=> IsRequest(h)) /\ FormInv(h)'
    BY <1>1, <1>3, FormKept DEF CauseInv
  <2>2. CASE Answered(h)
    BY <1>1, <1>3, <2>1, <2>2, CauseKept
  <2>3. CASE ~Answered(h)
    <3>1. calls[h].signer = Empty /\ Answered(h)' /\ reply'[h].error # Empty
            /\ IsRequest(h) => RequestCause(h)'
      BY <1>1, <1>3, <2>3, RequestFails
    <3>2. Answered(h)' /\ reply'[h].error # Empty /\ ~IsRequest(h) => RedeemCause(h)'
      BY <1>3, <2>3, RedeemFails
    <3> QED
      BY <1>1, <1>3, <2>1, <3>1, <3>2 DEF CallCause, CallFixed
  <2> QED
    BY <2>2, <2>3
<1> QED
  BY <1>2, <1>3

(* Only handleToken, and only Consume, makes a code a used one.            *)
LEMMA NewlyUsed ==
  ASSUME TypeOK, [Next]_vars, NEW c \in DOMAIN offers', offers'[c].used,
         c \in DOMAIN offers => ~offers[c].used
  PROVE  \E h \in Handlers : /\ pc[h] = "consume" /\ req[h].code = c
                             /\ ConsumeOffer(h) \/ ConsumeFails(h)
<1>1. offers' # offers
  OBVIOUS
<1>2. ASSUME NEW h \in Handlers, Consume(req[h].code, now), pc[h] = "consume"
      PROVE  req[h].code = c
  BY <1>2 DEF Consume, ConsumeResult, TypeOK, IsMap
<1>3. ASSUME NEW cfg \in OfferConfigs, NEW code \in Codes, NewOffer(cfg, code)
      PROVE  FALSE
  BY <1>3 DEF NewOffer, SaveOffer, Put
<1>4. ASSUME NEW h \in Handlers, HandleToken(h)
      PROVE  /\ pc[h] = "consume" /\ req[h].code = c
             /\ ConsumeOffer(h) \/ ConsumeFails(h)
  <2>1. ConsumeOffer(h) \/ ConsumeFails(h)
    BY <1>1, <1>4 DEF HandleToken, RejectTokenRequest, RefuseCode, GrantToken, GrantFails
  <2> QED
    BY <1>1, <1>2, <2>1 DEF ConsumeOffer, ConsumeFails
<1>5. ASSUME NEW h \in Handlers, HandleCredential(h) PROVE FALSE
  <2>1. CASE RejectToken(h) \/ RejectBody(h) \/ RejectConfig(h) \/ LookupToken(h)
    BY <1>1, <2>1 DEF RejectToken, RejectBody, RejectConfig, LookupToken
  <2>2. CASE CheckNonceExpiry(h) \/ CheckProof(h) \/ IssueCredential(h) \/ FactoryFails(h)
    BY <1>1, <2>2 DEF CheckNonceExpiry, CheckProof, RejectProof, IssueCredential, FactoryFails
  <2>3. CASE BeginRotate(h) \/ EndRotate(h) \/ RotateFails(h)
    BY <1>1, <2>3 DEF BeginRotate, EndRotate, RotateFails
  <2> QED
    BY <1>5, <2>1, <2>2, <2>3 DEF HandleCredential
<1> QED
  BY <1>1, <1>3, <1>4, <1>5 DEF Next, Tick, Receive, vars

(* A used code goes on having a spender, and a step that uses one makes    *)
(* the handler that takes it, or fails on the way, its spender.            *)
LEMMA SpenderStep ==
  ASSUME SystemInv, CauseInv, SystemTypeOK', [SystemNext]_systemVars, [Next]_vars,
         NEW c \in DOMAIN offers'
  PROVE  SpenderInv(c)'
<1> DEFINE Spends(h) == /\ Called(h) /\ ~IsRequest(h) /\ req[h].code = c
                        /\ \/ local[h].offer = c
                           \/ Answered(h) /\ reply[h].error = "server_error"
<1>1. /\ TypeOK /\ RightsKept /\ IssuerInv
      /\ c \in DOMAIN offers => SpenderInv(c)
  BY InvStep DEF SystemInv, IssuerInv, CauseInv
<1>2. offers'[c].offer.configs \subseteq DOMAIN Supported
  <2>1. CASE c \in DOMAIN offers
    BY <1>1, <2>1 DEF RightsKept, SpenderInv
  <2>2. CASE c \notin DOMAIN offers
    <3>1. CASE \E cfg \in OfferConfigs, code \in Codes : NewOffer(cfg, code)
      <4>1. PICK cfg \in OfferConfigs, code \in Codes : NewOffer(cfg, code)
        BY <3>1
      <4>2. c = code /\ offers'[c].offer.configs = cfg.configs
        BY <2>2, <4>1 DEF NewOffer, SaveOffer, Put
      <4> QED
        BY <4>1, <4>2 DEF NewOffer, ValidConfig
    <3>2. CASE \E h \in Handlers : Consume(req[h].code, now)
      BY <2>2, <3>2, <1>1 DEF Consume, TypeOK, IsMap
    <3>3. CASE UNCHANGED offers
      BY <2>2, <3>3
    <3>4. ASSUME NEW h \in Handlers, HandleCredential(h) PROVE UNCHANGED offers
      <4>1. CASE RejectToken(h) \/ RejectBody(h) \/ RejectConfig(h) \/ LookupToken(h)
        BY <4>1 DEF RejectToken, RejectBody, RejectConfig, LookupToken
      <4>2. CASE CheckNonceExpiry(h) \/ CheckProof(h) \/ IssueCredential(h) \/ FactoryFails(h)
        BY <4>2 DEF CheckNonceExpiry, CheckProof, RejectProof, IssueCredential, FactoryFails
      <4>3. CASE BeginRotate(h) \/ EndRotate(h) \/ RotateFails(h)
        BY <4>3 DEF BeginRotate, EndRotate, RotateFails
      <4> QED
        BY <3>4, <4>1, <4>2, <4>3 DEF HandleCredential
    <3>5. ASSUME NEW h \in Handlers, HandleToken(h)
          PROVE  UNCHANGED offers \/ Consume(req[h].code, now)
      BY <3>5 DEF HandleToken, RejectTokenRequest, RefuseCode, ConsumeFails, ConsumeOffer,
                  GrantToken, GrantFails
    <3> QED
      BY <3>1, <3>2, <3>3, <3>4, <3>5 DEF Next, Tick, Receive, vars
  <2> QED
    BY <2>1, <2>2
<1>3. ASSUME NEW h \in Handlers, Called(h), ~IsRequest(h), req[h].code = c
      PROVE  Called(h)' /\ ~IsRequest(h)' /\ req'[h].code = c
  BY <1>1, <1>3, CallMade, FormKept DEF CauseInv, CallFixed
<1>4. ASSUME c \in DOMAIN offers, offers[c].used PROVE \E h \in Handlers : Spends(h)'
  <2>1. PICK h \in Handlers : Spends(h)
    BY <1>1, <1>4 DEF SpenderInv
  <2>2. CASE Answered(h)
    BY <1>1, <1>3, <2>1, <2>2, SettledKept DEF IssuerInv, TakerInv, Answered
  <2>3. CASE ~Answered(h)
    <3>1. local'[h].offer = c
      BY <1>1, <2>1, <2>3, OfferTaken
    <3> QED
      BY <1>3, <2>1, <3>1
  <2> QED
    BY <2>2, <2>3
<1>5. ASSUME offers'[c].used, ~(c \in DOMAIN offers /\ offers[c].used)
      PROVE  \E h \in Handlers : Spends(h)'
  <2>1. PICK h \in Handlers : /\ pc[h] = "consume" /\ req[h].code = c
                              /\ ConsumeOffer(h) \/ ConsumeFails(h)
    BY <1>1, <1>5, NewlyUsed
  <2>2. Called(h) /\ ~IsRequest(h)
    <3>1. Called(h)
      BY <2>1 DEF SystemInv, SystemTypeOK
    <3>2. req[h] \notin CredentialRequests
      BY <1>1, <2>1, Disjoint DEF TypeOK, PlaceOK
    <3> QED
      BY <3>1, <3>2, CallFacts
  <2>3. local'[h].offer = c \/ (Answered(h)' /\ reply'[h].error = "server_error")
    <3>1. CASE ConsumeOffer(h)
      BY <1>1, <2>1, <3>1 DEF ConsumeOffer, TypeOK, Locals
    <3>2. CASE ConsumeFails(h)
      <4>1. Fail(h, "server_error")
        BY <3>2 DEF ConsumeFails
      <4>2. Answered(h)'
        BY <1>1, <4>1, FailReplied DEF ErrorCodes
      <4>3. reply'[h].error = "server_error"
        BY <1>1, <4>1 DEF Fail, Answer, TypeOK
      <4> QED
        BY <4>2, <4>3
    <3> QED
      BY <2>1, <3>1, <3>2
  <2> QED
    BY <1>3, <2>1, <2>2, <2>3
<1> QED
  BY <1>2, <1>4, <1>5 DEF SpenderInv

(* A token that is sold lives for AccessTokenTTL from the start at least.  *)
LEMMA ExpiryStep ==
  ASSUME IssuerInv, [Next]_vars, NEW t \in DOMAIN records',
         \A u \in DOMAIN records : records[u].expiresAt >= AccessTokenTTL
  PROVE  records'[t].expiresAt >= AccessTokenTTL
<1>1. CASE t \in DOMAIN records
  <2>1. RightsKept
    BY InvStep
  <2> QED
    BY <1>1, <2>1 DEF RightsKept
<1>2. CASE t \notin DOMAIN records
  <2>1. now \in Nat
    BY DEF IssuerInv, TypeOK
  <2>2. records'[t].expiresAt = now + AccessTokenTTL
    BY <1>2, NewRecord
  <2> QED
    BY <2>1, <2>2, IssuerAssumption
<1> QED
  BY <1>1, <1>2

(* Every failed call, every used code and every offer goes on having the   *)
(* cause, the spender and the configurations that CauseInv says.           *)
THEOREM CauseInvariantHolds == SystemSpec => []CauseInv
<1>1. SystemInit => CauseInv
  BY DEF SystemInit, Init, OfferStoreInit, TokenStoreInit, CauseInv, FormInv, CallCause,
         Called
<1>2. ASSUME SystemInv, CauseInv, SystemTypeOK', [SystemNext]_systemVars
      PROVE  CauseInv'
  <2>1. [Next]_vars
    BY <1>2, SystemStep DEF SystemInv
  <2>2. \A c \in DOMAIN offers' : SpenderInv(c)'
    BY <1>2, <2>1, SpenderStep
  <2>3. \A t \in DOMAIN records' : records'[t].expiresAt >= AccessTokenTTL
    BY <1>2, <2>1, ExpiryStep DEF SystemInv, CauseInv
  <2>4. \A h \in Handlers : FormInv(h)' /\ CallCause(h)'
    BY <1>2, <2>1, CallCauseStep
  <2> QED
    BY <2>2, <2>3, <2>4 DEF CauseInv
<1>3. SystemInv /\ CauseInv /\ SystemTypeOK' /\ [SystemNext]_systemVars => CauseInv'
  BY <1>2
<1>4. SystemSpec => []SystemTypeOK
  BY SystemTypeCorrect
<1> QED
  BY <1>1, <1>3, <1>4, SystemInvHolds, PTL DEF SystemSpec

(* A call is answered with an error only for a cause: the caller's, that   *)
(* of another caller, time or a failure (client.go:160-314,                *)
(* issuer.go:206-349).                                                     *)
THEOREM CallsFailForCauseHolds == SystemSpec => []CallsFailForCause
<1>1. CauseInv => CallsFailForCause
  BY DEF CauseInv, CallsFailForCause
<1> QED
  BY <1>1, CauseInvariantHolds, PTL
=============================================================================
