---------------------------- MODULE NonceProofs -----------------------------
(***************************************************************************)
(* What is proved about nonces: NonceInv is inductive, and an accepted     *)
(* proof carries a live nonce, client and server stay in step, and no      *)
(* proof is refused without a cause, for any number of requests that       *)
(* overlap in any way.                                                     *)
(*                                                                         *)
(* Of all the actions only five do anything to nonces: RejectProof and     *)
(* IssueCredential draw one, GrantToken draws and stores one, BeginRotate  *)
(* and EndRotate store one.  The first lemmas say what each of them does   *)
(* and that the others do nothing; every proof after that goes through     *)
(* these six cases.                                                        *)
(***************************************************************************)
EXTENDS InvariantProofs

-----------------------------------------------------------------------------
(* What a step does to nonces. *)

(* An action that neither draws nor stores a nonce. *)
LEMMA IdleEffect ==
  ASSUME TypeOK, NEW h \in Handlers, HandleToken(h) \/ HandleCredential(h),
         ~GrantToken(h), ~IssueCredential(h), ~BeginRotate(h), ~EndRotate(h),
         ~(pc[h] \in {"expiry", "nonce"} /\ RejectProof(h))
  PROVE  /\ UNCHANGED <<records, tokenMu, handed, local[h].nonce>>
         /\ pc[h] # "unlock" /\ pc'[h] \notin {"rotate", "unlock"}
         /\ pc[h] \in {"rotate", "done"} => pc'[h] = "done"
<1>1. UNCHANGED <<records, tokenMu, handed>>
  BY DEF HandleToken, RejectTokenRequest, RefuseCode, ConsumeFails, ConsumeOffer,
         GrantFails, HandleCredential, RejectToken, RejectBody, RejectConfig,
         LookupToken, CheckNonceExpiry, CheckProof, FactoryFails, RotateFails
<1>2. \E p : /\ Goto(h, p) /\ p \notin {"rotate", "unlock"} /\ pc[h] # "unlock"
             /\ pc[h] \in {"rotate", "done"} => p = "done"
  BY DEF HandleToken, RejectTokenRequest, RefuseCode, ConsumeFails, ConsumeOffer,
         GrantFails, HandleCredential, RejectToken, RejectBody, RejectConfig,
         LookupToken, CheckNonceExpiry, CheckProof, FactoryFails, RotateFails,
         AnswerCredential, Fail, Answer
<1>3. pc[h] # "unlock" /\ pc'[h] \notin {"rotate", "unlock"}
      /\ (pc[h] \in {"rotate", "done"} => pc'[h] = "done")
  BY <1>2 DEF Goto, TypeOK
<1>4. local'[h].nonce = local[h].nonce
  <2>1. local[h] \in Locals
    BY DEF TypeOK
  <2>2. CASE ConsumeOffer(h)
    BY <2>1, <2>2 DEF ConsumeOffer, TypeOK, Locals
  <2>3. CASE LookupToken(h)
    BY <2>1, <2>3 DEF LookupToken, TypeOK, Locals
  <2>4. CASE CheckProof(h)
    BY <2>1, <2>4 DEF CheckProof, TypeOK, Locals
  <2>5. CASE UNCHANGED local
    BY <2>5
  <2> QED
    BY <2>2, <2>3, <2>4, <2>5
       DEF HandleToken, RejectTokenRequest, RefuseCode, ConsumeFails, GrantFails,
           HandleCredential, RejectToken, RejectBody, RejectConfig, CheckNonceExpiry,
           FactoryFails, RotateFails
<1> QED
  BY <1>1, <1>3, <1>4

(* A nonce is drawn and kept in the handler. *)
LEMMA DrawEffect ==
  ASSUME TypeOK, NEW h \in Handlers,
         (pc[h] \in {"expiry", "nonce"} /\ RejectProof(h)) \/ IssueCredential(h)
  PROVE  /\ UNCHANGED <<records, tokenMu, handed>>
         /\ local'[h].nonce \in NonceOrEmpty
         /\ pc[h] \notin {"rotate", "unlock", "done"} /\ pc'[h] \in {"rotate", "done"}
         /\ pc'[h] = "rotate" => local'[h].nonceExpiresAt = now + CNonceTTL
<1>1. local[h] \in Locals
  BY DEF TypeOK
<1>2. CASE pc[h] \in {"expiry", "nonce"} /\ RejectProof(h)
  <2>1. PICK nonce \in NonceOrEmpty :
          /\ local' = [local EXCEPT ![h].nonce = nonce]
          /\ Goto(h, "done")
          /\ UNCHANGED <<records, tokenMu, handed>>
    BY <1>2 DEF RejectProof, Answer
  <2> QED
    BY <1>1, <1>2, <2>1 DEF TypeOK, Locals, Goto
<1>3. CASE IssueCredential(h)
  <2> DEFINE cred == [config |-> local[h].config,
                      subject |-> records[req[h].token].subject,
                      key |-> local[h].key]
             until == now + CNonceTTL
  <2>1. PICK nonce \in NonceOrEmpty :
          /\ local' = [local EXCEPT ![h].credential = cred, ![h].nonce = nonce,
                                    ![h].nonceExpiresAt = until]
          /\ pc[h] = "issue" /\ Goto(h, "rotate")
          /\ UNCHANGED <<records, tokenMu, handed>>
    BY <1>3 DEF IssueCredential
  <2> HIDE DEF cred
  <2> QED
    BY <1>1, <2>1 DEF TypeOK, Locals, Goto
<1> QED
  BY <1>2, <1>3

(* A handler that draws a nonce, for a retry or to rotate, moves alone.    *)
LEMMA DrawMoves ==
  ASSUME TypeOK, NEW h \in Handlers,
         (pc[h] \in {"expiry", "nonce"} /\ RejectProof(h)) \/ IssueCredential(h)
  PROVE  UNCHANGED req /\ \A g \in Handlers \ {h} : UNCHANGED <<pc[g], local[g]>>
  BY DEF RejectProof, IssueCredential, Answer, Goto, TypeOK

(* A nonce is drawn and stored in a new record. *)
Grants(h, token, nonce) ==
  /\ pc[h] = "grant" /\ pc'[h] = "done"
  /\ tokenMu = Empty /\ tokenMu' = Empty
  /\ token \notin DOMAIN records /\ DOMAIN records' = DOMAIN records \cup {token}
  /\ records'[token].cNonce = nonce
  /\ records'[token].cNonceExpiresAt = now + CNonceTTL
  /\ records'[token].expiresAt = now + AccessTokenTTL
  /\ records'[token].offer = local'[h].offer
  /\ \A t \in DOMAIN records : records'[t] = records[t]
  /\ handed'[token] = handed[token] \cup {nonce}
  /\ \A t \in Tokens \ {token} : handed'[t] = handed[t]
  /\ local'[h].nonce = nonce
  /\ reply'[h] = [error |-> Empty, token |-> token, cNonce |-> nonce,
                  credential |-> Empty]

(* GrantToken grants a token with a nonce nobody has drawn.                *)
LEMMA GrantEffect ==
  ASSUME IssuerInv, NEW h \in Handlers, GrantToken(h)
  PROVE  \E token \in Tokens, nonce \in FreshNonces : Grants(h, token, nonce)
<1>1. TypeOK
  BY DEF IssuerInv
<1>2. PICK token \in FreshTokens, nonce \in FreshNonces :
        /\ pc[h] = "grant"
        /\ SaveToken(token, TokenRecord(local[h].offer, nonce))
        /\ local' = [local EXCEPT ![h].token = token, ![h].nonce = nonce]
        /\ handed' = [handed EXCEPT ![token] = @ \cup {nonce}]
        /\ Answer(h, [error |-> Empty, token |-> token, cNonce |-> nonce,
                      credential |-> Empty])
  BY DEF GrantToken
<1>3. token \in Tokens /\ token \notin DOMAIN records
  BY FreshIsNew
<1>4. /\ tokenMu = Empty /\ tokenMu' = Empty
      /\ records' = Put(records, token, TokenRecord(local[h].offer, nonce))
  BY <1>2 DEF SaveToken
<1>5. /\ DOMAIN records' = DOMAIN records \cup {token}
      /\ records'[token] = TokenRecord(local[h].offer, nonce)
      /\ \A t \in DOMAIN records : records'[t] = records[t]
  BY <1>3, <1>4 DEF Put
<1>6. /\ records'[token].cNonce = nonce
      /\ records'[token].cNonceExpiresAt = now + CNonceTTL
      /\ records'[token].expiresAt = now + AccessTokenTTL
      /\ records'[token].offer = local[h].offer
  BY <1>5 DEF TokenRecord
<1>7. /\ handed'[token] = handed[token] \cup {nonce}
      /\ \A t \in Tokens \ {token} : handed'[t] = handed[t]
  BY <1>1, <1>2, <1>3 DEF TypeOK
<1>8. local'[h].nonce = nonce /\ local'[h].offer = local[h].offer
  BY <1>1, <1>2 DEF TypeOK, Locals
<1>9. /\ pc'[h] = "done"
      /\ reply'[h] = [error |-> Empty, token |-> token, cNonce |-> nonce,
                      credential |-> Empty]
  BY <1>1, <1>2 DEF TypeOK, Answer, Goto
<1> QED
  BY <1>2, <1>3, <1>4, <1>5, <1>6, <1>7, <1>8, <1>9 DEF Grants

(* A nonce becomes the token's: the mutex is taken, one field is written. *)
LEMMA BeginEffect ==
  ASSUME TypeOK, NEW h \in Handlers, BeginRotate(h), NEW t, t = req[h].token
  PROVE  /\ t \in Tokens /\ t \in DOMAIN records /\ DOMAIN records' = DOMAIN records
         /\ pc[h] = "rotate" /\ pc'[h] = "unlock"
         /\ tokenMu = Empty /\ tokenMu' = h
         /\ records'[t].cNonce \in {records[t].cNonce, local[h].nonce}
         /\ records'[t].cNonceExpiresAt
              \in {records[t].cNonceExpiresAt, local[h].nonceExpiresAt}
         /\ \A u \in DOMAIN records \ {t} : records'[u] = records[u]
         /\ handed'[t] = handed[t] \cup {local[h].nonce}
         /\ \A u \in Tokens \ {t} : handed'[u] = handed[u]
         /\ UNCHANGED <<local, reply, stale>>
<1>1. /\ pc[h] = "rotate" /\ Goto(h, "unlock")
      /\ BeginRotateCNonce(h, t, local[h].nonce, local[h].nonceExpiresAt)
      /\ handed' = [handed EXCEPT ![t] = @ \cup {local[h].nonce}]
      /\ UNCHANGED <<local, reply, stale>>
  BY DEF BeginRotate
<1>2. t \in DOMAIN records /\ t \in Tokens
  BY <1>1 DEF TypeOK, IsMap, BeginRotateCNonce, CanGet
<1>3. records[t] \in AccessTokenRecord
  BY <1>2 DEF TypeOK, IsMap
<1>4. /\ DOMAIN records' = DOMAIN records
      /\ records'[t].cNonce \in {records[t].cNonce, local[h].nonce}
      /\ records'[t].cNonceExpiresAt
           \in {records[t].cNonceExpiresAt, local[h].nonceExpiresAt}
      /\ \A u \in DOMAIN records \ {t} : records'[u] = records[u]
  BY <1>1, <1>2, <1>3 DEF BeginRotateCNonce, AccessTokenRecord
<1> QED
  BY <1>1, <1>2, <1>4 DEF TypeOK, Goto, BeginRotateCNonce, CanGet

(* Both fields are written, the mutex is released and the client answered. *)
LEMMA EndEffect ==
  ASSUME TypeOK, NEW h \in Handlers, EndRotate(h), NEW t, t = req[h].token
  PROVE  /\ t \in Tokens /\ t \in DOMAIN records /\ DOMAIN records' = DOMAIN records
         /\ pc[h] = "unlock" /\ pc'[h] = "done"
         /\ tokenMu = h /\ tokenMu' = Empty
         /\ records'[t].cNonce = local[h].nonce
         /\ records'[t].cNonceExpiresAt = local[h].nonceExpiresAt
         /\ \A u \in DOMAIN records \ {t} : records'[u] = records[u]
         /\ reply'[h] = [error |-> Empty, token |-> Empty, cNonce |-> local[h].nonce,
                         credential |-> local[h].credential]
         /\ UNCHANGED <<local, handed, stale>>
<1>1. /\ pc[h] = "unlock" /\ AnswerCredential(h)
      /\ tokenMu = h /\ tokenMu' = Empty
      /\ records' = [records EXCEPT ![t].cNonce = local[h].nonce,
                                    ![t].cNonceExpiresAt = local[h].nonceExpiresAt]
      /\ UNCHANGED <<local, handed, stale>>
  BY DEF EndRotate, EndRotateCNonce
<1>2. t \in DOMAIN records /\ t \in Tokens
  BY <1>1 DEF TypeOK, PlaceOK, IsMap
<1>3. records[t] \in AccessTokenRecord
  BY <1>2 DEF TypeOK, IsMap
<1>4. /\ DOMAIN records' = DOMAIN records
      /\ records'[t].cNonce = local[h].nonce
      /\ records'[t].cNonceExpiresAt = local[h].nonceExpiresAt
      /\ \A u \in DOMAIN records \ {t} : records'[u] = records[u]
  BY <1>1, <1>2, <1>3 DEF AccessTokenRecord
<1>5. /\ pc'[h] = "done"
      /\ reply'[h] = [error |-> Empty, token |-> Empty, cNonce |-> local[h].nonce,
                      credential |-> local[h].credential]
  BY <1>1 DEF TypeOK, AnswerCredential, Answer, Goto
<1> QED
  BY <1>1, <1>2, <1>4, <1>5

-----------------------------------------------------------------------------
(* DrawnInv: who holds which nonce, and who holds the mutex. *)

(* What the effect lemmas leave of a handler that draws and stores nothing. *)
Idle(g) ==
  /\ local'[g].nonce = local[g].nonce
  /\ pc[g] = "unlock" => req'[g] = req[g]
  /\ \/ UNCHANGED <<pc[g], local[g]>>
     \/ /\ pc[g] # "unlock" /\ pc'[g] \notin {"rotate", "unlock"}
        /\ pc[g] \in {"rotate", "done"} => pc'[g] = "done"

(* DrawnInv survives a step that touches neither records nor nonces.       *)
LEMMA IdleDrawn ==
  ASSUME DrawnInv, UNCHANGED <<records, tokenMu, handed>>, \A g \in Handlers : Idle(g)
  PROVE  DrawnInv'
<1>1. ASSUME NEW g \in Handlers
      PROVE  /\ pc'[g] = "unlock" <=> tokenMu' = g
             /\ pc'[g] \notin {"rotate", "unlock", "done"} => local'[g].nonce = Empty
             /\ pc'[g] = "rotate" => pc[g] = "rotate"
  BY <1>1 DEF DrawnInv, Idle
<1>2. \A t \in DOMAIN records : Current(t)' = Current(t)
  BY DEF Current, Idle
<1> QED
  BY <1>1, <1>2 DEF DrawnInv, Idle

(* A fresh nonce is in no handler's hands, so it was never handed to a     *)
(* token.                                                                  *)
LEMMA FreshNonce ==
  ASSUME DrawnInv, NEW n \in FreshNonces
  PROVE  /\ n \in Nonces /\ n # Empty
         /\ \A g \in Handlers : local[g].nonce # n
         /\ \A t \in Tokens : n \notin handed[t]
  BY EmptyAssumption DEF FreshNonces, DrawnInv

(* ... a draw: the new nonce is nowhere else yet.                          *)
LEMMA DrawDrawn ==
  ASSUME DrawnInv, NEW h \in Handlers, UNCHANGED <<records, tokenMu, handed, req>>,
         \A g \in Handlers \ {h} : UNCHANGED <<pc[g], local[g]>>,
         local'[h].nonce \in NonceOrEmpty,
         pc[h] \notin {"rotate", "unlock", "done"}, pc'[h] \in {"rotate", "done"}
  PROVE  DrawnInv'
<1>1. local[h].nonce = Empty /\ tokenMu # h
  BY DEF DrawnInv
<1>2. local'[h].nonce # Empty =>
        /\ \A g \in Handlers : local[g].nonce # local'[h].nonce
        /\ \A t \in Tokens : local'[h].nonce \notin handed[t]
  BY FreshNonce DEF NonceOrEmpty
<1>3. \A t \in DOMAIN records : Current(t)' = Current(t)
  BY DEF Current
<1>4. ASSUME NEW g \in Handlers
      PROVE  /\ pc'[g] = "unlock" <=> tokenMu' = g
             /\ pc'[g] \notin {"rotate", "unlock", "done"} => local'[g].nonce = Empty
             /\ pc'[g] = "rotate" /\ local'[g].nonce # Empty =>
                  \A t \in Tokens : local'[g].nonce \notin handed'[t]
  BY <1>1, <1>2 DEF DrawnInv
<1>5. ASSUME NEW f \in Handlers, NEW g \in Handlers,
             local'[f].nonce = local'[g].nonce, local'[g].nonce # Empty
      PROVE  f = g
  BY <1>2, <1>5 DEF DrawnInv
<1>6. ASSUME NEW t \in Tokens, NEW n \in handed'[t] \ {Empty}
      PROVE  \E g \in Handlers : local'[g].nonce = n
  BY <1>1 DEF DrawnInv
<1>7. \A t \in DOMAIN records' : Current(t)' \subseteq handed'[t]
  BY <1>3 DEF DrawnInv
<1> QED
  BY <1>4, <1>5, <1>6, <1>7 DEF DrawnInv

(* ... a grant: the token and its nonce are both new.                      *)
LEMMA GrantDrawn ==
  ASSUME IssuerInv, DrawnInv, NEW h \in Handlers, GrantToken(h)
  PROVE  DrawnInv'
<1>1. /\ TypeOK /\ UNCHANGED req
      /\ \A g \in Handlers \ {h} : UNCHANGED <<pc[g], local[g]>>
  BY OneMoves DEF IssuerInv, HandleToken
<1>2. PICK token \in Tokens, nonce \in FreshNonces : Grants(h, token, nonce)
  BY GrantEffect
<1>3. /\ \A g \in Handlers : local[g].nonce # nonce
      /\ nonce # Empty
      /\ local[h].nonce = Empty
  BY <1>2, FreshNonce DEF DrawnInv, Grants
<1>4. Empty \notin Handlers /\ \A g \in Handlers : pc[g] # "unlock" /\ pc'[g] # "unlock"
  BY <1>1, <1>2, IssuerAssumption DEF DrawnInv, Grants
<1>5. ASSUME NEW g \in Handlers
      PROVE  /\ pc'[g] = "unlock" <=> tokenMu' = g
             /\ pc'[g] \notin {"rotate", "unlock", "done"} => local'[g].nonce = Empty
             /\ pc'[g] = "rotate" /\ local'[g].nonce # Empty =>
                  \A t \in Tokens : local'[g].nonce \notin handed'[t]
  BY <1>1, <1>2, <1>3, <1>4 DEF DrawnInv, Grants
<1>6. ASSUME NEW f \in Handlers, NEW g \in Handlers,
             local'[f].nonce = local'[g].nonce, local'[g].nonce # Empty
      PROVE  f = g
  BY <1>1, <1>2, <1>3, <1>6 DEF DrawnInv, Grants
<1>7. ASSUME NEW t \in Tokens, NEW n \in handed'[t] \ {Empty}
      PROVE  \E g \in Handlers : local'[g].nonce = n
  <2>1. n = nonce \/ n \in handed[t]
    BY <1>2 DEF Grants
  <2> QED
    BY <1>1, <1>2, <1>3, <2>1 DEF DrawnInv, Grants
<1>8. ASSUME NEW t \in DOMAIN records'
      PROVE  Current(t)' \subseteq handed'[t]
  <2>1. Current(t)' = {records'[t].cNonce}
    BY <1>4 DEF Current
  <2>2. t = token \/ (t \in DOMAIN records /\ t \in Tokens /\ t # token)
    BY <1>1, <1>2 DEF TypeOK, IsMap, Grants
  <2> QED
    BY <1>2, <2>1, <2>2 DEF DrawnInv, Current, Grants
<1> QED
  BY <1>5, <1>6, <1>7, <1>8 DEF DrawnInv

(* The record holds an old nonce or the new one, and both were handed out. *)
LEMMA BeginDrawn ==
  ASSUME TypeOK, DrawnInv, NEW h \in Handlers, BeginRotate(h)
  PROVE  DrawnInv'
<1> DEFINE t == req[h].token
<1>1. /\ UNCHANGED req
      /\ \A g \in Handlers \ {h} : pc'[g] = pc[g]
  BY OneMoves DEF HandleCredential
<1>2. /\ t \in DOMAIN records /\ DOMAIN records' = DOMAIN records
      /\ pc[h] = "rotate" /\ pc'[h] = "unlock"
      /\ tokenMu = Empty /\ tokenMu' = h
      /\ records'[t].cNonce \in {records[t].cNonce, local[h].nonce}
      /\ \A u \in DOMAIN records \ {t} : records'[u] = records[u]
      /\ handed'[t] = handed[t] \cup {local[h].nonce}
      /\ \A u \in Tokens \ {t} : handed'[u] = handed[u]
      /\ UNCHANGED local
  BY BeginEffect
<1> HIDE DEF t
<1>3. \A g \in Handlers : pc[g] # "unlock" /\ (pc'[g] = "unlock" <=> g = h)
  BY <1>1, <1>2, IssuerAssumption DEF DrawnInv
<1>4. ASSUME NEW g \in Handlers
      PROVE  /\ pc'[g] = "unlock" <=> tokenMu' = g
             /\ pc'[g] \notin {"rotate", "unlock", "done"} => local'[g].nonce = Empty
             /\ pc'[g] = "rotate" /\ local'[g].nonce # Empty =>
                  \A u \in Tokens : local'[g].nonce \notin handed'[u]
  <2>1. pc'[g] = "rotate" => pc[g] = "rotate" /\ g # h
    BY <1>1, <1>2
  <2> QED
    BY <1>1, <1>2, <1>3, <2>1 DEF DrawnInv
<1>5. ASSUME NEW u \in Tokens, NEW n \in handed'[u] \ {Empty}
      PROVE  \E g \in Handlers : local'[g].nonce = n
  BY <1>2 DEF DrawnInv
<1>6. ASSUME NEW u \in DOMAIN records'
      PROVE  Current(u)' \subseteq handed'[u]
  <2>1. u \in DOMAIN records /\ u \in Tokens /\ records[u].cNonce \in handed[u]
    BY <1>2 DEF TypeOK, IsMap, DrawnInv, Current
  <2>2. Current(u)' = {records'[u].cNonce} \cup IF u = t THEN {local[h].nonce} ELSE {}
    BY <1>1, <1>2, <1>3 DEF Current, t
  <2> QED
    BY <1>2, <2>1, <2>2
<1> QED
  BY <1>2, <1>4, <1>5, <1>6 DEF DrawnInv

(* ... the update of the record, under the lock its handler holds.         *)
LEMMA EndDrawn ==
  ASSUME TypeOK, DrawnInv, NEW h \in Handlers, EndRotate(h)
  PROVE  DrawnInv'
<1> DEFINE t == req[h].token
<1>1. /\ UNCHANGED req
      /\ \A g \in Handlers \ {h} : pc'[g] = pc[g]
  BY OneMoves DEF HandleCredential
<1>2. /\ t \in DOMAIN records /\ DOMAIN records' = DOMAIN records
      /\ pc[h] = "unlock" /\ pc'[h] = "done"
      /\ tokenMu = h /\ tokenMu' = Empty
      /\ records'[t].cNonce = local[h].nonce
      /\ \A u \in DOMAIN records \ {t} : records'[u] = records[u]
      /\ UNCHANGED <<local, handed>>
  BY EndEffect
<1>3. local[h].nonce \in handed[t]
  BY <1>2 DEF DrawnInv, Current
<1> HIDE DEF t
<1>4. \A g \in Handlers : pc'[g] # "unlock"
  BY <1>1, <1>2 DEF DrawnInv
<1>5. ASSUME NEW g \in Handlers
      PROVE  /\ pc'[g] = "unlock" <=> tokenMu' = g
             /\ pc'[g] \notin {"rotate", "unlock", "done"} => local'[g].nonce = Empty
             /\ pc'[g] = "rotate" => pc[g] = "rotate"
  BY <1>1, <1>2, <1>4, IssuerAssumption DEF DrawnInv
<1>6. ASSUME NEW u \in DOMAIN records'
      PROVE  Current(u)' \subseteq handed'[u]
  <2>1. Current(u)' = {records'[u].cNonce} /\ records[u].cNonce \in handed[u]
    BY <1>2, <1>4 DEF Current, DrawnInv
  <2> QED
    BY <1>2, <1>3, <2>1
<1> QED
  BY <1>2, <1>5, <1>6 DEF DrawnInv

(* Every step is one of the four that concern nonces, or an idle one.      *)
LEMMA NonceCases ==
  ASSUME TypeOK, [Next]_vars
  PROVE  \/ \E h \in Handlers : GrantToken(h)
         \/ \E h \in Handlers :
              (pc[h] \in {"expiry", "nonce"} /\ RejectProof(h)) \/ IssueCredential(h)
         \/ \E h \in Handlers : BeginRotate(h)
         \/ \E h \in Handlers : EndRotate(h)
         \/ UNCHANGED <<records, tokenMu, handed>> /\ \A g \in Handlers : Idle(g)
<1>1. CASE \E h \in Handlers : HandleToken(h) \/ HandleCredential(h)
  <2>1. PICK h \in Handlers : HandleToken(h) \/ HandleCredential(h)
    BY <1>1
  <2>2. CASE /\ ~GrantToken(h) /\ ~IssueCredential(h) /\ ~BeginRotate(h) /\ ~EndRotate(h)
             /\ ~(pc[h] \in {"expiry", "nonce"} /\ RejectProof(h))
    <3>1. /\ UNCHANGED <<records, tokenMu, handed, local[h].nonce>>
          /\ pc[h] # "unlock" /\ pc'[h] \notin {"rotate", "unlock"}
          /\ pc[h] \in {"rotate", "done"} => pc'[h] = "done"
      BY <2>1, <2>2, IdleEffect
    <3>2. UNCHANGED req /\ \A g \in Handlers \ {h} : UNCHANGED <<pc[g], local[g]>>
      BY <2>1, OneMoves
    <3> QED
      BY <3>1, <3>2 DEF Idle
  <2> QED
    BY <2>1, <2>2
<1>2. CASE \E h \in Handlers, r \in TokenRequests \cup CredentialRequests : Receive(h, r)
  <2>1. PICK h \in Handlers, r \in TokenRequests \cup CredentialRequests : Receive(h, r)
    BY <1>2
  <2>2. /\ UNCHANGED <<records, tokenMu, handed, local>>
        /\ pc[h] = "ready" /\ pc'[h] \in {"consume", "lookup"}
        /\ \A g \in Handlers \ {h} : UNCHANGED <<pc[g], req[g]>>
    BY <2>1 DEF Receive, Goto, TypeOK
  <2> QED
    BY <2>2 DEF Idle
<1>3. CASE Tick \/ (\E cfg \in OfferConfigs, code \in Codes : NewOffer(cfg, code))
           \/ UNCHANGED vars
  BY <1>3 DEF Tick, NewOffer, vars, Idle
<1> QED
  BY <1>1, <1>2, <1>3 DEF Next

(* DrawnInv survives every step.                                           *)
LEMMA DrawnStep ==
  ASSUME IssuerInv, DrawnInv, [Next]_vars
  PROVE  DrawnInv'
<1>1. TypeOK
  BY DEF IssuerInv
<1>2. CASE \E h \in Handlers :
             (pc[h] \in {"expiry", "nonce"} /\ RejectProof(h)) \/ IssueCredential(h)
  <2>1. PICK h \in Handlers :
          (pc[h] \in {"expiry", "nonce"} /\ RejectProof(h)) \/ IssueCredential(h)
    BY <1>2
  <2>2. UNCHANGED req /\ \A g \in Handlers \ {h} : UNCHANGED <<pc[g], local[g]>>
    BY <1>1, <2>1, DrawMoves
  <2> QED
    BY <1>1, <2>1, <2>2, DrawEffect, DrawDrawn
<1> QED
  BY <1>1, <1>2, NonceCases, GrantDrawn, BeginDrawn, EndDrawn, IdleDrawn

(* A record that was not there has just been granted, for AccessTokenTTL.  *)
LEMMA NewRecord ==
  ASSUME IssuerInv, [Next]_vars, NEW t \in DOMAIN records' \ DOMAIN records
  PROVE  /\ \E h \in Handlers : GrantToken(h)
         /\ records'[t].expiresAt = now + AccessTokenTTL
<1>1. TypeOK
  BY DEF IssuerInv
<1>2. ~UNCHANGED records
  OBVIOUS
<1>3. \A h \in Handlers : ~BeginRotate(h) /\ ~EndRotate(h)
  BY <1>1, BeginEffect, EndEffect
<1>4. PICK h \in Handlers : GrantToken(h)
  BY <1>1, <1>2, <1>3, NonceCases, DrawEffect
<1>5. PICK token \in Tokens, nonce \in FreshNonces : Grants(h, token, nonce)
  BY <1>4, GrantEffect
<1> QED
  BY <1>4, <1>5 DEF Grants

(* Time never runs back.                                                   *)
LEMMA TimeFlows ==
  ASSUME TypeOK, [Next]_vars
  PROVE  now \in Nat /\ now' \in Nat /\ now <= now'
<1>1. CASE Tick
  BY <1>1 DEF Tick, TypeOK
<1>2. CASE UNCHANGED now
  BY <1>2 DEF TypeOK
<1> QED
  BY <1>1, <1>2, OneMoves DEF Next, NewOffer, Receive, vars

(* A time within ttl of m is within ttl of any later time n.               *)
LEMMA Widen ==
  ASSUME NEW ttl \in Nat, NEW m \in Nat, NEW n \in Nat, m <= n
  PROVE  \A x \in 0..(m + ttl) : x \in 0..(n + ttl)
  OBVIOUS

(* A nonce that is stored, or about to be, is stored for CNonceTTL at most. *)
LEMMA LifetimeStep ==
  ASSUME IssuerInv, LifetimeInv, [Next]_vars
  PROVE  LifetimeInv'
<1> DEFINE Life == 0..(now + CNonceTTL)
<1>1. /\ TypeOK /\ now \in Nat /\ now' \in Nat /\ now <= now'
      /\ CNonceTTL \in Nat /\ AccessTokenTTL \in Nat
  BY TimeFlows, IssuerAssumption DEF IssuerInv
<1>2. SUFFICES /\ \A t \in DOMAIN records' : records'[t].cNonceExpiresAt \in Life
               /\ \A h \in Handlers :
                    pc'[h] \in {"rotate", "unlock"} => local'[h].nonceExpiresAt \in Life
  <2>1. ASSUME NEW t \in DOMAIN records' PROVE records'[t].expiresAt <= now' + AccessTokenTTL
    <3>1. CASE t \in DOMAIN records
      <4>1. records'[t].expiresAt = records[t].expiresAt
        BY <3>1, InvStep DEF RightsKept
      <4>2. records[t].expiresAt \in Nat /\ records[t].expiresAt <= now + AccessTokenTTL
        BY <1>1, <3>1 DEF TypeOK, IsMap, AccessTokenRecord, LifetimeInv
      <4> QED
        BY <1>1, <4>1, <4>2
    <3>2. CASE t \notin DOMAIN records
      BY <1>1, <2>1, <3>2, NewRecord
    <3> QED
      BY <3>1, <3>2
  <2>2. \A x \in Life : x \in 0..(now' + CNonceTTL)
    BY <1>1, Widen
  <2> HIDE DEF Life
  <2> QED
    BY <2>1, <2>2 DEF LifetimeInv
<1>3. now + CNonceTTL \in Life
  BY <1>1
<1>4. /\ \A t \in DOMAIN records : records[t].cNonceExpiresAt \in Life
      /\ \A h \in Handlers :
           pc[h] \in {"rotate", "unlock"} => local[h].nonceExpiresAt \in Life
  BY DEF LifetimeInv
<1> HIDE DEF Life
<1>5. CASE \E h \in Handlers : GrantToken(h)
  <2>1. PICK h \in Handlers : GrantToken(h)
    BY <1>5
  <2>2. PICK token \in Tokens, nonce \in FreshNonces : Grants(h, token, nonce)
    BY <2>1, GrantEffect
  <2>3. \A g \in Handlers \ {h} : UNCHANGED <<pc[g], local[g]>>
    BY <1>1, <2>1, OneMoves DEF HandleToken
  <2>4. /\ DOMAIN records' = DOMAIN records \cup {token}
        /\ records'[token].cNonceExpiresAt = now + CNonceTTL
        /\ \A t \in DOMAIN records : records'[t] = records[t]
        /\ pc'[h] = "done"
    BY <2>2 DEF Grants
  <2> QED
    BY <1>3, <1>4, <2>3, <2>4
<1>6. CASE \E h \in Handlers :
             (pc[h] \in {"expiry", "nonce"} /\ RejectProof(h)) \/ IssueCredential(h)
  <2>1. PICK h \in Handlers :
          (pc[h] \in {"expiry", "nonce"} /\ RejectProof(h)) \/ IssueCredential(h)
    BY <1>6
  <2>2. /\ UNCHANGED records /\ pc'[h] \in {"rotate", "done"}
        /\ pc'[h] = "rotate" => local'[h].nonceExpiresAt = now + CNonceTTL
        /\ \A g \in Handlers \ {h} : UNCHANGED <<pc[g], local[g]>>
    BY <1>1, <2>1, DrawMoves, DrawEffect
  <2> QED
    BY <1>3, <1>4, <2>2
<1>7. CASE \E h \in Handlers : BeginRotate(h)
  <2>1. PICK h \in Handlers : BeginRotate(h)
    BY <1>7
  <2>2. \A g \in Handlers \ {h} : UNCHANGED <<pc[g], local[g]>>
    BY <1>1, <2>1, OneMoves DEF HandleCredential
  <2>3. LET t == req[h].token
        IN /\ DOMAIN records' = DOMAIN records
           /\ pc[h] = "rotate" /\ UNCHANGED local
           /\ t \in DOMAIN records
           /\ records'[t].cNonceExpiresAt
                \in {records[t].cNonceExpiresAt, local[h].nonceExpiresAt}
           /\ \A u \in DOMAIN records \ {t} : records'[u] = records[u]
    BY <1>1, <2>1, BeginEffect
  <2> QED
    BY <1>4, <2>2, <2>3
<1>8. CASE \E h \in Handlers : EndRotate(h)
  <2>1. PICK h \in Handlers : EndRotate(h)
    BY <1>8
  <2>2. \A g \in Handlers \ {h} : UNCHANGED <<pc[g], local[g]>>
    BY <1>1, <2>1, OneMoves DEF HandleCredential
  <2>3. LET t == req[h].token
        IN /\ DOMAIN records' = DOMAIN records
           /\ pc[h] = "unlock" /\ UNCHANGED local
           /\ records'[t].cNonceExpiresAt = local[h].nonceExpiresAt
           /\ \A u \in DOMAIN records \ {t} : records'[u] = records[u]
           /\ pc'[h] = "done"
    BY <1>1, <2>1, EndEffect
  <2> QED
    BY <1>4, <2>2, <2>3
<1>9. CASE UNCHANGED <<records, tokenMu, handed>> /\ \A g \in Handlers : Idle(g)
  BY <1>4, <1>9 DEF Idle
<1> QED
  BY <1>1, <1>5, <1>6, <1>7, <1>8, <1>9, NonceCases

-----------------------------------------------------------------------------
(* What a step leaves of a token's nonces, and of a handler that issued.   *)

(* A handler that has issued keeps its locals, and goes on to its answer.  *)
LEMMA SettledKept ==
  ASSUME TypeOK, [Next]_vars, NEW g \in Handlers, pc[g] \in {"rotate", "unlock", "done"}
  PROVE  /\ UNCHANGED <<req[g], local[g], stale[g]>>
         /\ pc'[g] \in {"rotate", "unlock", "done"}
         /\ pc[g] \in {"unlock", "done"} => pc'[g] \in {"unlock", "done"}
         /\ pc[g] = "done" => UNCHANGED <<pc[g], reply[g]>>
<1>1. CASE \E h \in Handlers : HandleToken(h) \/ HandleCredential(h)
  <2>1. PICK h \in Handlers : HandleToken(h) \/ HandleCredential(h)
    BY <1>1
  <2>2. CASE g # h
    BY <2>1, <2>2, OneMoves
  <2>3. CASE g = h
    <3>1. BeginRotate(h) \/ EndRotate(h) \/ RotateFails(h)
      BY <2>1, <2>3
         DEF HandleToken, RejectTokenRequest, RefuseCode, ConsumeFails, ConsumeOffer,
             GrantToken, GrantFails, HandleCredential, RejectToken, RejectBody,
             RejectConfig, LookupToken, CheckNonceExpiry, CheckProof, IssueCredential,
             FactoryFails
    <3> QED
      BY <2>3, <3>1 DEF BeginRotate, EndRotate, RotateFails, EndRotateCNonce,
                        AnswerCredential, Answer, Goto, TypeOK
  <2> QED
    BY <2>2, <2>3
<1>2. CASE \E h \in Handlers, r \in TokenRequests \cup CredentialRequests : Receive(h, r)
  BY <1>2 DEF Receive, Goto, TypeOK
<1>3. CASE Tick \/ (\E cfg \in OfferConfigs, code \in Codes : NewOffer(cfg, code))
           \/ UNCHANGED vars
  BY <1>3 DEF Tick, NewOffer, vars
<1> QED
  BY <1>1, <1>2, <1>3 DEF Next

(* Once another request has rotated a token's nonce, it has for ever.      *)
LEMMA RotatedKept ==
  ASSUME TypeOK, [Next]_vars, NEW h, NEW t, RotatedByAnother(h, t)
  PROVE  RotatedByAnother(h, t)'
  BY SettledKept DEF RotatedByAnother, Issued

(* Whoever begins or ends a rotation is such a request to all the others.  *)
LEMMA RotationShows ==
  ASSUME TypeOK, NEW g \in Handlers, BeginRotate(g) \/ EndRotate(g),
         NEW h, h # g, NEW t, t = req[g].token
  PROVE  RotatedByAnother(h, t)'
<1>1. pc[g] \in {"rotate", "unlock"} /\ pc'[g] \in {"unlock", "done"}
      /\ UNCHANGED <<local, req>>
  BY DEF BeginRotate, EndRotate, EndRotateCNonce, AnswerCredential, Answer, Goto, TypeOK
<1>2. Issued(g)
  BY <1>1 DEF TypeOK, PlaceOK
<1> QED
  BY <1>1, <1>2 DEF RotatedByAnother, Issued

(* A stored token's nonces change only by a rotation on that token.        *)
LEMMA TokenKept ==
  ASSUME IssuerInv, [Next]_vars, NEW t \in DOMAIN records
  PROVE  /\ t \in DOMAIN records' /\ handed[t] \subseteq handed'[t]
         /\ \/ records'[t] = records[t] /\ handed'[t] = handed[t]
            \/ \E g \in Handlers :
                 (BeginRotate(g) \/ EndRotate(g)) /\ req[g].token = t
<1>1. TypeOK /\ t \in Tokens
  BY DEF IssuerInv, TypeOK, IsMap
<1>2. CASE \E h \in Handlers : GrantToken(h)
  <2>1. PICK h \in Handlers : GrantToken(h)
    BY <1>2
  <2>2. PICK token \in Tokens, nonce \in FreshNonces : Grants(h, token, nonce)
    BY <2>1, GrantEffect
  <2> QED
    BY <1>1, <2>2 DEF Grants
<1>3. CASE \E h \in Handlers : BeginRotate(h)
  <2>1. PICK h \in Handlers : BeginRotate(h)
    BY <1>3
  <2>2. LET u == req[h].token
        IN /\ DOMAIN records' = DOMAIN records
           /\ \A v \in DOMAIN records \ {u} : records'[v] = records[v]
           /\ handed'[u] = handed[u] \cup {local[h].nonce}
           /\ \A v \in Tokens \ {u} : handed'[v] = handed[v]
    BY <1>1, <2>1, BeginEffect
  <2> QED
    BY <1>1, <2>1, <2>2
<1>4. CASE \E h \in Handlers : EndRotate(h)
  <2>1. PICK h \in Handlers : EndRotate(h)
    BY <1>4
  <2>2. LET u == req[h].token
        IN /\ DOMAIN records' = DOMAIN records /\ UNCHANGED handed
           /\ \A v \in DOMAIN records \ {u} : records'[v] = records[v]
    BY <1>1, <2>1, EndEffect
  <2> QED
    BY <1>1, <2>1, <2>2
<1>5. CASE UNCHANGED <<records, handed>>
  BY <1>5
<1> QED
  BY <1>1, <1>2, <1>3, <1>4, <1>5, NonceCases, DrawEffect

(* What becomes current for a stored token was not the token's before,     *)
(* unless it is the missing nonce.                                         *)
LEMMA CurrentKept ==
  ASSUME IssuerInv, DrawnInv, [Next]_vars, NEW t \in DOMAIN records,
         NEW n \in Current(t)'
  PROVE  n \in Current(t) \/ n \notin handed[t] \/ n = Empty
<1>1. TypeOK /\ t \in Tokens
  BY DEF IssuerInv, TypeOK, IsMap
<1>2. CASE \E h \in Handlers : GrantToken(h)
  <2>1. PICK h \in Handlers : GrantToken(h)
    BY <1>2
  <2>2. PICK token \in Tokens, nonce \in FreshNonces : Grants(h, token, nonce)
    BY <2>1, GrantEffect
  <2>3. UNCHANGED req /\ \A g \in Handlers \ {h} : UNCHANGED <<pc[g], local[g]>>
    BY <1>1, <2>1, OneMoves DEF HandleToken
  <2>4. /\ records'[t] = records[t]
        /\ pc[h] = "grant" /\ pc'[h] = "done"
    BY <2>2 DEF Grants
  <2> QED
    BY <2>3, <2>4 DEF Current
<1>3. CASE \E h \in Handlers :
             (pc[h] \in {"expiry", "nonce"} /\ RejectProof(h)) \/ IssueCredential(h)
  <2>1. PICK h \in Handlers :
          (pc[h] \in {"expiry", "nonce"} /\ RejectProof(h)) \/ IssueCredential(h)
    BY <1>3
  <2>2. /\ UNCHANGED <<records, req>>
        /\ pc[h] # "unlock" /\ pc'[h] # "unlock"
        /\ \A g \in Handlers \ {h} : UNCHANGED <<pc[g], local[g]>>
    BY <1>1, <2>1, DrawMoves, DrawEffect
  <2> QED
    BY <2>2 DEF Current
<1>4. CASE \E h \in Handlers : BeginRotate(h)
  <2>1. PICK h \in Handlers : BeginRotate(h)
    BY <1>4
  <2>2. LET u == req[h].token
        IN /\ pc[h] = "rotate" /\ UNCHANGED local
           /\ records'[u].cNonce \in {records[u].cNonce, local[h].nonce}
           /\ \A v \in DOMAIN records \ {u} : records'[v] = records[v]
    BY <1>1, <2>1, BeginEffect
  <2>3. UNCHANGED req /\ \A g \in Handlers \ {h} : UNCHANGED pc[g]
    BY <1>1, <2>1, OneMoves DEF HandleCredential
  <2>4. n \in Current(t) \/ n = local[h].nonce
    BY <2>2, <2>3 DEF Current
  <2>5. local[h].nonce # Empty => local[h].nonce \notin handed[t]
    BY <1>1, <2>2 DEF DrawnInv
  <2> QED
    BY <2>4, <2>5
<1>5. CASE \E h \in Handlers : EndRotate(h)
  <2>1. PICK h \in Handlers : EndRotate(h)
    BY <1>5
  <2>2. LET u == req[h].token
        IN /\ pc[h] = "unlock" /\ pc'[h] = "done" /\ UNCHANGED local
           /\ records'[u].cNonce = local[h].nonce
           /\ \A v \in DOMAIN records \ {u} : records'[v] = records[v]
    BY <1>1, <2>1, EndEffect
  <2>3. UNCHANGED req /\ \A g \in Handlers \ {h} : UNCHANGED pc[g]
    BY <1>1, <2>1, OneMoves DEF HandleCredential
  <2> QED
    BY <2>2, <2>3 DEF Current
<1>6. CASE UNCHANGED <<records, tokenMu, handed>> /\ \A g \in Handlers : Idle(g)
  BY <1>6 DEF Current, Idle
<1> QED
  BY <1>1, <1>2, <1>3, <1>4, <1>5, <1>6, NonceCases

-----------------------------------------------------------------------------
(* A handler that does not move keeps its part of the invariant.           *)

(* Its token's nonces are as they were, or another request rotated them.   *)
LEMMA KeptOrRotated ==
  ASSUME IssuerInv, [Next]_vars, NEW h \in Handlers, UNCHANGED pc[h],
         NEW t \in DOMAIN records
  PROVE  \/ records'[t].cNonce = records[t].cNonce /\ handed'[t] = handed[t]
         \/ RotatedByAnother(h, t)'
<1>1. ASSUME NEW g \in Handlers, BeginRotate(g) \/ EndRotate(g), req[g].token = t
      PROVE  RotatedByAnother(h, t)'
  <2>1. TypeOK
    BY DEF IssuerInv
  <2>2. pc'[g] # pc[g]
    <3>1. CASE BeginRotate(g)
      BY <2>1, <3>1, BeginEffect
    <3>2. CASE EndRotate(g)
      BY <2>1, <3>2, EndEffect
    <3> QED
      BY <1>1, <3>1, <3>2
  <2>3. g # h
    BY <2>2
  <2> QED
    BY <1>1, <2>1, <2>3, RotationShows
<1> QED
  BY <1>1, TokenKept

(* What a client was told stays true while others move.                    *)
LEMMA ViewFrame ==
  ASSUME IssuerInv, [Next]_vars, NEW h \in Handlers, ViewInv(h),
         UNCHANGED <<pc[h], req[h], local[h], reply[h], stale[h]>>
  PROVE  ViewInv(h)'
<1>1. TypeOK /\ TakerInv(h) /\ PlaceOK(h)
  BY DEF IssuerInv, TypeOK
<1>2. (Answered(h)' <=> Answered(h)) /\ (Granted(h)' <=> Granted(h))
  BY DEF Answered, Granted
<1>3. PICK t : t = IF Granted(h) THEN reply[h].token ELSE req[h].token
  OBVIOUS
<1>4. t = IF Granted(h)' THEN reply'[h].token ELSE req'[h].token
  BY <1>2, <1>3
<1>6. ASSUME Answered(h), reply[h].error = Empty
      PROVE  /\ t \in DOMAIN records'
             /\ records'[t].cNonce = reply'[h].cNonce \/ RotatedByAnother(h, t)'
  <2>1. /\ t \in DOMAIN records
        /\ records[t].cNonce = reply[h].cNonce \/ RotatedByAnother(h, t)
    BY <1>3, <1>6 DEF ViewInv
  <2>2. CASE RotatedByAnother(h, t)
    BY <1>1, <2>1, <2>2, RotatedKept, TokenKept
  <2> QED
    BY <2>1, <2>2, KeptOrRotated, TokenKept
<1> QED
  BY <1>2, <1>4, <1>6 DEF ViewInv

(* What becomes current was never handed to the token, so it is no nonce   *)
(* that a proof was accepted with and none that the handler saw replaced.  *)
LEMMA LiveFrame ==
  ASSUME IssuerInv, DrawnInv, DrawnInv', [Next]_vars, NEW h \in Handlers,
         local[h].config # Empty, Empty \in handed[req[h].token] \/ LiveInv(h),
         UNCHANGED <<pc[h], req[h], local[h], reply[h], stale[h]>>
  PROVE  Empty \in handed'[req[h].token] \/ LiveInv(h)'
<1> DEFINE n == ProofNonce(req[h])
           t == req[h].token
<1>1. t \in DOMAIN records /\ t \in DOMAIN records' /\ handed[t] \subseteq handed'[t]
  BY TokenKept DEF IssuerInv, IssueInv
<1>2. /\ Answered(h)' <=> Answered(h)
      /\ Issued(h)' <=> Issued(h)
      /\ t' = t /\ n' = n
  BY DEF Answered, Issued, ProofNonce, ProofOf
<1>3. SUFFICES ASSUME Empty \notin handed'[t]
               PROVE  LiveInv(h)'
  OBVIOUS
<1>4. LiveInv(h)
  BY <1>1, <1>3
<1>5. Current(t)' \cap handed[t] \subseteq Current(t)
  BY <1>1, <1>3, CurrentKept DEF DrawnInv
<1> HIDE DEF n, t
<1>6. pc[h] \in {"expiry", "nonce"} =>
        stale[h] \subseteq handed'[t] /\ Current(t)' \cap stale[h] = {}
  BY <1>1, <1>4, <1>5 DEF LiveInv, t
<1>7. (pc[h] = "issue" \/ Issued(h)) /\ n # Empty =>
        n \in handed'[t] \ stale[h] /\ n # local[h].nonce
  BY <1>1, <1>4 DEF LiveInv, n, t
<1>8. Issued(h) /\ Answered(h) => n \notin Current(t)' \ {Empty}
  BY <1>4, <1>5 DEF LiveInv, n, t
<1> QED
  BY <1>2, <1>6, <1>7, <1>8 DEF LiveInv, n, t

(* Together: the others cannot disturb what ProofInv says of a handler.    *)
LEMMA ProofFrame ==
  ASSUME IssuerInv, DrawnInv, DrawnInv', [Next]_vars, NEW h \in Handlers, ProofInv(h),
         UNCHANGED <<pc[h], req[h], local[h], reply[h], stale[h]>>
  PROVE  ProofInv(h)'
  BY ViewFrame, LiveFrame DEF ProofInv

-----------------------------------------------------------------------------
(* The handler that moves. *)

(* A handler on its way to the lookup, or refused.                         *)
LEMMA QuietProof ==
  ASSUME NEW h \in Handlers, ~Issued(h)', pc'[h] \notin {"expiry", "nonce", "issue"},
         Answered(h)' => reply'[h].error # Empty
  PROVE  ProofInv(h)'
  BY DEF ProofInv, ViewInv, LiveInv

(* A refusal.                                                              *)
LEMMA FailProof ==
  ASSUME TypeOK, NEW h \in Handlers, ~Issued(h)', NEW code \in ErrorCodes, Fail(h, code)
  PROVE  ProofInv(h)'
<1>1. pc'[h] = "done" /\ reply'[h].error = code
  BY DEF Fail, Answer, Goto, TypeOK
<1>2. code # Empty
  BY EmptyAssumption
<1> QED
  BY <1>1, <1>2, QuietProof

(* The steps that read no record.                                          *)
LEMMA QuietStepProof ==
  ASSUME IssuerInv, NEW h \in Handlers,
         \/ RejectTokenRequest(h) \/ RefuseCode(h) \/ ConsumeFails(h)
         \/ ConsumeOffer(h) \/ GrantFails(h)
         \/ RejectToken(h) \/ RejectBody(h) \/ RejectConfig(h) \/ FactoryFails(h)
  PROVE  ProofInv(h)'
<1>1. TypeOK /\ TakerInv(h)
  BY DEF IssuerInv
<1>2. pc[h] \notin {"rotate", "unlock", "done"} /\ ~Issued(h) /\ ~Answered(h)
  BY <1>1 DEF RejectTokenRequest, RefuseCode, ConsumeFails, ConsumeOffer, GrantFails,
       RejectToken, RejectBody, RejectConfig, FactoryFails, TypeOK, PlaceOK, TakerInv
<1>3. CASE ConsumeOffer(h)
  <2>1. local'[h].credential = local[h].credential
    BY <1>1, <1>3 DEF ConsumeOffer, TypeOK, Locals
  <2>2. ~Issued(h)'
    BY <1>2, <2>1 DEF Issued
  <2>3. CASE Fail(h, "invalid_grant")
    BY <1>1, <2>2, <2>3, FailProof DEF ErrorCodes
  <2>4. CASE Goto(h, "grant") /\ UNCHANGED reply
    <3>1. pc'[h] = "grant" /\ ~Answered(h)'
      BY <1>1, <1>2, <2>4 DEF Goto, TypeOK, Answered
    <3> QED
      BY <2>2, <3>1, QuietProof
  <2> QED
    BY <1>3, <2>3, <2>4 DEF ConsumeOffer
<1>4. CASE UNCHANGED local /\ \E code \in ErrorCodes : Fail(h, code)
  BY <1>1, <1>2, <1>4, FailProof DEF Issued
<1> QED
  BY <1>3, <1>4 DEF RejectTokenRequest, RefuseCode, ConsumeFails, GrantFails,
       RejectToken, RejectBody, RejectConfig, FactoryFails, ErrorCodes

(* What the answered requests of a token spent was handed to it, and is    *)
(* not current any more.                                                   *)
LEMMA SpentIsGone ==
  ASSUME IssuerInv, \A g \in Handlers : ProofInv(g), NEW t, Empty \notin handed[t]
  PROVE  Spent(t) \subseteq handed[t] /\ Spent(t) \cap Current(t) = {}
<1> SUFFICES ASSUME NEW n \in Spent(t)
             PROVE  n \in handed[t] /\ n \notin Current(t)
  OBVIOUS
<1>1. PICK g \in Handlers : /\ Issued(g) /\ Answered(g) /\ req[g].token = t
                            /\ n = ProofNonce(req[g]) /\ n # Empty
  BY DEF Spent, Issued, Answered
<1>2. local[g].config # Empty
  BY <1>1 DEF IssuerInv, IssueInv
<1>3. LiveInv(g)
  BY <1>1, <1>2 DEF ProofInv
<1> QED
  BY <1>1, <1>3 DEF LiveInv

(* The lookup: the record's nonce is not yet spent for this handler.       *)
LEMMA LookupTokenProof ==
  ASSUME IssuerInv, DrawnInv, \A g \in Handlers : ProofInv(g), NEW h \in Handlers,
         LookupToken(h)
  PROVE  ProofInv(h)'
<1>1. PICK t : t = req[h].token
  OBVIOUS
<1>2. /\ TypeOK /\ pc[h] = "lookup" /\ tokenMu = Empty /\ t \in DOMAIN records
      /\ UNCHANGED <<req, records, handed>>
      /\ stale' = [stale EXCEPT ![h] = (handed[t] \ {records[t].cNonce}) \cup Spent(t)]
      /\ \E k, n : k # Empty /\ local' = [local EXCEPT ![h].config = k, ![h].foundNonce = n]
  BY <1>1 DEF IssuerInv, LookupToken, Found, CanGet
<1>3. stale'[h] = (handed[t] \ {records[t].cNonce}) \cup Spent(t)
  BY <1>2 DEF TypeOK
<1>4. local'[h].config # Empty /\ ~Issued(h)'
  <2>1. local[h] \in Locals /\ ~Issued(h)
    BY <1>2 DEF TypeOK, PlaceOK
  <2> QED
    BY <1>2, <2>1 DEF TypeOK, Locals, Issued
<1>5. /\ pc'[h] \in {"expiry", "issue", "done"}
      /\ pc'[h] # "expiry" => ProofOf(req[h]) = Empty
      /\ Answered(h)' => pc'[h] = "done" /\ reply'[h].error = "invalid_proof"
  <2>1. ~Answered(h)
    BY <1>2 DEF IssuerInv, TakerInv
  <2> QED
    BY <1>2, <2>1 DEF LookupToken, Fail, Answer, Goto, TypeOK, Answered
<1>6. pc'[h] # "expiry" => ProofNonce(req'[h]) = Empty
  BY <1>2, <1>5 DEF ProofNonce
<1>7. ViewInv(h)'
  <2>1. "invalid_proof" # Empty
    BY EmptyAssumption DEF ErrorCodes
  <2> QED
    BY <1>5, <2>1 DEF ViewInv
<1>8. ASSUME Empty \notin handed'[t] PROVE LiveInv(h)'
  <2>1. Spent(t) \subseteq handed[t] /\ Spent(t) \cap Current(t) = {}
    BY <1>2, <1>8, SpentIsGone
  <2>2. Current(t)' = {records[t].cNonce} /\ records[t].cNonce \in Current(t)
    <3>1. \A g \in Handlers : pc'[g] # "unlock"
      BY <1>2, <1>5, IssuerAssumption, OneMoves DEF DrawnInv, HandleCredential
    <3> QED
      BY <1>2, <3>1 DEF Current
  <2>3. stale'[h] \subseteq handed'[t] /\ Current(t)' \cap stale'[h] = {}
    BY <1>2, <1>3, <2>1, <2>2
  <2> QED
    BY <1>1, <1>2, <1>4, <1>6, <2>3 DEF LiveInv
<1> QED
  BY <1>1, <1>2, <1>7, <1>8 DEF ProofInv

(* A proof that fails is refused.                                          *)
LEMMA RejectProofProof ==
  ASSUME TypeOK, NEW h \in Handlers, pc[h] \in {"expiry", "nonce"}, RejectProof(h)
  PROVE  ProofInv(h)'
<1>1. PICK nonce :
        /\ local' = [local EXCEPT ![h].nonce = nonce]
        /\ Answer(h, [error |-> "invalid_proof", token |-> Empty,
                      cNonce |-> nonce, credential |-> Empty])
  BY DEF RejectProof
<1>2. pc'[h] = "done" /\ reply'[h].error = "invalid_proof" /\ "invalid_proof" # Empty
  BY <1>1, EmptyAssumption DEF Answer, Goto, TypeOK, ErrorCodes
<1>3. ~Issued(h)'
  <2>1. local[h] \in Locals /\ ~Issued(h)
    BY DEF TypeOK, PlaceOK
  <2> QED
    BY <1>1, <2>1 DEF TypeOK, Locals, Issued
<1> QED
  BY <1>2, <1>3, QuietProof

(* The nonce has not expired: on to the next check.                        *)
LEMMA CheckNonceExpiryProof ==
  ASSUME IssuerInv, NEW h \in Handlers, ProofInv(h), CheckNonceExpiry(h)
  PROVE  ProofInv(h)'
<1>1. PICK t : t = req[h].token
  OBVIOUS
<1>2. TypeOK /\ pc[h] = "expiry" /\ ~Answered(h) /\ ~Issued(h)
  BY DEF IssuerInv, CheckNonceExpiry, TypeOK, PlaceOK, TakerInv
<1>3. CASE RejectProof(h)
  BY <1>2, <1>3, RejectProofProof
<1>4. CASE Goto(h, "nonce")
           /\ UNCHANGED <<offers, records, tokenMu, now, req, local, reply, handed, stale>>
  <2>1. pc'[h] = "nonce" /\ \A g \in Handlers \ {h} : pc'[g] = pc[g]
    BY <1>2, <1>4 DEF Goto, TypeOK
  <2>2. ~Answered(h)' /\ ~Issued(h)'
    BY <1>2, <1>4 DEF Answered, Issued
  <2>3. ViewInv(h)'
    BY <2>2 DEF ViewInv
  <2>4. LiveInv(h) => LiveInv(h)'
    <3>1. Current(t)' = Current(t)
      BY <1>2, <1>4, <2>1 DEF Current
    <3> QED
      BY <1>1, <1>2, <1>4, <2>1, <2>2, <3>1 DEF LiveInv
  <2> QED
    BY <1>4, <2>3, <2>4 DEF ProofInv
<1> QED
  BY <1>3, <1>4 DEF CheckNonceExpiry

(* A proof accepted at CheckProof has a nonce that is current.             *)
LEMMA CheckProofProof ==
  ASSUME IssuerInv, DrawnInv, NEW h \in Handlers, ProofInv(h), CheckProof(h)
  PROVE  ProofInv(h)'
<1> DEFINE key == PublicKeyToGoKey(ProofOf(req[h]).jwt.jwk)
           n == ProofNonce(req[h])
<1>1. PICK t : t = req[h].token
  OBVIOUS
<1>2. /\ TypeOK /\ pc[h] = "nonce" /\ ~Answered(h) /\ ~Granted(h) /\ ~Issued(h)
      /\ t \in DOMAIN records /\ local[h].config # Empty
      /\ ProofOf(req[h]) # Empty /\ ProofOf(req[h]).jwt # Empty
  BY <1>1 DEF IssuerInv, CheckProof, TypeOK, PlaceOK, TakerInv, Granted
<1>3. n = ProofOf(req[h]).jwt.nonce
  BY <1>2 DEF ProofNonce
<1>4. CASE RejectProof(h)
  BY <1>2, <1>4, RejectProofProof
<1>5. CASE /\ ProofPasses(h) /\ Goto(h, "issue")
           /\ local' = [local EXCEPT ![h].key = key]
           /\ UNCHANGED <<offers, records, tokenMu, now, req, reply, handed, stale>>
  <2>1. /\ pc'[h] = "issue" /\ local'[h].nonce = local[h].nonce
        /\ local'[h].credential = local[h].credential
    BY <1>2, <1>5 DEF Goto, TypeOK, Locals
  <2>2. ~Answered(h)' /\ ~Issued(h)'
    BY <1>2, <1>5, <2>1 DEF Answered, Issued
  <2>3. ASSUME Empty \notin handed[t], n # Empty
        PROVE  n \in handed[t] \ stale[h] /\ n # local[h].nonce
    <3>1. records[t].cNonce \in Current(t) /\ records[t].cNonce \in handed[t]
      BY <1>2 DEF Current, DrawnInv
    <3>2. n = records[t].cNonce
      BY <1>1, <1>3, <1>5, <2>3, <3>1
         DEF ProofPasses, ProofHolds, ValidateProofJWT, NonceMatches
    <3>3. LiveInv(h)
      BY <1>1, <1>2, <2>3 DEF ProofInv
    <3>4. records[t].cNonce \notin stale[h]
      BY <1>1, <1>2, <3>1, <3>3 DEF LiveInv
    <3>5. local[h].nonce = Empty
      BY <1>2 DEF DrawnInv
    <3> QED
      BY <2>3, <3>1, <3>2, <3>4, <3>5
  <2>4. ViewInv(h)'
    BY <2>2 DEF ViewInv
  <2>5. Empty \notin handed[t] => LiveInv(h)'
    BY <1>1, <1>5, <2>1, <2>2, <2>3 DEF LiveInv, ProofNonce, ProofOf
  <2> QED
    BY <1>1, <1>5, <2>4, <2>5 DEF ProofInv
<1> QED
  BY <1>4, <1>5 DEF CheckProof

(* The nonce drawn for the answer is not the one of the proof.             *)
LEMMA IssueCredentialProof ==
  ASSUME IssuerInv, DrawnInv, NEW h \in Handlers, ProofInv(h), IssueCredential(h)
  PROVE  ProofInv(h)'
<1> DEFINE n == ProofNonce(req[h])
<1>1. PICK t : t = req[h].token
  OBVIOUS
<1>2. /\ TypeOK /\ pc[h] = "issue" /\ ~Answered(h) /\ local[h].config # Empty
      /\ t \in DOMAIN records /\ t \in Tokens
  BY <1>1 DEF IssuerInv, IssueCredential, TypeOK, PlaceOK, TakerInv, IsMap
<1>3. /\ local'[h].nonce \in NonceOrEmpty /\ pc'[h] = "rotate"
      /\ UNCHANGED <<records, handed, req, reply, stale>>
  BY <1>2, DrawEffect DEF IssueCredential, Goto, TypeOK
<1>4. ~Answered(h)'
  BY <1>2, <1>3 DEF Answered
<1>5. ASSUME Empty \notin handed[t], n # Empty
      PROVE  n \in handed[t] \ stale[h] /\ n # local'[h].nonce
  <2>1. n \in handed[t] \ stale[h]
    BY <1>1, <1>2, <1>5 DEF ProofInv, LiveInv
  <2> QED
    BY <1>2, <1>3, <1>5, <2>1, FreshNonce DEF NonceOrEmpty
<1>6. ViewInv(h)'
  BY <1>4 DEF ViewInv
<1>7. Empty \notin handed[t] => LiveInv(h)'
  BY <1>1, <1>3, <1>4, <1>5 DEF LiveInv, ProofNonce, ProofOf
<1> QED
  BY <1>1, <1>3, <1>6, <1>7 DEF ProofInv

(* Both answers that carry the stored nonce are given as it is stored.     *)
LEMMA GrantTokenProof ==
  ASSUME IssuerInv, NEW h \in Handlers, GrantToken(h)
  PROVE  ProofInv(h)'
<1>1. PICK token \in Tokens, nonce \in FreshNonces : Grants(h, token, nonce)
  BY GrantEffect
<1>2. TypeOK /\ pc[h] = "grant" /\ pc'[h] = "done" /\ ~Issued(h)
  BY <1>1 DEF IssuerInv, Grants, TypeOK, PlaceOK
<1>3. ~Issued(h)'
  BY <1>2, KeyKept DEF Issued, HandleToken, CheckProof, IssueCredential
<1>4. /\ reply'[h].error = Empty /\ reply'[h].token = token
      /\ reply'[h].cNonce = records'[token].cNonce
      /\ token \in DOMAIN records' /\ token # Empty
  BY <1>1, EmptyAssumption DEF Grants
<1>5. ViewInv(h)'
  BY <1>2, <1>4 DEF ViewInv, Granted
<1> QED
  BY <1>2, <1>3, <1>5 DEF ProofInv, LiveInv

(* The lock is taken: only the drawn nonce becomes known.                  *)
LEMMA BeginRotateProof ==
  ASSUME IssuerInv, NEW h \in Handlers, ProofInv(h), BeginRotate(h)
  PROVE  ProofInv(h)'
<1> DEFINE n == ProofNonce(req[h])
<1>1. PICK t : t = req[h].token
  OBVIOUS
<1>2. /\ TypeOK /\ pc[h] = "rotate" /\ ~Answered(h) /\ Issued(h) /\ local[h].config # Empty
  BY DEF IssuerInv, BeginRotate, TypeOK, PlaceOK, TakerInv
<1>3. /\ pc'[h] = "unlock" /\ handed'[t] = handed[t] \cup {local[h].nonce}
      /\ UNCHANGED <<local, reply, stale, req>>
  BY <1>1, <1>2, BeginEffect DEF BeginRotate
<1>4. ~Answered(h)'
  BY <1>2, <1>3 DEF Answered
<1>5. ViewInv(h)'
  BY <1>4 DEF ViewInv
<1>6. Empty \in handed[t] \/ (n # Empty => n \in handed[t] \ stale[h] /\ n # local[h].nonce)
  BY <1>1, <1>2 DEF ProofInv, LiveInv
<1>7. Empty \in handed'[t] \/ LiveInv(h)'
  BY <1>1, <1>3, <1>4, <1>6 DEF LiveInv, ProofNonce, ProofOf
<1> QED
  BY <1>1, <1>3, <1>5, <1>7 DEF ProofInv

(* The record is updated: the nonce the request used is spent.             *)
LEMMA EndRotateProof ==
  ASSUME IssuerInv, DrawnInv, NEW h \in Handlers, ProofInv(h), EndRotate(h)
  PROVE  ProofInv(h)'
<1> DEFINE n == ProofNonce(req[h])
<1>1. PICK t : t = req[h].token
  OBVIOUS
<1>2. /\ TypeOK /\ pc[h] = "unlock" /\ Issued(h) /\ local[h].config # Empty
  BY DEF IssuerInv, EndRotate, TypeOK, PlaceOK, TakerInv, IssueInv
<1>3. /\ pc'[h] = "done" /\ tokenMu = h /\ records'[t].cNonce = local[h].nonce
      /\ t \in DOMAIN records'
      /\ reply'[h].error = Empty /\ reply'[h].token = Empty
      /\ reply'[h].cNonce = local[h].nonce
      /\ UNCHANGED <<local, handed, stale, req>>
  <2>1. UNCHANGED req
    BY DEF EndRotate
  <2>2. /\ t \in DOMAIN records /\ DOMAIN records' = DOMAIN records
        /\ pc'[h] = "done" /\ tokenMu = h
        /\ records'[t].cNonce = local[h].nonce
        /\ reply'[h] = [error |-> Empty, token |-> Empty, cNonce |-> local[h].nonce,
                        credential |-> local[h].credential]
        /\ UNCHANGED <<local, handed, stale>>
    BY <1>1, <1>2, EndEffect
  <2> QED
    BY <2>1, <2>2
<1>4. ViewInv(h)'
  <2>1. ~Granted(h)'
    BY <1>3, EmptyAssumption DEF Granted
  <2> QED
    BY <1>1, <1>3, <2>1 DEF ViewInv
<1>5. Empty \in handed[t] \/ (n # Empty => n \in handed[t] \ stale[h] /\ n # local[h].nonce)
  BY <1>1, <1>2 DEF ProofInv, LiveInv
<1>6. Current(t)' = {local[h].nonce}
  <2>1. \A g \in Handlers : pc'[g] # "unlock"
    BY <1>2, <1>3, OneMoves DEF DrawnInv, HandleCredential
  <2> QED
    BY <1>3, <2>1 DEF Current
<1>7. Empty \in handed'[t] \/ LiveInv(h)'
  BY <1>1, <1>3, <1>5, <1>6 DEF LiveInv, ProofNonce, ProofOf
<1> QED
  BY <1>1, <1>3, <1>4, <1>7 DEF ProofInv

-----------------------------------------------------------------------------
(* What a handler found at the lookup, and why its proof is refused.       *)

(* Only the lookup notes a nonce and a configuration.                      *)
LEMMA FoundKept ==
  ASSUME TypeOK, [Next]_vars, NEW h \in Handlers, ~LookupToken(h)
  PROVE  /\ UNCHANGED <<local[h].foundNonce, local[h].config>>
         /\ pc[h] # "ready" => UNCHANGED req[h]
<1>1. local[h] \in Locals
  BY DEF TypeOK
<1>2. CASE HandleToken(h) \/ HandleCredential(h)
  <2>1. UNCHANGED req[h]
    BY <1>2, OneMoves
  <2>2. CASE ConsumeOffer(h)
    BY <1>1, <2>1, <2>2 DEF ConsumeOffer, TypeOK, Locals
  <2>3. CASE GrantToken(h)
    <3>1. PICK token, nonce :
            local' = [local EXCEPT ![h].token = token, ![h].nonce = nonce]
      BY <2>3 DEF GrantToken
    <3> QED
      BY <1>1, <2>1, <3>1 DEF TypeOK, Locals
  <2>4. CASE IssueCredential(h)
    <3> DEFINE cred == [config |-> local[h].config,
                        subject |-> records[req[h].token].subject,
                        key |-> local[h].key]
               until == now + CNonceTTL
    <3>1. PICK nonce : local' = [local EXCEPT ![h].credential = cred,
                                   ![h].nonce = nonce, ![h].nonceExpiresAt = until]
      BY <2>4 DEF IssueCredential
    <3> HIDE DEF cred, until
    <3> QED
      BY <1>1, <2>1, <3>1 DEF TypeOK, Locals
  <2>5. CASE RejectProof(h)
    BY <1>1, <2>1, <2>5 DEF RejectProof, TypeOK, Locals
  <2>6. CASE CheckProof(h)
    BY <1>1, <2>1, <2>5, <2>6 DEF CheckProof, TypeOK, Locals
  <2>7. CASE UNCHANGED local
    BY <2>1, <2>7
  <2> QED
    BY <1>2, <2>2, <2>3, <2>4, <2>5, <2>6, <2>7
       DEF HandleToken, RejectTokenRequest, RefuseCode, ConsumeFails, GrantFails,
           HandleCredential, RejectToken, RejectBody, RejectConfig, CheckNonceExpiry,
           FactoryFails, BeginRotate, EndRotate, RotateFails
<1>3. CASE \E g \in Handlers \ {h} : HandleToken(g) \/ HandleCredential(g)
  BY <1>3, OneMoves
<1>4. CASE \E g \in Handlers, r \in TokenRequests \cup CredentialRequests : Receive(g, r)
  BY <1>4 DEF Receive, Goto, TypeOK
<1>5. CASE Tick \/ (\E cfg \in OfferConfigs, code \in Codes : NewOffer(cfg, code))
           \/ UNCHANGED vars
  BY <1>5 DEF Tick, NewOffer, vars
<1> QED
  BY <1>2, <1>3, <1>4, <1>5 DEF Next

(* Only BeginRotate leads to the mutex, and only EndRotate away from it.   *)
LEMMA RotationSteps ==
  ASSUME IssuerInv, [Next]_vars, NEW g \in Handlers
  PROVE  /\ pc'[g] = "unlock" /\ pc[g] # "unlock" => BeginRotate(g)
         /\ pc'[g] # "unlock" /\ pc[g] = "unlock" => EndRotate(g)
<1>1. TypeOK
  BY DEF IssuerInv
<1>2. CASE \E h \in Handlers : GrantToken(h)
  <2>1. PICK h \in Handlers : GrantToken(h)
    BY <1>2
  <2>2. pc[h] = "grant" /\ pc'[h] = "done"
    BY <2>1, GrantEffect DEF Grants
  <2> QED
    BY <1>1, <2>1, <2>2, OneMoves DEF HandleToken
<1>3. CASE \E h \in Handlers :
             (pc[h] \in {"expiry", "nonce"} /\ RejectProof(h)) \/ IssueCredential(h)
  BY <1>1, <1>3, DrawEffect, DrawMoves
<1>4. CASE \E h \in Handlers : BeginRotate(h)
  <2>1. PICK h \in Handlers : BeginRotate(h)
    BY <1>4
  <2>2. pc[h] = "rotate" /\ \A f \in Handlers \ {h} : UNCHANGED pc[f]
    BY <1>1, <2>1, OneMoves DEF HandleCredential, BeginRotate
  <2> QED
    BY <2>1, <2>2
<1>5. CASE \E h \in Handlers : EndRotate(h)
  <2>1. PICK h \in Handlers : EndRotate(h)
    BY <1>5
  <2>2. pc'[h] = "done" /\ \A f \in Handlers \ {h} : UNCHANGED pc[f]
    BY <1>1, <2>1, EndEffect, OneMoves DEF HandleCredential
  <2> QED
    BY <2>1, <2>2
<1>6. CASE \A f \in Handlers : Idle(f)
  BY <1>6 DEF Idle
<1> QED
  BY <1>1, <1>2, <1>3, <1>4, <1>5, <1>6, NonceCases

(* The nonce found stays one of the token's, and no rotation brings it     *)
(* back: what a rotation stores was handed to nobody before.               *)
LEMMA FoundStep ==
  ASSUME IssuerInv, DrawnInv, [Next]_vars, NEW h \in Handlers, FoundInv(h)
  PROVE  FoundInv(h)'
<1>1. TypeOK
  BY DEF IssuerInv
<1>2. PICK t : t = req[h].token
  OBVIOUS
<1>3. CASE LookupToken(h)
  <2>1. /\ \E k : /\ k # Empty
                  /\ local' = [local EXCEPT ![h].config = k,
                                            ![h].foundNonce = records[t].cNonce]
        /\ t \in DOMAIN records /\ tokenMu = Empty /\ pc[h] = "lookup"
        /\ UNCHANGED <<req, handed>>
    BY <1>2, <1>3 DEF LookupToken, Found, CanGet
  <2>2. local'[h].config # Empty /\ local'[h].foundNonce = records[t].cNonce
    BY <1>1, <2>1 DEF TypeOK, Locals
  <2>3. records[t].cNonce \in handed[t]
    BY <2>1 DEF DrawnInv, Current
  <2>4. \A g \in Handlers : pc'[g] # "unlock"
    <3>1. \A g \in Handlers : pc[g] # "unlock"
      BY <2>1, IssuerAssumption DEF DrawnInv
    <3>2. pc'[h] # "unlock"
      BY <1>1, <1>3 DEF LookupToken, Fail, Answer, Goto, TypeOK
    <3> QED
      BY <1>1, <1>3, <3>1, <3>2, OneMoves DEF HandleCredential
  <2> QED
    BY <1>2, <2>1, <2>2, <2>3, <2>4 DEF FoundInv
<1>4. CASE ~LookupToken(h)
  <2> DEFINE n == local[h].foundNonce
  <2>1. SUFFICES ASSUME n # Empty
                 PROVE  /\ local'[h].config # Empty
                        /\ n \in handed'[req'[h].token]
                        /\ \A g \in Handlers : pc'[g] = "unlock" => local'[g].nonce # n
    BY <1>1, <1>4, FoundKept DEF FoundInv
  <2>2. /\ local[h].config # Empty /\ n \in handed[t]
        /\ \A g \in Handlers : pc[g] = "unlock" => local[g].nonce # n
    BY <1>2, <2>1 DEF FoundInv
  <2>3. /\ local'[h].config # Empty /\ req'[h] = req[h]
        /\ t \in DOMAIN records /\ t \in Tokens
    BY <1>1, <1>2, <1>4, <2>2, FoundKept DEF TypeOK, PlaceOK, IssuerInv, IssueInv, IsMap
  <2>4. n \in handed'[t]
    BY <2>2, <2>3, TokenKept
  <2> HIDE DEF n
  <2>5. ASSUME NEW g \in Handlers, pc'[g] = "unlock" PROVE local'[g].nonce # n
    <3>1. CASE pc[g] = "unlock"
      BY <1>1, <2>2, <3>1, SettledKept
    <3>2. CASE BeginRotate(g)
      <4>1. pc[g] = "rotate" /\ UNCHANGED local
        BY <3>2 DEF BeginRotate
      <4> QED
        BY <2>1, <2>2, <2>3, <4>1 DEF DrawnInv
    <3> QED
      BY <2>5, <3>1, <3>2, RotationSteps
  <2> QED
    BY <1>2, <2>3, <2>4, <2>5
<1> QED
  BY <1>3, <1>4

(* While a nonce that was found is the only current one, nothing happens   *)
(* to its record's nonce or expiry.                                        *)
LEMMA SoleKept ==
  ASSUME IssuerInv, DrawnInv, [Next]_vars, NEW t \in DOMAIN records,
         NEW n \in handed[t] \ {Empty},
         \A g \in Handlers : pc[g] = "unlock" => local[g].nonce # n,
         Current(t)' = {n}
  PROVE  Current(t) = {n} /\ records'[t] = records[t]
<1>1. TypeOK /\ t \in Tokens /\ records'[t].cNonce = n
  BY DEF IssuerInv, TypeOK, IsMap, Current
<1>2. ASSUME NEW g \in Handlers, pc[g] = "unlock", req[g].token = t PROVE FALSE
  <2>1. local[g].nonce # n /\ UNCHANGED <<local[g], req[g]>>
    BY <1>1, <1>2, SettledKept
  <2>2. CASE pc'[g] = "unlock"
    BY <1>2, <2>1, <2>2 DEF Current
  <2>3. CASE EndRotate(g)
    <3>1. records'[t].cNonce = local[g].nonce
      BY <1>1, <1>2, <2>3, EndEffect
    <3> QED
      BY <1>1, <2>1, <3>1
  <2> QED
    BY <1>2, <2>2, <2>3, RotationSteps
<1>3. ASSUME NEW g \in Handlers, BeginRotate(g), req[g].token = t PROVE FALSE
  <2>1. pc[g] = "rotate" /\ pc'[g] = "unlock" /\ UNCHANGED <<local, req>>
    BY <1>1, <1>3 DEF BeginRotate, Goto, TypeOK
  <2>2. local[g].nonce = n
    BY <1>3, <2>1 DEF Current
  <2> QED
    BY <1>1, <2>1, <2>2 DEF DrawnInv
<1>4. ~\E g \in Handlers : (BeginRotate(g) \/ EndRotate(g)) /\ req[g].token = t
  BY <1>2, <1>3 DEF EndRotate
<1>5. records'[t] = records[t]
  BY <1>4, TokenKept
<1> QED
  BY <1>1, <1>2, <1>5 DEF Current

(* A handler is answered invalid_proof at one of three places.             *)
LEMMA ProofRefused ==
  ASSUME IssuerInv, [Next]_vars, NEW h \in Handlers,
         ~Answered(h), Answered(h)', reply'[h].error = "invalid_proof"
  PROVE  \/ LookupToken(h) /\ ProofOf(req[h]) = Empty
         \/ pc[h] = "expiry" /\ ~NonceExpiryPasses(h) /\ RejectProof(h)
         \/ pc[h] = "nonce" /\ ~ProofPasses(h) /\ RejectProof(h)
<1>1. TypeOK /\ ~UNCHANGED reply[h] /\ "invalid_proof" # Empty
  BY EmptyAssumption DEF IssuerInv, Answered, ErrorCodes
<1>2. HandleToken(h) \/ HandleCredential(h)
  BY <1>1, OneMoves DEF Next, Tick, NewOffer, Receive, vars
<1>3. ASSUME NEW r, Answer(h, r) PROVE r.error = "invalid_proof"
  BY <1>1, <1>3 DEF Answer, TypeOK
<1>4. ASSUME NEW code, Fail(h, code) PROVE code = "invalid_proof"
  BY <1>3, <1>4 DEF Fail
<1>5. ~HandleToken(h)
  <2>1. ASSUME GrantToken(h) PROVE FALSE
    <3>1. PICK token, nonce : Answer(h, [error |-> Empty, token |-> token,
                                         cNonce |-> nonce, credential |-> Empty])
      BY <2>1 DEF GrantToken
    <3> QED
      BY <1>1, <1>3, <3>1
  <2> QED
    BY <1>1, <1>4, <2>1 DEF HandleToken, RejectTokenRequest, RefuseCode, ConsumeFails,
       ConsumeOffer, GrantFails
<1>6. ~EndRotate(h) /\ ~RotateFails(h)
  BY <1>1, <1>3 DEF EndRotate, RotateFails, AnswerCredential
<1>7. CASE LookupToken(h)
  BY <1>1, <1>7 DEF LookupToken
<1>8. CASE CheckNonceExpiry(h)
  BY <1>1, <1>8 DEF CheckNonceExpiry
<1>9. CASE CheckProof(h)
  BY <1>1, <1>9 DEF CheckProof
<1> QED
  BY <1>1, <1>2, <1>4, <1>5, <1>6, <1>7, <1>8, <1>9
     DEF HandleCredential, RejectToken, RejectBody, RejectConfig, IssueCredential,
         FactoryFails, BeginRotate

(* A proof is refused for a cause, and that stays its cause.               *)
LEMMA RefusedStep ==
  ASSUME IssuerInv, DrawnInv, [Next]_vars, NEW h \in Handlers, FoundInv(h),
         RefusedForCause(h)
  PROVE  RefusedForCause(h)'
<1> DEFINE proof == ProofOf(req[h])
           n == local[h].foundNonce
           t == req[h].token
<1>1. TypeOK /\ TakerInv(h) /\ PlaceOK(h)
  BY DEF IssuerInv, TypeOK
<1>2. CASE Answered(h)
  <2>1. UNCHANGED <<reply[h], local[h], req[h]>>
    BY <1>1, <1>2, SettledKept DEF TakerInv
  <2>2. PICK u, m : u = t /\ m = n
    OBVIOUS
  <2>3. SUFFICES ASSUME Answered(h), reply[h].error = "invalid_proof",
                        m # Empty, ProofNonce(req[h]) = m,
                        proof.type = "jwt", ProofHolds(proof.jwt, m),
                        Current(u)' = {m}
                 PROVE  now' > records'[u].cNonceExpiresAt
    BY <1>2, <2>1, <2>2 DEF RefusedForCause, ProofNonce, ProofOf, Answered
  <2>4. /\ u \in DOMAIN records /\ m \in handed[u] \ {Empty}
        /\ \A g \in Handlers : pc[g] = "unlock" => local[g].nonce # m
    BY <2>2, <2>3 DEF FoundInv, IssuerInv, IssueInv
  <2>5. Current(u) = {m} /\ records'[u] = records[u]
    BY <2>3, <2>4, SoleKept
  <2>6. now > records[u].cNonceExpiresAt
    BY <2>2, <2>3, <2>5 DEF RefusedForCause
  <2>7. records[u].cNonceExpiresAt \in Nat
    BY <1>1, <2>4 DEF TypeOK, IsMap, AccessTokenRecord
  <2> QED
    BY <1>1, <2>5, <2>6, <2>7, TimeFlows
<1>3. CASE ~Answered(h)
  <2>1. SUFFICES ASSUME Answered(h)', reply'[h].error = "invalid_proof",
                        n' # Empty, ProofNonce(req[h])' = n',
                        proof'.type = "jwt", ProofHolds(proof.jwt, n)'
                 PROVE  now' > records'[t'].cNonceExpiresAt \/ Current(t)' # {n'}
    BY DEF RefusedForCause
  <2>2. CASE LookupToken(h) /\ proof = Empty
    <3>1. UNCHANGED req
      BY <2>2 DEF LookupToken
    <3> QED
      BY <2>1, <2>2, <3>1 DEF ProofNonce
  <2>3. CASE pc[h] \in {"expiry", "nonce"} /\ RejectProof(h)
    <3>1. UNCHANGED <<req, records, now>> /\ n' = n
      BY <1>1, <2>3, FoundKept DEF RejectProof, LookupToken
    <3>2. /\ n # Empty /\ ProofNonce(req[h]) = n
          /\ proof.type = "jwt" /\ ProofHolds(proof.jwt, n)
      BY <2>1, <3>1 DEF ProofNonce, ProofOf
    <3>3. CASE ~NonceExpiryPasses(h)
      <4>1. ~(now <= records[t].cNonceExpiresAt)
        BY <3>2, <3>3 DEF NonceExpiryPasses, ProofNonce
      <4>2. now \in Nat /\ records[t].cNonceExpiresAt \in Nat
        BY <1>1, <2>3 DEF TypeOK, PlaceOK, IsMap, AccessTokenRecord
      <4> QED
        BY <3>1, <4>1, <4>2
    <3>4. CASE ~ProofPasses(h)
      <4>1. records[t].cNonce # n
        BY <3>2, <3>4 DEF ProofPasses
      <4> QED
        BY <3>1, <4>1 DEF Current
    <3> QED
      BY <1>3, <2>1, <2>3, <3>3, <3>4, ProofRefused DEF LookupToken
  <2> QED
    BY <1>3, <2>1, <2>2, <2>3, ProofRefused
<1> QED
  BY <1>2, <1>3

-----------------------------------------------------------------------------
(* The theorems. *)

(* Whichever step the handler takes, ProofInv holds of it afterwards.      *)
LEMMA MoverProof ==
  ASSUME IssuerInv, DrawnInv, "store" \notin Faults, \A g \in Handlers : ProofInv(g),
         NEW h \in Handlers, HandleToken(h) \/ HandleCredential(h)
  PROVE  ProofInv(h)'
<1>1. ASSUME HandleToken(h) PROVE ProofInv(h)'
  BY <1>1, QuietStepProof, GrantTokenProof DEF HandleToken
<1>2. ASSUME HandleCredential(h) PROVE ProofInv(h)'
  BY <1>2, QuietStepProof, LookupTokenProof, CheckNonceExpiryProof, CheckProofProof,
     IssueCredentialProof, BeginRotateProof, EndRotateProof
     DEF HandleCredential, RotateFails
<1> QED
  BY <1>1, <1>2

(* Every step preserves the invariant.                                     *)
LEMMA NonceStep ==
  ASSUME IssuerInv, NonceInv, [Next]_vars
  PROVE  NonceInv'
<1>1. DrawnInv' /\ LifetimeInv' /\ \A h \in Handlers : FoundInv(h)' /\ RefusedForCause(h)'
  BY DrawnStep, LifetimeStep, FoundStep, RefusedStep DEF NonceInv
<1> SUFFICES ASSUME "store" \notin Faults, NEW g \in Handlers
             PROVE  ProofInv(g)'
  BY <1>1 DEF NonceInv
<1>2. TypeOK /\ DrawnInv /\ \A h \in Handlers : ProofInv(h)
  BY DEF IssuerInv, NonceInv
<1>3. CASE \E h \in Handlers, r \in TokenRequests \cup CredentialRequests : Receive(h, r)
  <2>1. PICK h \in Handlers, r \in TokenRequests \cup CredentialRequests : Receive(h, r)
    BY <1>3
  <2>2. CASE g = h
    <3>1. pc[g] = "ready" /\ pc'[g] \in {"consume", "lookup"} /\ UNCHANGED <<local, reply>>
      BY <1>2, <2>1, <2>2 DEF Receive, Goto, TypeOK
    <3>2. ~Issued(g) /\ ~Answered(g)
      BY <1>2, <3>1 DEF TypeOK, PlaceOK, IssuerInv, TakerInv
    <3> QED
      BY <3>1, <3>2, QuietProof DEF Issued, Answered
  <2>3. CASE g # h
    <3>1. UNCHANGED <<pc[g], req[g], local[g], reply[g], stale[g]>>
      BY <1>2, <2>1, <2>3 DEF Receive, Goto, TypeOK
    <3> QED
      BY <1>1, <1>2, <3>1, ProofFrame
  <2> QED
    BY <2>2, <2>3
<1>4. CASE \E h \in Handlers : HandleToken(h) \/ HandleCredential(h)
  <2>1. PICK h \in Handlers : HandleToken(h) \/ HandleCredential(h)
    BY <1>4
  <2>2. CASE g = h
    BY <1>2, <2>1, <2>2, MoverProof
  <2>3. CASE g # h
    <3>1. UNCHANGED <<pc[g], req[g], local[g], reply[g], stale[g]>>
      BY <1>2, <2>1, <2>3, OneMoves
    <3> QED
      BY <1>1, <1>2, <3>1, ProofFrame
  <2> QED
    BY <2>2, <2>3
<1>5. CASE Tick \/ (\E cfg \in OfferConfigs, code \in Codes : NewOffer(cfg, code))
           \/ UNCHANGED vars
  <2>1. UNCHANGED <<pc[g], req[g], local[g], reply[g], stale[g]>>
    BY <1>5 DEF Tick, NewOffer, vars
  <2> QED
    BY <1>1, <1>2, <2>1, ProofFrame
<1> QED
  BY <1>3, <1>4, <1>5 DEF Next

(* At first there is neither a record nor a nonce.                         *)
LEMMA NonceInit == Init => NonceInv
<1> SUFFICES ASSUME Init PROVE NonceInv
  OBVIOUS
<1>1. /\ tokenMu = Empty /\ DOMAIN records = {}
      /\ \A t \in Tokens : handed[t] = {}
      /\ \A h \in Handlers : /\ pc[h] = "ready" /\ reply[h] = Empty
                             /\ local[h] = NoLocals
  BY DEF Init, TokenStoreInit
<1>2. DrawnInv
  BY <1>1, IssuerAssumption DEF DrawnInv, NoLocals
<1>3. LifetimeInv
  BY <1>1 DEF LifetimeInv
<1>4. ASSUME NEW h \in Handlers
      PROVE  ProofInv(h) /\ FoundInv(h) /\ RefusedForCause(h)
  BY <1>1 DEF ProofInv, ViewInv, LiveInv, FoundInv, RefusedForCause, Answered, Issued, NoLocals
<1> QED
  BY <1>2, <1>3, <1>4 DEF NonceInv

(* In every behaviour nonces are drawn once, stored by whoever drew them   *)
(* under the mutex, and seen by the handlers as NonceInv says.             *)
THEOREM NonceInvariantHolds == Spec => []NonceInv
<1>1. Init => NonceInv
  BY NonceInit
<1>2. IssuerInv /\ NonceInv /\ [Next]_vars => NonceInv'
  BY NonceStep
<1> QED
  BY <1>1, <1>2, InvariantHolds, PTL DEF Spec

(* The nonce of an accepted proof was handed out for the token presented   *)
(* and was neither replaced nor spent when the request looked the token up *)
(* (handleCredential over RotateCNonce).                                   *)
THEOREM NonceIsLiveHolds == Spec => []NonceIsLive
<1>1. IssuerInv /\ NonceInv => NonceIsLive
  BY DEF IssuerInv, IssueInv, NonceInv, ProofInv, LiveInv, NonceIsLive
<1> QED
  BY <1>1, InvariantHolds, NonceInvariantHolds, PTL

(* A successful answer carries the nonce stored for its token until        *)
(* another request on that token rotates it (TokenResponse and             *)
(* CredentialResponse).                                                    *)
THEOREM NonceInStepHolds == Spec => []NonceInStep
<1>1. NonceInv => NonceInStep
  BY DEF NonceInv, ProofInv, ViewInv, NonceInStep
<1> QED
  BY <1>1, NonceInvariantHolds, PTL

(* A well made proof with the nonce that the record held at the lookup is  *)
(* refused only if that very nonce has expired, or another request has     *)
(* replaced it or is about to (validateProof).                             *)
THEOREM NoSpuriousRefusalHolds == Spec => []NoSpuriousRefusal
<1>1. NonceInv => NoSpuriousRefusal
  BY DEF NonceInv, NoSpuriousRefusal
<1> QED
  BY <1>1, NonceInvariantHolds, PTL
=============================================================================
