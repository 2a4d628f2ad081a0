-------------------------- MODULE SystemProperties --------------------------
(***************************************************************************)
(* What a wallet can count on, end to end: how the sessions it holds       *)
(* relate to the records the issuer holds, whichever sessions it uses, in  *)
(* whatever order, at once or again, and whichever answers are lost.       *)
(***************************************************************************)
EXTENDS System, IssuerProperties

Called(h)    == calls[h] # Empty
IsRequest(h) == Called(h) /\ calls[h].config # Empty

(* The answer of h was lost: its caller has given up on a call that the    *)
(* server has granted or is about to, or may still grant.                  *)
Lost(h) ==
  Called(h) /\ calls[h].outcome = "failed" /\ (Answered(h) => reply[h].error = Empty)

(* The sessions and the calls that speak of the token t. *)
About(h, t) == (Granted(h) /\ reply[h].token = t) \/ (IsRequest(h) /\ req[h].token = t)

SystemTypeOK ==
  /\ TypeOK
  /\ sessions \subseteq Session
  /\ calls \in [Handlers -> Optional(Call)]
  /\ \A h \in Handlers : Called(h) <=> pc[h] # "ready"

(* The token in a session is the one the issuer sold for that session's    *)
(* own offer, with that offer's configurations.  Once the answer to a      *)
(* redemption is lost no session of its offer will ever hold a token: the  *)
(* code is spent, and calling RedeemOffer again does not help              *)
(* (client.go:193-222, issuer.go:225-272).                                 *)
SessionRights ==
  /\ \A s \in sessions : s.token # Empty =>
       /\ s.token \in DOMAIN records
       /\ records[s.token].offer = s.code
       /\ records[s.token].configs = s.configs
  /\ \A h \in Handlers : Granted(h) /\ Lost(h) =>
       \A s \in sessions : s.code = req[h].code => s.token = Empty

(* What RequestCredential returns is what was offered: a credential of the *)
(* configuration asked for, which the session's offer includes, in the     *)
(* format it reports, for that offer's subject, after a redemption with    *)
(* its PIN (client.go:231-314).                                            *)
AcquiredAsOffered ==
  \A h \in Handlers : IsRequest(h) /\ calls[h].outcome = "returned" =>
    LET cred == reply[h].credential
        session == calls[h].session
        offer == offers[session.code].offer
    IN /\ cred.config = calls[h].config
       /\ cred.config \in session.configs \cap DOMAIN Supported
       /\ FormatOf(Supported, calls[h].config) = Supported[cred.config].format
       /\ cred.subject = offer.subject
       /\ \E g \in Handlers : Granted(g) /\ req[g].code = session.code /\ PinGiven(g, offer)

(* Every answer about t has come back.                                     *)
Settled(t) == \A h \in Handlers : About(h, t) => ~Waiting(h) /\ ~Lost(h)

Superseded(s) ==
  \E h \in Handlers : Called(h) /\ calls[h].outcome = "returned" /\ calls[h].session = s

(* When no answer is lost or on its way, some session that no successful   *)
(* call was made from holds the nonce the issuer expects next, whichever   *)
(* sessions the calls were made from and although failed calls lie between *)
(* (client.go:214-222, 304-313, issuer.go:277-282, 345-363).  If the       *)
(* issuer has none, because generateToken failed, a session is left with   *)
(* one that it had.                                                        *)
LastSessionInStep ==
  "store" \notin Faults =>
    \A t \in DOMAIN records : Settled(t) =>
      \E s \in sessions :
        /\ s.token = t
        /\ \/ s.cNonce = records[t].cNonce /\ ~Superseded(s)
           \/ s.cNonce \in handed[t] \ {Empty} /\ records[t].cNonce = Empty

(* However calls overlap and fail: the nonce the issuer expects is in some *)
(* session, unless it is the one in an answer that has not arrived, and    *)
(* then only that answer holds it.  Losing it loses the token's last       *)
(* nonce: the one in an invalid_proof answer is no substitute.             *)
NonceKnown ==
  \A t \in DOMAIN records : records[t].cNonce # Empty =>
    \/ \E s \in sessions : s.token = t /\ s.cNonce = records[t].cNonce
    \/ \E h \in Handlers :
         /\ About(h, t) /\ local[h].nonce = records[t].cNonce
         /\ calls[h].outcome # "returned"

(* A wallet discards a token or a nonce that the issuer still accepts only *)
(* in its last second: answers give lifetimes in whole seconds, rounded    *)
(* down, so the expiry in a session is less than a second before the       *)
(* issuer's (client.go:216-220, 308-310, issuer.go:280-282, 355, 361).  It *)
(* can be later, by the time the answer took.  A nonce that lives for less *)
(* than a second has no expiry in the session, or an older nonce's.        *)
ExpiryNotASecondEarly ==
  \A s \in sessions : s.token # Empty =>
    LET r == records[s.token]
    IN /\ s.tokenExpiry + Second > r.expiresAt
       /\ /\ s.cNonce = r.cNonce /\ r.cNonce # Empty
          /\ tokenMu = Empty /\ CNonceTTL >= Second
          => s.cNonceExpiry + Second > r.cNonceExpiresAt

(* What made a redemption fail: something below the issuer, the lifetime   *)
(* of the offer, the PIN, or another request that had the code.            *)
RedeemCause(h) ==
  LET code == req[h].code
      offer == offers[code].offer
  IN \/ reply[h].error = "server_error" /\ Faults \cap {"rand", "store"} # {}
     \/ /\ reply[h].error = "invalid_grant"
        /\ \/ now > offer.expiresAt
           \/ ~PinGiven(h, offer)
           \/ offers[code].used /\ local[h].offer = Empty

(* What made a credential request without a proof fail: the factory, the   *)
(* token's lifetime or the token store, a configuration that was not       *)
(* offered, or an issuer that wants a proof.                               *)
RequestCause(h) ==
  LET call == calls[h]
      t == req[h].token
  IN \/ reply[h].error = "server_error" /\ "factory" \in Faults
     \/ /\ reply[h].error = "invalid_token"
        /\ t = Empty \/ "store" \in Faults \/ now > records[t].expiresAt
     \/ /\ reply[h].error = "unsupported_credential_type"
        /\ call.config \notin call.session.configs
     \/ reply[h].error = "invalid_proof" /\ RequireProof

CallCause(h) ==
  Called(h) /\ Answered(h) /\ reply[h].error # Empty =>
    IF IsRequest(h) THEN calls[h].signer = Empty => RequestCause(h) ELSE RedeemCause(h)

(* Issuer and library agree on the protocol: a call without a signer is    *)
(* answered with an error only for a cause that lies with the caller,      *)
(* another caller, time or a failure, and with the code of that cause      *)
(* (client.go:160-314, issuer.go:206-349).  A call with a signer may be    *)
(* refused through no fault of its caller's: see KeyIsEmbedded.            *)
CallsFailForCause == \A h \in Handlers : CallCause(h)

-----------------------------------------------------------------------------
(* The inductive invariant on sessions and calls; it holds together with   *)
(* the issuer's.                                                           *)

(* A call's request is made from a session that exists.  A call that has   *)
(* returned was answered, and left its nonce in a session of its token;    *)
(* one that redeems a session already redeemed takes no offer.             *)
CallInv(h) ==
  Called(h) =>
    LET call == calls[h]
    IN /\ call.session \in sessions
       /\ IF IsRequest(h)
          THEN /\ req[h] \in CredentialRequests
               /\ req[h].token = call.session.token /\ req[h].config = call.config
          ELSE /\ req[h] \in TokenRequests
               /\ req[h].code = call.session.code
               /\ call.session.token # Empty => local[h].offer = Empty
       /\ call.outcome = "returned" =>
            /\ Answered(h) /\ reply[h].error = Empty
            /\ reply[h].cNonce # Empty =>
                 \E s \in sessions : s.cNonce = reply[h].cNonce /\ About(h, s.token)

(* A session is one of an offer, and its token was granted for that offer  *)
(* in an answer that arrived.  Its nonce came in an answer too, and it     *)
(* expires less than a second before the issuer's, once no rotation is     *)
(* under way.                                                              *)
HeldInv(s) ==
  /\ s.code \in DOMAIN offers /\ s.configs = offers[s.code].offer.configs
  /\ s.token # Empty =>
       LET r == records[s.token]
       IN /\ \E h \in Handlers :
               /\ Granted(h) /\ calls[h].outcome = "returned"
               /\ reply[h].token = s.token /\ local[h].offer = s.code
          /\ s.tokenExpiry + Second > r.expiresAt
          /\ s.cNonce # Empty =>
               /\ \E h \in Handlers : pc[h] = "done" /\ local[h].nonce = s.cNonce
               /\ "store" \notin Faults => s.cNonce \in handed[s.token]
               /\ /\ s.cNonce = r.cNonce /\ CNonceTTL >= Second
                  /\ ~\E h \in Handlers : pc[h] = "unlock" /\ req[h].token = s.token
                  => s.cNonceExpiry + Second > r.cNonceExpiresAt

(* The nonce of the session that a successful call was made from is not    *)
(* the issuer's any more.                                                  *)
SpentSession(h) ==
  IsRequest(h) /\ Issued(h) /\ Answered(h) =>
    calls[h].session.cNonce \notin Current(req[h].token) \ {Empty}

SessionInv ==
  /\ \A h \in Handlers : CallInv(h)
  /\ \A s \in sessions : HeldInv(s)
  /\ "store" \notin Faults => \A h \in Handlers : SpentSession(h)

(* A call sends what the library builds of its session.                    *)
FormInv(h) ==
  LET call == calls[h]
      session == call.session
  IN Called(h) =>
       IF IsRequest(h)
       THEN req[h] = CredentialBody(session.token, session.cNonce, call.config, call.signer)
       ELSE \E pin \in CallerPins : req[h] = TokenForm(session.code, pin)

(* An offer is of supported configurations, and its code was spent by a    *)
(* redemption that took it or was answered that something failed.          *)
SpenderInv(c) ==
  /\ offers[c].offer.configs \subseteq DOMAIN Supported
  /\ offers[c].used =>
       \E h \in Handlers :
         /\ Called(h) /\ ~IsRequest(h) /\ req[h].code = c
         /\ \/ local[h].offer = c
            \/ Answered(h) /\ reply[h].error = "server_error"

(* Inductive with the other invariants of the system.                      *)
CauseInv ==
  /\ \A c \in DOMAIN offers : SpenderInv(c)
  /\ \A t \in DOMAIN records : records[t].expiresAt >= AccessTokenTTL
  /\ \A h \in Handlers : FormInv(h) /\ CallCause(h)

-----------------------------------------------------------------------------
(* "If your signer also implements PublicKeyJWK, the client automatically  *)
(* embeds your public key in the proof JWT header, enabling key binding"   *)
(* (README.md:129).                                                        *)
KeyIsEmbedded ==
  \A h \in Handlers : IsRequest(h) /\ calls[h].signer # Empty =>
    calls[h].signer.jwk \in {Empty, ProofOf(req[h]).jwt.jwk}
=============================================================================
