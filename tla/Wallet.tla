------------------------------- MODULE Wallet -------------------------------
(***************************************************************************)
(* The wallet's library: client/client.go and the signing half of          *)
(* internal/jose.  The Client keeps no state.  What accumulates is the     *)
(* AcquisitionSession, a value that every call returns an updated copy of, *)
(* so everything here is an operator from values to values; the calls are  *)
(* the actions of module System.                                           *)
(*                                                                         *)
(* A signer is any implementation of the Signer interface: key, hash and   *)
(* scheme are what its Sign uses (hash is "unsupported" when Sign fails),  *)
(* alg is what Algorithm() answers, jwk what PublicKeyJWK() answers:       *)
(* Empty when the signer has no such method, "error" when that fails.      *)
(* The issuer reads no kid, so there is none.                              *)
(***************************************************************************)
EXTENDS ProofJWT

CONSTANT Second   \* time.Second, in ticks of the clock

ASSUME SecondAssumption == Second \in Nat \ {0}

Signer ==
  [key: Keys, alg: Algs256 \cup Algs384 \cup Algs512 \cup {"other"},
   hash: {"SHA256", "SHA384", "SHA512", "unsupported"},
   scheme: {"ECDSA", "PSS", "PKCS1v15"}, jwk: Optional(Keys \cup {"error"})]

(* ECDSASigner: alg defaults to the one of the key's curve. *)
Algorithm(curve, alg) ==
  CASE alg # Empty     -> alg
    [] curve = "P-384" -> "ES384"
    [] curve = "P-521" -> "ES512"
    [] OTHER           -> "ES256"

ECDSASigner(key, curve, alg) ==
  [key |-> key, alg |-> Algorithm(curve, alg), scheme |-> "ECDSA",
   hash |-> DigestFor(Algorithm(curve, alg)), jwk |-> Empty]

CanSign(signer) == signer.hash # "unsupported"

(* jose.Sign: extraHeader overrides what the signer and the caller set. *)
SignJWT(typ, extraHeader, claims, signer) ==
  LET header == [f \in {"typ", "alg", "jwk"} |->
        CASE f \in DOMAIN extraHeader -> extraHeader[f]
          [] f = "typ" -> typ
          [] f = "alg" -> signer.alg
          [] OTHER     -> Empty]
  IN [decodes |-> TRUE, typ |-> header["typ"], alg |-> header["alg"],
      jwk |-> header["jwk"], aud |-> claims.aud, nonce |-> claims.nonce,
      signature |-> [key |-> signer.key, hash |-> signer.hash,
                     scheme |-> signer.scheme]]

NoHeader == [f \in {} |-> Empty]

BuildProofJWT(signer, issuerURI, nonce) ==
  SignJWT("openid4vci-proof+jwt", NoHeader, [aud |-> issuerURI, nonce |-> nonce], signer)

(* Client.buildProof asks the signer for its JWK, and fails if that fails, *)
(* but the adapter it puts the JWK in hands only the signer's own methods  *)
(* to BuildProofJWT.                                                       *)
CanBuildProof(nonce, signer) ==
  nonce # Empty /\ signer.jwk # "error" /\ CanSign(signer)

BuildProof(nonce, signer) == BuildProofJWT(signer, "issuer", nonce)

-----------------------------------------------------------------------------
(* An AcquisitionSession.  Metadata is the issuer's document, the same in  *)
(* every session, and is not repeated; code and configs are the offer.     *)
Session ==
  [code: Codes, configs: SUBSET ConfigIds,
   token: Optional(Tokens), tokenExpiry: Nat,
   cNonce: Optional(Nonces), cNonceExpiry: Nat]

(* ParseOffer: the session for an offer decoded from its URI. *)
NewSession(offer) ==
  [code |-> offer.code, configs |-> offer.configs,
   token |-> Empty, tokenExpiry |-> 0, cNonce |-> Empty, cNonceExpiry |-> 0]

(* RedeemOffer: the form it posts. *)
TokenForm(code, txCode) == [preAuthGrant |-> TRUE, code |-> code, txCode |-> txCode]

(* An answer gives lifetimes, expiresIn and cNonceExpiresIn, in seconds. *)
Expiry(now, expiresIn) == now + expiresIn * Second

(* Mutant: only the first answer's lifetime is noted down. *)
WithNonceKeepExpiry(session, nonce, expiresIn, now) ==
  [session EXCEPT !.cNonce = nonce,
     !.cNonceExpiry = IF expiresIn > 0 /\ @ = 0 THEN Expiry(now, expiresIn) ELSE @]

(* A c_nonce arrives; a lifetime of zero leaves the old expiry in place. *)
WithNonce(session, nonce, expiresIn, now) ==
  [session EXCEPT !.cNonce = nonce,
     !.cNonceExpiry = IF expiresIn > 0 THEN Expiry(now, expiresIn) ELSE @]

(* RedeemOffer: the session it returns on an answer. *)
AfterRedeem(session, reply, expiresIn, cNonceExpiresIn, now) ==
  [WithNonce(session, reply.cNonce, cNonceExpiresIn, now) EXCEPT
     !.token = reply.token, !.tokenExpiry = Expiry(now, expiresIn)]

(* RequestCredential: the configuration it asks for.  With no configID it  *)
(* is the first of the offer, which may be any: the model has no order.    *)
Requested(session, configID) ==
  IF configID = Empty THEN session.configs ELSE {configID}

(* RequestCredential: the body it posts, with the token in the header. *)
CredentialBody(token, nonce, configID, signer) ==
  [token |-> token, decodes |-> TRUE, config |-> configID,
   format |-> Empty, vct |-> Empty, proofs |-> Empty,
   proof |-> IF signer = Empty THEN Empty
             ELSE [type |-> "jwt", jwt |-> BuildProof(nonce, signer)]]

(* RequestCredential: the format it reports, from the issuer's metadata. *)
FormatOf(metadata, configID) ==
  IF configID \in DOMAIN metadata THEN metadata[configID].format ELSE Empty

(* Mutant: the rotated nonce is not taken over. *)
AfterRequestUnchanged(session, reply, cNonceExpiresIn, now) == session

(* RequestCredential: the session it returns on an answer. *)
AfterRequest(session, reply, cNonceExpiresIn, now) ==
  IF reply.cNonce = Empty THEN session
  ELSE WithNonce(session, reply.cNonce, cNonceExpiresIn, now)
=============================================================================
