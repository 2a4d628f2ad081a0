------------------------------ MODULE MCIssuer ------------------------------
(***************************************************************************)
(* Small instances of the issuer: two configurations share a format, one   *)
(* has no credential type, and one more identifier is unknown to it.       *)
(***************************************************************************)
EXTENDS IssuerProperties, TLC

CONSTANTS c1, c2, t1, t2, p1, p2, s1, s2, ec, rsa

MCConfigIds == {"mortgage", "loan", "badge", "unknown"}
MCFormats == {"vc+sd-jwt", "jwt_vc_json"}
MCVCTs == {"Mortgage", "Loan"}

MCSupported ==
  "mortgage" :> [format |-> "vc+sd-jwt", vct |-> "Mortgage"]
  @@ "loan"  :> [format |-> "vc+sd-jwt", vct |-> "Loan"]
  @@ "badge" :> [format |-> "jwt_vc_json", vct |-> Empty]

-----------------------------------------------------------------------------
(* Offers: with and without a PIN, for two subjects; and the ones NewOffer *)
(* refuses (no subject, no configuration, an unknown one).                 *)
OfferFor(subject, configs, pin, ttl) ==
  [subject |-> subject, configs |-> configs, txCode |-> pin, ttl |-> ttl]

AllOffers ==
  {OfferFor(s1, {"mortgage"}, p1, 0), OfferFor(s2, {"loan", "badge"}, Empty, 1),
   OfferFor(Empty, {"loan"}, Empty, 0), OfferFor(s1, {}, p1, 0),
   OfferFor(s1, {"mortgage", "unknown"}, p1, 0)}

TwoOffers ==
  {OfferFor(s1, {"mortgage", "badge"}, Empty, 0), OfferFor(s2, {"loan"}, p1, 0)}

OneOffer == {OfferFor(s1, {"mortgage", "badge"}, Empty, 0)}

-----------------------------------------------------------------------------
(* Token requests. *)
Redeem(code, pin) == [preAuthGrant |-> TRUE, code |-> code, txCode |-> pin]

AllTokenRequests ==
  {Redeem(c, p) : c \in Codes, p \in Optional(Pins)}
  \cup {Redeem(Empty, Empty), [Redeem(c1, Empty) EXCEPT !.preAuthGrant = FALSE]}

PinTokenRequests == {Redeem(c, p1) : c \in Codes}

-----------------------------------------------------------------------------
(* Proofs and credential requests. *)
Sig(key, alg) ==
  [key |-> key, hash |-> DigestFor(alg), scheme |-> Scheme(key, alg)]

GoodProof(key, alg, nonce) ==
  [decodes |-> TRUE, typ |-> "openid4vci-proof+jwt", alg |-> alg, jwk |-> key,
   aud |-> "issuer", nonce |-> nonce, signature |-> Sig(key, alg)]

BadProofs ==
  LET good == GoodProof(ec, "ES256", Empty)
  IN {[good EXCEPT !.decodes = FALSE], [good EXCEPT !.typ = "other"],
      [good EXCEPT !.aud = "other"], [good EXCEPT !.jwk = Empty],
      [good EXCEPT !.jwk = "malformed"], [good EXCEPT !.jwk = rsa], [good EXCEPT !.alg = "other"],
      [good EXCEPT !.alg = "ES384"],
      [GoodProof(rsa, "RS256", Empty) EXCEPT !.alg = "PS256"]}

ById(token, id, proof) ==
  [token |-> token, decodes |-> TRUE, config |-> id, format |-> Empty,
   vct |-> Empty, proof |-> proof, proofs |-> Empty]

ByFormat(token, format, vct, proofs) ==
  [token |-> token, decodes |-> TRUE, config |-> Empty, format |-> format,
   vct |-> vct, proof |-> Empty, proofs |-> proofs]

Proof(jwt) == [type |-> "jwt", jwt |-> jwt]

(* With a good proof for each nonce, and with none. *)
NonceRequests(token) ==
  {ById(token, "mortgage", Proof(GoodProof(ec, "ES256", n))) : n \in Nonces}

AllCredentialRequests ==
  UNION {
    NonceRequests(t)
    \cup {ById(t, id, Empty) : id \in {"loan", "badge", "unknown"}}
    \cup {ByFormat(t, "vc+sd-jwt", Empty, <<GoodProof(rsa, "PS384", Empty)>>),
          ByFormat(t, "vc+sd-jwt", "Loan", <<>>),
          ByFormat(t, Empty, "Loan", Empty)}
    : t \in {t1, t2}}
  \cup {ById(t1, "badge", Proof(jwt)) : jwt \in BadProofs}
  \cup {ById(Empty, "badge", Empty),
        [ById(t1, "badge", Empty) EXCEPT !.decodes = FALSE],
        ById(t1, "badge", [type |-> "other", jwt |-> GoodProof(ec, "ES256", Empty)]),
        ById(t1, "badge", Proof(Empty)),
        [ById(t1, "badge", Proof(GoodProof(ec, "ES512", Empty)))
           EXCEPT !.proofs = <<GoodProof(rsa, "RS256", Empty)>>]}

NoRequests == {}

FewCredentialRequests ==
  NonceRequests(t1) \cup {ById(t1, "badge", Empty)}

FaultCredentialRequests ==
  FewCredentialRequests \cup {ById(t1, "loan", Empty)}

MCSymmetry == Permutations(Handlers)
NonceSymmetry == Permutations(Handlers) \cup Permutations(Nonces)
=============================================================================
