------------------------------ MODULE ProofJWT ------------------------------
(***************************************************************************)
(* The checks on a key-proof JWT (internal/jose): ValidateProofJWT, the    *)
(* conversion of the embedded JWK and the signature check.  A JWT is the   *)
(* record of what the checks read of it:                                   *)
(*   decodes  Decode succeeds (three parts, base64url, JSON)               *)
(*   typ, alg, jwk    header fields; a jwk that is there is either the one *)
(*                    of a key or malformed                                *)
(*   aud, nonce       claims; "issuer" is this issuer's own identifier     *)
(*                    ("other" in a field: absent, or any other value)     *)
(*   signature        the key, hash and scheme that made the signature,    *)
(*                    over this very header and payload                    *)
(***************************************************************************)
EXTENDS OID4VCITypes

CONSTANT RSAKeys   \* the members of Keys that are RSA keys; the others are EC

ASSUME RSAKeysAssumption == RSAKeys \subseteq Keys

Algs256 == {"ES256", "RS256", "PS256"}
Algs384 == {"ES384", "RS384", "PS384"}
Algs512 == {"ES512", "RS512", "PS512"}
PSAlgs  == {"PS256", "PS384", "PS512"}

JWT == [decodes: BOOLEAN, typ: {"openid4vci-proof+jwt", "other"},
        alg: Algs256 \cup Algs384 \cup Algs512 \cup {"other"}, jwk: Optional(Keys \cup {"malformed"}),
        aud: {"issuer", "other"}, nonce: Optional(Nonces),
        signature: [key: Keys, hash: {"SHA256", "SHA384", "SHA512"},
                    scheme: {"ECDSA", "PSS", "PKCS1v15"}]]

ProofTypes == {"jwt", "other"}

(* digestFor: the hash an algorithm uses, if it is a supported one. *)
DigestFor(alg) ==
  CASE alg \in Algs256 -> "SHA256"
    [] alg \in Algs384 -> "SHA384"
    [] alg \in Algs512 -> "SHA512"
    [] OTHER           -> "unsupported"

(* The type switch of Verify: the key decides the scheme; for an RSA key   *)
(* the algorithm only picks between PSS and PKCS #1 v1.5.                   *)
Scheme(key, alg) ==
  IF key \notin RSAKeys THEN "ECDSA"
  ELSE IF alg \in PSAlgs THEN "PSS" ELSE "PKCS1v15"

(* Mutant: the signature is not compared with the key. *)
VerifyAnyKey(jwt, key, alg) ==
  /\ DigestFor(alg) # "unsupported"
  /\ jwt.signature.hash = DigestFor(alg)

Verify(jwt, key, alg) ==
  /\ DigestFor(alg) # "unsupported"
  /\ jwt.signature = [key |-> key, hash |-> DigestFor(alg),
                      scheme |-> Scheme(key, alg)]

(* Mutant: any nonce passes, as long as there is one. *)
NonceIsThere(jwt, expectedNonce) == expectedNonce = Empty \/ jwt.nonce # Empty

(* An absent nonce passes whatever is expected, and an empty expectation   *)
(* lets every nonce pass.                                                  *)
NonceMatches(jwt, expectedNonce) ==
  expectedNonce = Empty \/ jwt.nonce \in {Empty, expectedNonce}

ValidateProofJWT(jwt, expectedNonce) ==
  /\ jwt.decodes
  /\ jwt.typ = "openid4vci-proof+jwt"
  /\ jwt.aud = "issuer"
  /\ NonceMatches(jwt, expectedNonce)

(* jwkMapToPublicKey, PublicKeyToGoKey: an EC or RSA key of a known curve  *)
(* with decodable coordinates, or an error (Empty).                        *)
PublicKeyToGoKey(jwk) == IF jwk \in Keys THEN jwk ELSE Empty

(* The part of validateProof that follows its expiry check. *)
ProofHolds(jwt, expectedNonce) ==
  /\ ValidateProofJWT(jwt, expectedNonce)
  /\ PublicKeyToGoKey(jwt.jwk) # Empty
  /\ Verify(jwt, PublicKeyToGoKey(jwt.jwk), jwt.alg)
=============================================================================
