------------------------------ MODULE MCSystem ------------------------------
(* Small instances of wallets and issuer. *)
EXTENDS MCIssuer, SystemRefinement

(* One of them NewOffer refuses. *)
ThreeOffers == TwoOffers \cup {OfferFor(Empty, {"loan"}, Empty, 0)}

PinOffer == {OfferFor(s1, {"mortgage"}, p1, 0)}

(* The library's signer, one whose curve is P-384 and that exposes its     *)
(* key, and two that cannot make a proof.                                  *)
AllSigners ==
  {Empty, ECDSASigner(ec, "P-256", Empty),
   [ECDSASigner(ec, "P-384", Empty) EXCEPT !.jwk = ec],
   [ECDSASigner(ec, "P-256", Empty) EXCEPT !.jwk = "error"],
   ECDSASigner(ec, "P-521", "other")}

GoodSigner == {Empty, ECDSASigner(ec, "P-256", Empty)}

NoSigner == {Empty}

AnyConfig == {Empty, "mortgage", "loan"}
OneConfig == {"mortgage"}

DefaultConfig == {Empty}

RightPin == {p1}
AnyPin == {Empty, p1}

LibraryTokenRequests == {TokenForm(c, p) : c \in Codes, p \in CallerPins}

LibraryCredentialRequests ==
  {CredentialBody(t, Empty, k, Empty) : t \in Optional(Tokens), k \in ConfigIds}
  \cup {CredentialBody(t, n, k, g) : t \in Optional(Tokens), n \in Nonces, k \in ConfigIds,
          g \in {g \in CallerSigners \ {Empty} : \A n \in Nonces : CanBuildProof(n, g)}}

(* With requests built from sessions, no definition names a code or token. *)
WalletSymmetry == NonceSymmetry \cup Permutations(Codes) \cup Permutations(Tokens)
=============================================================================
