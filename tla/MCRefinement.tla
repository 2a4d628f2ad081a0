---------------------------- MODULE MCRefinement ----------------------------
(* An instance for the refinement: no two offers alike, and requests that  *)
(* name, or leave open, a configuration some of the offers include.        *)
EXTENDS MCIssuer, IssuerRefinement

OrderRequests ==
  {ById(t1, "mortgage", Proof(GoodProof(ec, "ES256", Empty))),
   ById(t2, "badge", Empty),
   ById(t1, "loan", Proof([GoodProof(rsa, "RS256", Empty) EXCEPT !.jwk = ec])),
   ByFormat(t2, "vc+sd-jwt", Empty, <<GoodProof(rsa, "PS384", Empty)>>)}
=============================================================================
