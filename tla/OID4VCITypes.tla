---------------------------- MODULE OID4VCITypes ----------------------------
(***************************************************************************)
(* The values the issuer, its stores and its clients exchange: the structs *)
(* of issuer/store.go and of types/types.go, reduced to the fields some    *)
(* branch of the code reads.  A string is a member of a small set, and the *)
(* Go zero value -- "" for a string, nil for a pointer -- is Empty.        *)
(***************************************************************************)
EXTENDS Naturals, Sequences

CONSTANTS
  Empty,      \* "" or nil
  Codes,      \* pre-authorised codes; the offer's ID is identified with its code
  Tokens,     \* access tokens
  Nonces,     \* c_nonces
  Pins,       \* transaction codes
  Subjects,   \* SubjectID together with Metadata: both only travel with the offer
  ConfigIds,  \* credential configuration identifiers, supported or not
  Formats,    \* credential formats
  VCTs,       \* credential types
  Keys        \* holder keys a JWK can be converted to

Optional(S) == {Empty} \cup S

(* A Go map after m[k] = v. *)
Put(m, k, v) == [x \in DOMAIN m \cup {k} |-> IF x = k THEN v ELSE m[x]]

(* A map from some of the keys in K to values in V. *)
IsMap(m, K, V) ==
  /\ DOMAIN m \subseteq K
  /\ m = [k \in DOMAIN m |-> m[k]]
  /\ \A k \in DOMAIN m : m[k] \in V

(***************************************************************************)
(* Server-side records (issuer/store.go, issuer/memory.go).                *)
(***************************************************************************)
Offer == [configs: SUBSET ConfigIds, txCode: Optional(Pins),
          subject: Subjects, expiresAt: Nat]

OfferEntry == [offer: Offer, used: BOOLEAN]

AccessTokenRecord ==
  [offer: Codes, subject: Subjects, configs: SUBSET ConfigIds,
   cNonce: Optional(Nonces), cNonceExpiresAt: Nat, expiresAt: Nat]

CredentialConfiguration == [format: Formats, vct: Optional(VCTs)]

(* What the caller of NewOffer passes; subject and configs may be missing. *)
OfferConfig == [subject: Optional(Subjects), configs: SUBSET ConfigIds,
                txCode: Optional(Pins), ttl: Nat]

(***************************************************************************)
(* A credential stands for the server-side request its factory call got:   *)
(* nothing else decides its content.                                       *)
(***************************************************************************)
Credential == [config: ConfigIds, subject: Subjects, key: Optional(Keys)]

(* The error codes the issuer's handlers answer with (errors.go). *)
ErrorCodes ==
  {"invalid_request", "invalid_token", "invalid_proof",
   "unsupported_credential_type", "invalid_grant", "server_error"}

(* The fields of TokenResponse, CredentialResponse and ErrorResponse. *)
Reply == [error: Optional(ErrorCodes), token: Optional(Tokens),
          cNonce: Optional(Nonces), credential: Optional(Credential)]

ASSUME EmptyAssumption ==
  Empty \notin Codes \cup Tokens \cup Nonces \cup Pins \cup Subjects
                 \cup ConfigIds \cup Formats \cup VCTs \cup Keys
                 \cup ErrorCodes \cup Credential \cup Reply
=============================================================================
