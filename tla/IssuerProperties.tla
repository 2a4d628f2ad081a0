-------------------------- MODULE IssuerProperties --------------------------
(***************************************************************************)
(* What the issuer promises.  Every property quantifies over arbitrary     *)
(* requests in flight at once.  A handler serves one request and keeps its *)
(* request, locals and reply afterwards, so they double as the history of  *)
(* what was asked and answered.                                            *)
(***************************************************************************)
EXTENDS Issuer

Answered(h) == reply[h] # Empty
Granted(h)  == Answered(h) /\ reply[h].token # Empty
Issued(h)   == local[h].credential # Empty

PinGiven(h, offer) == offer.txCode = Empty \/ req[h].txCode = offer.txCode

-----------------------------------------------------------------------------
(* Types, with what a handler's place in the code says of its request.     *)

(* A handler past extractToken serves a credential request and holds a     *)
(* record that is still stored; a handler past Consume serves a token      *)
(* request and holds the offer of its code.                                *)
PlaceOK(h) ==
  /\ pc[h] = "ready" => req[h] = Empty /\ local[h].config = Empty
  /\ pc[h] \in {"consume", "grant"} => req[h] \in TokenRequests
  /\ pc[h] \in {"lookup", "expiry", "nonce", "issue", "rotate", "unlock"}
       => req[h] \in CredentialRequests
  /\ Issued(h) => /\ req[h] \in CredentialRequests
                  /\ pc[h] \in {"rotate", "unlock", "done"}
  /\ pc[h] \in {"rotate", "unlock"} => Issued(h)
  /\ pc[h] \in {"expiry", "nonce", "issue", "rotate", "unlock"}
       => req[h].token \in DOMAIN records
  /\ pc[h] \in {"expiry", "nonce"} => ProofOf(req[h]) # Empty
  /\ pc[h] = "nonce" => ProofOf(req[h]).jwt # Empty
  /\ pc[h] \in {"expiry", "nonce", "issue", "rotate", "unlock"}
       => local[h].config # Empty
  /\ pc[h] = "grant" => local[h].offer \in DOMAIN offers

TypeOK ==
  /\ IsMap(offers, Codes, OfferEntry)
  /\ IsMap(records, Tokens, AccessTokenRecord)
  /\ tokenMu \in Optional(Handlers)
  /\ now \in Nat
  /\ pc \in [Handlers -> PCs]
  /\ req \in [Handlers -> Optional(TokenRequests \cup CredentialRequests)]
  /\ local \in [Handlers -> Locals]
  /\ reply \in [Handlers -> Optional(Reply)]
  /\ handed \in [Tokens -> SUBSET Optional(Nonces)]
  /\ stale \in [Handlers -> SUBSET Optional(Nonces)]
  /\ \A h \in Handlers : PlaceOK(h)

-----------------------------------------------------------------------------
(* Redemption: codes and access tokens. *)

(* One code buys at most one token, however many requests present it at    *)
(* once, and none any more after a request that consumed it was refused    *)
(* (Consume then the PIN check, issuer.go:225-247).                        *)
OneTokenPerCode ==
  /\ \A t, u \in DOMAIN records : records[t].offer = records[u].offer => t = u
  /\ \A t \in DOMAIN records, h \in Handlers :
       local[h].offer = records[t].offer /\ Answered(h) => Granted(h)

(* Every stored token was granted to a request that named the code of a    *)
(* stored offer and its PIN, and carries exactly that offer's rights       *)
(* (handleToken, issuer.go:241-270).                                       *)
TokenEarned ==
  \A t \in DOMAIN records : \E h \in Handlers :
    LET r == records[t]
        offer == offers[r.offer].offer
    IN /\ r.offer \in DOMAIN offers
       /\ Granted(h) /\ reply[h].token = t /\ req[h].code = r.offer
       /\ PinGiven(h, offer)
       /\ r.subject = offer.subject /\ r.configs = offer.configs

(* A code is marked used exactly when one request has taken it, and, when  *)
(* nothing below the handler fails, that request is answered with a token  *)
(* if and only if it gave the right PIN: two requests racing for a code    *)
(* never both lose it, and a code is never lost to a correct request.      *)
RedemptionOutcome ==
  /\ \A g, h \in Handlers :
       local[g].offer = local[h].offer /\ local[h].offer # Empty => g = h
  /\ \A c \in DOMAIN offers :
       LET taken == \E h \in Handlers : local[h].offer = c
       IN /\ taken => offers[c].used
          /\ offers[c].used => taken \/ "store" \in Faults
  /\ Faults \cap {"rand", "store"} = {} =>
       \A h \in Handlers : local[h].offer # Empty /\ Answered(h) =>
         (Granted(h) <=> PinGiven(h, offers[local[h].offer].offer))

(* What a step may never do: replace or forget a stored offer or token,    *)
(* reopen a used code, or change whom and what a token entitles and until  *)
(* when.  RotateCNonce writes into the record that Get hands out, and the  *)
(* offer is shared by pointer, so nothing but the code prevents it.        *)
RightsKept ==
  /\ \A c \in DOMAIN offers :
       /\ c \in DOMAIN offers'
       /\ offers'[c].offer = offers[c].offer
       /\ offers[c].used => offers'[c].used
  /\ \A t \in DOMAIN records :
       /\ t \in DOMAIN records'
       /\ \A f \in {"offer", "subject", "configs", "expiresAt"} :
            records'[t][f] = records[t][f]

RightsAreFixed == [][RightsKept]_vars

-----------------------------------------------------------------------------
(* Issuance: credentials, proofs and nonces. *)

(* End to end: every credential traces back, through the token presented,  *)
(* to a redemption with the right PIN of an offer for that subject and     *)
(* that configuration; it is of the configuration asked for, by identifier *)
(* or by format (resolveConfigID, issuer.go:390-425).                      *)
CredentialEarned ==
  \A h \in Handlers : Issued(h) =>
    LET cred == local[h].credential
    IN /\ cred.config \in DOMAIN Supported
       /\ IF req[h].config # Empty THEN cred.config = req[h].config
          ELSE Supported[cred.config].format = req[h].format
       /\ \E g \in Handlers :
            LET offer == offers[local[g].offer].offer
            IN /\ local[g].offer \in DOMAIN offers
               /\ Granted(g) /\ reply[g].token = req[h].token
               /\ PinGiven(g, offer)
               /\ cred.subject = offer.subject /\ cred.config \in offer.configs

(* A credential is bound to a key only if this request's proof, for this   *)
(* issuer, was signed with that key under the hash its alg names; with     *)
(* RequireProof every credential is bound to one (validateProof,           *)
(* issuer.go:427-465, and the two proof forms, 311-331).                   *)
KeyBinding ==
  \A h \in Handlers : Issued(h) =>
    LET key == local[h].credential.key
        jwt == ProofOf(req[h]).jwt
    IN /\ key = Empty <=> ProofOf(req[h]) = Empty
       /\ key = Empty => ~RequireProof
       /\ key # Empty =>
            /\ jwt.signature.key = key /\ jwt.signature.hash = DigestFor(jwt.alg)
            /\ jwt.typ = "openid4vci-proof+jwt" /\ jwt.aud = "issuer"

(* The nonce in an accepted proof was handed out for the very token        *)
(* presented, and when the request looked the token up it had neither been *)
(* replaced nor spent by a request already answered.  The exception is a   *)
(* token that was once left without a nonce, because generateToken failed  *)
(* and its error was dropped (issuer.go:346): it takes any.  When          *)
(* RotateCNonce fails all of this is lost (issuer.go:347).                 *)
NonceIsLive ==
  "store" \notin Faults =>
    \A h \in Handlers : Issued(h) /\ ProofNonce(req[h]) # Empty =>
      \/ ProofNonce(req[h]) \in handed[req[h].token] \ stale[h]
      \/ Empty \in handed[req[h].token]

(* Some other request's credential has started the rotation of t's nonce.  *)
RotatedByAnother(h, t) ==
  \E g \in Handlers \ {h} :
    Issued(g) /\ req[g].token = t /\ pc[g] \in {"unlock", "done"}

(* Client and server stay in step: the nonce a successful answer carries   *)
(* is the one stored for its token, unless another request on that token   *)
(* has rotated it since (TokenResponse and CredentialResponse c_nonce,     *)
(* issuer.go:281, 355, 360).                                               *)
NonceInStep ==
  "store" \notin Faults =>
    \A h \in Handlers : Answered(h) /\ reply[h].error = Empty =>
      LET t == IF Granted(h) THEN reply[h].token ELSE req[h].token
      IN records[t].cNonce = reply[h].cNonce \/ RotatedByAnother(h, t)

(* What t's record holds, or will when the rotation under way ends.        *)
Current(t) ==
  {records[t].cNonce}
  \cup {local[h].nonce : h \in {h \in Handlers : pc[h] = "unlock" /\ req[h].token = t}}

(* A well made proof with the nonce that the record held at the lookup is  *)
(* refused only if that nonce has expired, by its own expiry, or another   *)
(* request has replaced it or is doing so.  As long as it is current, the  *)
(* record's expiry is its own.                                             *)
RefusedForCause(h) ==
  LET proof == ProofOf(req[h])
      nonce == local[h].foundNonce
      t == req[h].token
  IN /\ Answered(h) /\ reply[h].error = "invalid_proof"
     /\ nonce # Empty /\ ProofNonce(req[h]) = nonce
     /\ proof.type = "jwt" /\ ProofHolds(proof.jwt, nonce)
     => now > records[t].cNonceExpiresAt \/ Current(t) # {nonce}

(* No proof is refused without such a cause (validateProof, over a record  *)
(* that RotateCNonce of another request may change under it).              *)
NoSpuriousRefusal == \A h \in Handlers : RefusedForCause(h)

(* Every request that is received is answered: no handler waits for the    *)
(* token store's mutex for ever, whatever fails on the way.                *)
EveryRequestAnswered ==
  \A h \in Handlers : pc[h] # "ready" ~> pc[h] = "done"

-----------------------------------------------------------------------------
(* The inductive invariant.                                                *)

(* A handler's locals follow its place in the code; the offer it took is   *)
(* the one its request named, is marked used, and was taken with the right *)
(* PIN if the handler goes on to grant.                                    *)
TakerInv(h) ==
  /\ Answered(h) <=> pc[h] = "done"
  /\ pc[h] = "grant" => local[h].offer # Empty /\ local[h].token = Empty
  /\ local[h].offer # Empty =>
       /\ pc[h] \in {"grant", "done"}
       /\ WellFormed(req[h]) /\ local[h].offer = req[h].code
       /\ local[h].offer \in DOMAIN offers
       /\ offers[local[h].offer].used
       /\ pc[h] = "grant" \/ Granted(h) => PinGiven(h, offers[local[h].offer].offer)
       /\ pc[h] = "done" /\ ~Granted(h) /\ Faults \cap {"rand", "store"} = {}
            => ~PinGiven(h, offers[local[h].offer].offer)
  /\ local[h].token # Empty =>
       Granted(h) /\ reply[h].token = local[h].token
  /\ Granted(h) =>
       /\ local[h].offer # Empty
       /\ local[h].token = reply[h].token

(* A used code was taken by exactly one handler, or lost in a failure.     *)
CodeInv ==
  /\ \A g, h \in Handlers :
       local[g].offer = local[h].offer /\ local[h].offer # Empty => g = h
  /\ \A c \in DOMAIN offers : offers[c].used =>
       "store" \in Faults \/ \E h \in Handlers : local[h].offer = c

(* A record belongs to the handler that granted it and copies its offer.   *)
RecordInv(t) ==
  \E h \in Handlers :
    /\ Granted(h) /\ reply[h].token = t
    /\ records[t].offer = local[h].offer
    /\ records[t].subject = offers[local[h].offer].offer.subject
    /\ records[t].configs = offers[local[h].offer].offer.configs

(* What a credential handler resolved and issued is what its token allows. *)
IssueInv(h) ==
  LET cred == local[h].credential
  IN /\ local[h].config # Empty =>
          /\ req[h].token \in DOMAIN records
          /\ local[h].config \in records[req[h].token].configs
          /\ local[h].config \in Candidates(req[h]) \cap DOMAIN Supported
     /\ Issued(h) => /\ local[h].config # Empty
                     /\ cred.config = local[h].config
                     /\ cred.subject = records[req[h].token].subject

(* Inductive: each conjunct is needed by the step of another one, and they *)
(* imply the four invariants on redemption and on what is issued.          *)
IssuerInv ==
  /\ TypeOK
  /\ \A h \in Handlers : TakerInv(h) /\ IssueInv(h)
  /\ CodeInv
  /\ \A t \in DOMAIN records : RecordInv(t)

-----------------------------------------------------------------------------
(* The inductive invariants on proofs and nonces; each holds together with *)
(* IssuerInv.                                                              *)

(* The key a handler holds is what its request's proof was checked with.   *)
KeyChecked(h) ==
  LET key == local[h].key
      jwt == ProofOf(req[h]).jwt
  IN /\ key = Empty <=> ProofOf(req[h]) = Empty
     /\ key = Empty => ~RequireProof
     /\ key # Empty =>
          /\ jwt # Empty
          /\ jwt.signature.key = key /\ jwt.signature.hash = DigestFor(jwt.alg)
          /\ jwt.typ = "openid4vci-proof+jwt" /\ jwt.aud = "issuer"

HolderInv(h) ==
  /\ pc[h] \in {"ready", "lookup", "expiry", "nonce"} => local[h].key = Empty
  /\ pc[h] = "issue" \/ Issued(h) => KeyChecked(h)
  /\ Issued(h) => local[h].credential.key = local[h].key

KeyInv == \A h \in Handlers : HolderInv(h)

(* A nonce is drawn once, and becomes a token's no sooner than its drawer  *)
(* stores it there; the drawer has the mutex while it does.                *)
DrawnInv ==
  /\ \A h \in Handlers :
       /\ pc[h] = "unlock" <=> tokenMu = h
       /\ pc[h] \notin {"rotate", "unlock", "done"} => local[h].nonce = Empty
       /\ pc[h] = "rotate" /\ local[h].nonce # Empty =>
            \A t \in Tokens : local[h].nonce \notin handed[t]
  /\ \A g, h \in Handlers :
       local[g].nonce = local[h].nonce /\ local[h].nonce # Empty => g = h
  /\ \A t \in Tokens : \A n \in handed[t] \ {Empty} :
       \E h \in Handlers : local[h].nonce = n
  /\ \A t \in DOMAIN records : Current(t) \subseteq handed[t]

(* A nonce that an issuance spent, or that a waiting request saw replaced, *)
(* is not the token's any more and will not be again.                      *)
LiveInv(h) ==
  LET t == req[h].token
      n == ProofNonce(req[h])
  IN /\ pc[h] \in {"expiry", "nonce"} =>
          /\ stale[h] \subseteq handed[t]
          /\ Current(t) \cap stale[h] = {}
     /\ (pc[h] = "issue" \/ Issued(h)) /\ n # Empty =>
          n \in handed[t] \ stale[h] /\ n # local[h].nonce
     /\ Issued(h) /\ Answered(h) => n \notin Current(t) \ {Empty}

(* A nonce is stored for CNonceTTL from now at most, and a token lives for *)
(* AccessTokenTTL at most.                                                 *)
LifetimeInv ==
  /\ \A t \in DOMAIN records :
       /\ records[t].cNonceExpiresAt \in 0..(now + CNonceTTL)
       /\ records[t].expiresAt <= now + AccessTokenTTL
  /\ \A h \in Handlers : pc[h] \in {"rotate", "unlock"} =>
       local[h].nonceExpiresAt \in 0..(now + CNonceTTL)

(* The nonce that a handler found is one of its token's, and if it is not  *)
(* current any more it will not be again: no rotation under way brings it. *)
FoundInv(h) ==
  LET nonce == local[h].foundNonce
  IN nonce # Empty =>
       /\ local[h].config # Empty
       /\ nonce \in handed[req[h].token]
       /\ \A g \in Handlers : pc[g] = "unlock" => local[g].nonce # nonce

(* The nonce a client was told is current until another request rotates it. *)
ViewInv(h) ==
  LET t == IF Granted(h) THEN reply[h].token ELSE req[h].token
  IN Answered(h) /\ reply[h].error = Empty =>
       /\ t \in DOMAIN records
       /\ records[t].cNonce = reply[h].cNonce \/ RotatedByAnother(h, t)

ProofInv(h) ==
  /\ ViewInv(h)
  /\ local[h].config # Empty => Empty \in handed[req[h].token] \/ LiveInv(h)

(* Inductive with IssuerInv: ProofInv needs all of DrawnInv, because what  *)
(* a request waiting at its proof check relies on is that nonces yet to be *)
(* stored are new to its token.                                            *)
NonceInv ==
  /\ DrawnInv
  /\ LifetimeInv
  /\ \A h \in Handlers : FoundInv(h) /\ RefusedForCause(h)
  /\ "store" \notin Faults => \A h \in Handlers : ProofInv(h)

(* What a client is told is what the server has done: a token that is      *)
(* stored, a credential that is issued, and the nonce drawn for it.        *)
AnswerInv(h) ==
  Answered(h) =>
    /\ reply[h].error = Empty <=> Granted(h) \/ Issued(h)
    /\ Granted(h) =>
         /\ req[h] \in TokenRequests
         /\ reply[h].token \in DOMAIN records
         /\ records[reply[h].token].offer = local[h].offer
         /\ local[h].nonce \in handed[reply[h].token] \ {Empty}
    /\ Issued(h) =>
         /\ reply[h].credential = local[h].credential
         /\ "store" \notin Faults => local[h].nonce \in handed[req[h].token]
    /\ reply[h].error = Empty => reply[h].cNonce = local[h].nonce

(* The nonce t's record holds was drawn for the request that was granted t *)
(* or for one that has issued with it, and belongs in that one's answer.   *)
StoredInv(t) ==
  records[t].cNonce # Empty =>
    \E h \in Handlers :
      /\ local[h].nonce = records[t].cNonce
      /\ \/ Granted(h) /\ reply[h].token = t
         \/ Issued(h) /\ req[h].token = t /\ pc[h] \in {"unlock", "done"}

AnswersInv ==
  /\ \A h \in Handlers : AnswerInv(h)
  /\ \A t \in DOMAIN records : StoredInv(t)

-----------------------------------------------------------------------------
(* What the documentation says and the code does not do.                   *)

(* "CNonce is the fresh nonce returned on "invalid_proof" so the caller    *)
(* can retry" (errors.go:85): the server has to know that nonce.           *)
RetryNonceIsStored ==
  \A h \in Handlers :
    Answered(h) /\ reply[h].error = "invalid_proof" /\ reply[h].cNonce # Empty
      => reply[h].cNonce \in handed[req[h].token]

(* RotateCNonce is "called after each credential issuance to prevent nonce *)
(* reuse" (store.go:114-115): no two credentials for one nonce of a token. *)
NonceSpentOnce ==
  \A g, h \in Handlers :
    /\ Issued(g) /\ Issued(h)
    /\ req[g].token = req[h].token
    /\ ProofNonce(req[g]) = ProofNonce(req[h]) /\ ProofNonce(req[h]) # Empty
    => g = h

(* "An Issuer is safe for concurrent use" (issuer.go:22): no goroutine     *)
(* reads a record's nonce fields while another one is writing them.        *)
NoDataRace ==
  \A g, h \in Handlers :
    ~ /\ pc[g] \in {"expiry", "nonce"}
      /\ pc[h] = "unlock"
      /\ req[g].token = req[h].token
=============================================================================
