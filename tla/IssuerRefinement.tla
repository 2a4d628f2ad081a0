-------------------------- MODULE IssuerRefinement --------------------------
(***************************************************************************)
(* The issuer implements PreAuthorizedIssuance.  A redemption takes two    *)
(* steps, the offer store's Consume and the token store's Save: an offer   *)
(* that a handler has consumed and not yet answered for is not spent yet.  *)
(* The factory call is the step that issues.                               *)
(***************************************************************************)
EXTENDS IssuerProperties

Offered ==
  [c \in DOMAIN offers |->
     [subject |-> offers[c].offer.subject, configs |-> offers[c].offer.configs,
      txCode |-> offers[c].offer.txCode]]

SpentCodes ==
  {c \in DOMAIN offers :
     offers[c].used /\ \A h \in Handlers : pc[h] = "grant" => local[h].offer # c}

Bought == [t \in DOMAIN records |-> records[t].offer]

Redemptions ==
  {[code |-> req[h].code, txCode |-> req[h].txCode] :
     h \in {h \in Handlers : req[h] \in TokenRequests /\ WellFormed(req[h])}}

SigningKey(r) ==
  IF ProofOf(r) = Empty \/ ProofOf(r).jwt = Empty THEN Empty
  ELSE ProofOf(r).jwt.signature.key

OrderOf(r) ==
  [token |-> r.token, configs |-> Candidates(r), key |-> SigningKey(r)]

Orders ==
  {OrderOf(req[h]) : h \in {h \in Handlers : req[h] \in CredentialRequests}}

CredentialsIssued ==
  {[token |-> req[h].token, config |-> local[h].credential.config,
    key |-> local[h].credential.key, subject |-> local[h].credential.subject] :
     h \in {h \in Handlers : Issued(h)}}

Promise == INSTANCE PreAuthorizedIssuance WITH
  Reliable    <- Faults \cap {"rand", "store"} = {},
  offered     <- Offered,
  redemptions <- Redemptions,
  orders      <- Orders,
  spent       <- SpentCodes,
  bought      <- Bought,
  issued      <- CredentialsIssued

(* Every step of the stores, of overlapping requests, of failures and of   *)
(* the clock is a step of the promise or none at all: nobody sees half of  *)
(* a redemption, and no credential comes of anything but a request that    *)
(* asked for it with a bought token (handleToken and handleCredential,     *)
(* issuer.go:206-365).                                                     *)
KeepsPromise == Promise!Spec
=============================================================================
