----------------------------- MODULE OfferStore -----------------------------
(***************************************************************************)
(* MemoryOfferStore (issuer/memory.go), the reference OfferStore.  Each    *)
(* method holds the mutex from entry to return and nothing outside reads   *)
(* an entry's "used" flag, so each method is one atomic step.              *)
(***************************************************************************)
EXTENDS OID4VCITypes

VARIABLE offers   \* pre-authorised code -> OfferEntry

OfferStoreInit == offers = [c \in {} |-> Empty]

(* Mutant: the map entry is overwritten. *)
SaveOfferOver(code, offer) ==
  offers' = Put(offers, code, [offer |-> offer, used |-> FALSE])

(* Save refuses a code that is already a key; an error changes nothing. *)
SaveOffer(code, offer) ==
  /\ code \notin DOMAIN offers
  /\ offers' = Put(offers, code, [offer |-> offer, used |-> FALSE])

(* Mutant: the used flag is not looked at. *)
ConsumeResultReused(code, now) ==
  IF code \notin DOMAIN offers THEN "ErrOfferNotFound"
  ELSE IF now > offers[code].offer.expiresAt THEN "ErrOfferExpired"
  ELSE "ok"

(* Mutant: an offer is refused at the very instant it expires. *)
ConsumeResultEarly(code, now) ==
  IF code \notin DOMAIN offers THEN "ErrOfferNotFound"
  ELSE IF offers[code].used THEN "ErrOfferAlreadyUsed"
  ELSE IF now >= offers[code].offer.expiresAt THEN "ErrOfferExpired"
  ELSE "ok"

(* What Consume answers: "ok" or the sentinel error, tested in code order. *)
ConsumeResult(code, now) ==
  IF code \notin DOMAIN offers THEN "ErrOfferNotFound"
  ELSE IF offers[code].used THEN "ErrOfferAlreadyUsed"
  ELSE IF now > offers[code].offer.expiresAt THEN "ErrOfferExpired"
  ELSE "ok"

(* Mutant: the used flag is set on a copy of the entry. *)
ConsumeCopy(code, now) ==
  ConsumeResult(code, now) = "ok" /\ UNCHANGED offers

Consume(code, now) ==
  /\ ConsumeResult(code, now) = "ok"
  /\ offers' = [offers EXCEPT ![code].used = TRUE]
=============================================================================
