----------------------------- MODULE TokenStore -----------------------------
(***************************************************************************)
(* MemoryTokenStore (issuer/memory.go), the reference TokenStore.          *)
(*                                                                         *)
(* Get returns the stored *AccessTokenRecord itself, not a copy: its       *)
(* callers read the record after the mutex is released, while RotateCNonce *)
(* assigns two of its fields under the mutex.  The reads and the writes    *)
(* race, so RotateCNonce is two steps here, one per field.  Nothing orders *)
(* the two stores for a reader that takes no lock, so either may become    *)
(* visible first (amd64 keeps program order, arm64 need not).              *)
(***************************************************************************)
EXTENDS OID4VCITypes

VARIABLES
  records,   \* access token -> AccessTokenRecord
  tokenMu    \* the goroutine inside RotateCNonce, or Empty

TokenStoreInit ==
  /\ records = [t \in {} |-> Empty]
  /\ tokenMu = Empty

(* Save and Get are atomic: they need the mutex and hold it throughout. *)
SaveToken(token, record) ==
  /\ tokenMu = Empty
  /\ records' = Put(records, token, record)
  /\ UNCHANGED tokenMu

CanGet(token) == tokenMu = Empty /\ token \in DOMAIN records

(* RotateCNonce takes the mutex and one of its two assignments is visible. *)
BeginRotateCNonce(goroutine, token, newNonce, expiresAt) ==
  /\ CanGet(token)
  /\ tokenMu' = goroutine
  /\ \/ records' = [records EXCEPT ![token].cNonce = newNonce]
     \/ records' = [records EXCEPT ![token].cNonceExpiresAt = expiresAt]

(* Mutant: the nonce is assigned to a copy of the record. *)
EndRotateExpiryOnly(goroutine, token, newNonce, expiresAt) ==
  /\ tokenMu = goroutine
  /\ records' = [records EXCEPT ![token].cNonceExpiresAt = expiresAt]
  /\ tokenMu' = Empty

(* Mutant: the mutex is not released. *)
EndRotateLocked(goroutine, token, newNonce, expiresAt) ==
  /\ tokenMu = goroutine
  /\ records' = [records EXCEPT ![token].cNonce = newNonce,
                                ![token].cNonceExpiresAt = expiresAt]
  /\ UNCHANGED tokenMu

(* Mutant: issuing a credential also prolongs the token. *)
EndRotateProlongs(goroutine, token, newNonce, expiresAt) ==
  /\ tokenMu = goroutine
  /\ records' = [records EXCEPT ![token].cNonce = newNonce,
                                ![token].cNonceExpiresAt = expiresAt,
                                ![token].expiresAt = expiresAt + 1]
  /\ tokenMu' = Empty

(* Both assignments are visible and the mutex is released. *)
EndRotateCNonce(goroutine, token, newNonce, expiresAt) ==
  /\ tokenMu = goroutine
  /\ records' = [records EXCEPT ![token].cNonce = newNonce,
                                ![token].cNonceExpiresAt = expiresAt]
  /\ tokenMu' = Empty
=============================================================================
