# Verification of go-oid4vci

TLA+ models of the OpenID for Verifiable Credential Issuance library in this
repository, TLC runs that check them on small instances, and TLAPS proofs about
them for instances of any size. Paths are relative to the repository root.

## The system

| part | state | operations | talks to |
|---|---|---|---|
| **Issuer** (`issuer/issuer.go`) | immutable metadata and options; everything else is in the stores and in the locals of the running requests | `New`, `NewOffer` (called by the application), `POST /token` (`handleToken`), `POST /credential` (`handleCredential`), metadata document | calls the two stores and the application's `CredentialFactory`; clients call it over HTTP, one goroutine per request |
| **Offer store** (`issuer/store.go`, `issuer/memory.go`) | code → offer and a *used* flag, one mutex | `Save`, `Consume` | called by the issuer |
| **Token store** (same files) | access token → record (rights, expiry, current `c_nonce` and its expiry), one mutex | `Save`, `Get`, `RotateCNonce` | called by the issuer; `Get` returns the stored record **by pointer** |
| **Proof validation** (`internal/jose`) | none | `ValidateProofJWT`, `Verify`, `PublicKeyToGoKey`; `Sign`, `BuildProofJWT` on the client's side | called by issuer and client |
| **Wallet client** (`client/client.go`) | an `AcquisitionSession` value (offer, metadata, token, nonce) that each call returns an updated copy of | `ParseOffer`, `FetchMetadata`, `RedeemOffer`, `RequestCredential`, `Acquire` | HTTP to the issuer |
| **Types, errors** (`types/`, `errors.go`) | none | wire structs, error codes, `ProtocolError` | all |
| **Example, tests, CI** | none | | |

A redemption is: `NewOffer` saves an offer under a random code; the client posts
the code (and a PIN) to `/token`; the issuer *consumes* the code, compares the
PIN, and saves a record under a random access token with a random nonce; the
client posts the token, a configuration and a key proof over the nonce to
`/credential`; the issuer looks the record up, resolves the configuration,
validates the proof, calls the factory, rotates the nonce and answers with the
credential and the new nonce.

What is hard: requests overlap, and the credential endpoint is a long
check-then-act over a record that it reads without a lock; a failure can come
between any two calls; the token endpoint spends the code before it knows
whether it will answer with a token; offer, token, nonce and proof each expire
on their own. What makes each part correct:

- offers: a code buys at most one token, and exactly the request that took the
  code is told about it;
- tokens: a token carries the rights of one offer, redeemed with its PIN, for ever;
- credentials: the subject, configuration and key of a credential are those of
  the offer and of a proof made for this request;
- nonces: a proof is accepted only with a live nonce of its own token, refused
  only for a cause, and client and server agree on the nonce;
- sessions: a session holds the rights of its own offer, and the nonce the issuer
  expects is in one of them unless an answer was lost;
- calls: a call that fails has a cause, and is told which (with a signer every
  call fails, for a defect of the library: see `client_proof`);
- bytes: a signature or key is read back as it was written, leading zeros or not;
- all: every request is answered, and an offer that several `Acquire` calls race
  for is acquired by one of them.

`PROJECT.json` lists the hazards line by line, with the property aimed at each.

## Modules

| module | models | correspondence |
|---|---|---|
| `OID4VCITypes` | the structs that travel (`issuer/store.go`, `types/types.go`, `errors.go`) | records with the fields some branch of the code reads. A string is a member of a small set, `""`/`nil` is `Empty`. `SubjectID` and `Metadata` only ever travel together and are one value; an offer's ID is identified with its code. A credential is the factory's argument: nothing else decides its content |
| `OfferStore` | `MemoryOfferStore` | `SaveOffer`, `ConsumeResult` (the tests of `Consume` in their order), `Consume`. Atomic: the mutex is held throughout and nothing outside reads `used` |
| `TokenStore` | `MemoryTokenStore` | `SaveToken`, `CanGet`; `RotateCNonce` is two steps, `BeginRotateCNonce` and `EndRotateCNonce`, between which one of its two assignments is visible and the other is not, whichever it is |
| `ProofJWT` | `internal/jose`, the checks | a JWT is the record of what the checks read; the signature is the key, hash and scheme that made it |
| `Issuer` | `NewOffer`, `handleToken`, `handleCredential` | extends the three above. `Handlers` are goroutines, each serving one request; `pc[h]` is its place between two accesses to shared state, `local[h]` its local variables, `reply[h]` its answer. One action per call or early return, see below |
| `IssuerProperties` | | what the issuer promises, and the inductive invariants `IssuerInv`, `KeyInv`, `NonceInv`, `AnswersInv` |
| `PreAuthorizedIssuance` | what an issuer of this flow promises, with no stores, goroutines, nonces or clock | the abstract specification: `MakeOffer`, `Ask`, and `Redeem`, `Forfeit` and `Issue` as single steps |
| `IssuerRefinement` | | the refinement mapping from `Issuer` to it, `KeepsPromise` |
| `KeyEncoding` | `ECDSASigner.Sign`, `publicKeyToJWK`, `verifyEC`, `ecFromMap`, `rsaFromMap` | what they do to bytes: one step writes two numbers, one reads them. A byte has `ByteBits` bits; `TwoTo` and `SetBytes` are recursive functions, so that they can be proved about |
| `Wallet` | `client/client.go` and `Sign`, `BuildProofJWT`, `ECDSASigner` of `internal/jose` | values to values: the `Client` keeps no state, so a session, a request body and a proof are what operators return |
| `System` | the client's calls composed with `Issuer` | extends `Issuer` and `Wallet`. `sessions` is every session a call has returned, `calls[h]` the caller's side of the request that handler `h` serves |
| `SystemProperties` | | what a wallet can count on, and the inductive invariants `SessionInv`, `CauseInv` |
| `CredentialAcquisition` | what wallets and issuer promise together, with no sessions and no calls | extends `PreAuthorizedIssuance`: who asks is a wallet that has read the offer (`ReadOffer`) or holds the token; a token that is bought is told (`BeTold`) or lost (`Lose`, `Sell`), a credential given (`BeGiven`) |
| `SystemRefinement` | | the refinement mapping from `System` to it, `WalletsKeepPromise` |
| `Acquire` | `Client.Acquire` | extends `System` with one flow per wallet, which starts the calls and holds the session; `flow[w]` is its place. Its inductive invariant is `AcquireInv` |
| `MCIssuer`, `MCRefinement`, `MCSystem`, `MCAcquire` | | instances: metadata, offers, requests, signers, wallets |
| `IssuerProofs`, `InvariantProofs`, `NonceProofs`, `RefinementProofs`, `SystemProofs`, `SessionProofs`, `AcquireProofs`, `EncodingProofs` | | the theorems |

`handleToken` is `RejectTokenRequest`, `RefuseCode`, `ConsumeFails`,
`ConsumeOffer` (`Consume` and the PIN comparison, which reads nothing shared),
`GrantToken` and `GrantFails`. `handleCredential` is `RejectToken`, `RejectBody`,
`RejectConfig` and `LookupToken` (`Get`, then checks on fields that are never
written after `Save`), `CheckNonceExpiry` and `CheckProof` (the two unlocked
reads of fields that `RotateCNonce` writes), `IssueCredential` or `FactoryFails`,
and `BeginRotate`, `EndRotate` or `RotateFails`. `handed`, `stale` and the local
`foundNonce` are history: the nonces each token's record has held, those replaced
or spent when a request looked its token up, and the one it found there; no
action reads them.

The refinement: a redemption takes two steps, `Consume` and `Save`, with
failures and other requests between them. `SpentCodes` leaves out an offer that a
handler has consumed and not answered for yet, so `Save` is the abstract `Redeem`,
and a wrong PIN or an error is `Forfeit`. `IssueCredential`, the factory call, is
`Issue`; every other step of `handleCredential` is a stutter. When no store and
no random source fails (`Reliable`), only a wrong PIN may forfeit.

The second refinement adds the wallets. Abstractly there are offers they have
read, purchases they have been told of, tokens whose answer is lost, and
credentials they have been given. The sessions map to the first two: a session
without a token is an offer read, one with a token a purchase, and which nonce
it holds and when it expires is forgotten. `ParseOffer` is `ReadOffer`; sending
is the issuer's `Ask`, with a code that was read or a token that is held; the
`Return` of a redemption is `BeTold`, of a credential `BeGiven`. `GiveUp` is
`Lose` when the issuer had sold the token, and a stutter when it had not; then
the loss is part of the `Save` that sells it (`Sell`).

In `System` a call of the library is one HTTP request: `RedeemOffer` and
`RequestCredential` send it from any session, `Return` delivers the answer and
adds the session it makes, `GiveUp` is an answer that does not come or a context
that is done, with the issuer carrying on. Answers may overtake each other. A
request that never arrives is a handler that never steps. `ParseOffer` reads the
offer that `NewOffer` encoded; metadata is the same constant on both sides.

Choices that a reader may want to argue with:

- The clock is global and moves between any two steps, up to `MaxTime`. The
  `time.Now` calls of one step read the same instant.
- Random values are fresh: 128 and 256 bits do not repeat. `rand` in `Faults`
  lets the generator fail. Where `handleCredential` drops the error the nonce is
  `""`, as in the code, and `NonceMatches` then lets every nonce pass.
- `store` in `Faults` lets a store report an error of its own, as the interfaces
  permit (the in-memory ones never do): `Consume` before or after it took
  effect, `Save` having stored nothing, `Get`, `RotateCNonce`. `factory` lets the
  factory fail. A factory that panics is not modelled.
- A read that races `RotateCNonce` sees the old or the new field. Both nonces
  have the same length, so a string header read in halves is one of them too;
  that a torn `time.Time` could be a third instant is left out.
- In `Issuer` alone requests are arbitrary, with any code, token and nonce of the
  instance: no property relies on a client keeping a secret. In `System` they are
  the ones the library builds.
- Sessions are plain values that an application may store, copy and share, so a
  call may start from any session ever returned, again or at the same time.
- An offer's configurations are a set. `RequestCredential` without a `configID`
  asks for the first one; here for any.
- A lifetime is any number of ticks, and `Second` of them make a second. Answers
  give lifetimes in whole seconds, rounded down (`ExpiresIn`, for
  `int(ttl.Seconds())`), and the wallet computes expiry times from those
  (`Expiry`), so that they can be earlier than the issuer's: for an
  `AccessTokenTTL` of 1.5 seconds by half a second, although `client.go:93` calls
  the field "the access token's expiry time". Less than a second early is what
  `ExpiryNotASecondEarly` says. A `CNonceTTL` below a second is told as 0, and the
  client keeps whatever expiry it had. The wallet's clock is the issuer's.
- A call made with a signer is refused by this issuer however well it was made,
  because its proof has no key (`client_proof`). `CallsFailForCause` is therefore
  about calls without one, and `OneAcquirer` and `OfferIsAcquired` promise success
  only to those.

## Runs

Handlers are interchangeable and so are nonces (no operator orders them and no
definition names one), which makes the symmetry sound; in `wallets`, where the
requests are built from sessions and no definition names a code or a token,
those are too. The run with liveness uses none. `CHECK_DEADLOCK FALSE` because an instance does stop: a handler serves one
request, and the clock and the codes run out.

| run | instance | shows |
|---|---|---|
| `redemption` | 3 token requests (any code, PIN, or malformed), 2 codes, offers with and without PIN and the ones `NewOffer` refuses, time 0–2 with TTLs 0 (default) and 1 | `TypeOK`, `OneTokenPerCode`, `TokenEarned`, `RedemptionOutcome`, `IssuerInv`, `RightsAreFixed` |
| `issuance` | 3 requests over 2 codes and 2 tokens; every form of credential request, one JWT per way a proof can be bad; proofs required | `CredentialEarned`, `KeyBinding`, `KeyInv` |
| `nonces` | 4 requests on one token, i.e. one grant and three credential requests that may all overlap; nonces live for one tick of two, so that the granted one and one that replaced it are used before, at and after their own expiry; random generator may fail | `NonceIsLive`, `NonceInStep`, `NoSpuriousRefusal`, `NonceInv`, `AnswersInv` |
| `faults` | 3 requests over 2 offers, any redemption, credential requests by identifier and by format with good, bad and no proof; every fault; no expiry | `OneTokenPerCode`, `CredentialEarned`, `IssuerInv`, `RightsAreFixed`, and the refinement `KeepsPromise` |
| `encoding` | every pair of 5-bit numbers in bytes of 2 bits: sizes that are no multiple of a byte, and up to three zero bytes in front | `RoundTrip`, `FixedLength` |
| `wallets` | 3 library calls from any session, 2 codes, offers with and without PIN, right PIN or none, a configuration of the offer, of the other one, or none | `SystemTypeOK`, `SessionRights`, `AcquiredAsOffered`, `CallsFailForCause`, and the refinement `WalletsKeepPromise` |
| `sessions` | 3 library calls on one offer, with no signer or one of the library's, one for another curve that exposes its key, and two that fail; two ticks to a second, TTLs of half a second and of one and a half; time past the expiry of offer and token; random generator and factory may fail | `LastSessionInStep`, `NonceKnown`, `ExpiryNotASecondEarly`, `SessionInv`, `CallsFailForCause`, `CauseInv` |
| `acquire` | 2 `Acquire` calls (4 requests) for the same offer or two, with a PIN; the second wallet may have a signer that fails; every fault, answers lost; no expiry | `OneAcquirer`, `AcquireInv`, `EveryRequestAnswered`, `OfferIsAcquired` |
| `retry_nonce` | 2 requests | `RetryNonceIsStored` is **violated** |
| `nonce_reuse` | 3 requests | `NonceSpentOnce` is **violated** |
| `data_race` | 3 requests | `NoDataRace` is **violated** |
| `client_proof` | 2 library calls, every kind of signer | `KeyIsEmbedded` is **violated** |

Why the bounds are enough: a code needs two requests to be raced for and a third
to come late; two codes and two tokens are what it takes to mix rights up; a
nonce is at stake between two requests on a token, and the third lets one be
answered before another starts while a third is still in flight; one tick past
a TTL tells *at the expiry* from *after* it. Of library calls, one redeems, and
two on its token are what it takes to overlap, to start twice from one session
and to have answers overtake each other. In `encoding` every pattern of leading
zero bytes of both numbers occurs. The proofs lift everything else but
liveness to every size.

Fairness (`FairAcquireSpec`): each handler with a step to take eventually takes
one. The Go scheduler runs every runnable goroutine, and `sync.Mutex` hands itself
over to a waiter that starves, so even the steps that wait for the token store's
mutex need no more than weak fairness: its holder always releases it. The
factory is assumed to return. The callers' goroutines are scheduled likewise:
`AcquireStep`, which includes the arrival of an answer that was written. Nothing
is assumed of `Interrupted`, `Tick` or `NewOffer`, so an answer may or may not be
lost, time may stand still, and a wallet whose offer is never made does not start.

### What the violated runs say

- **The retry nonce is unknown to the server.** `types/types.go:291` and
  `errors.go:85` promise a fresh nonce with `invalid_proof` to retry with.
  `handleCredential` generates one (`issuer.go:320`) and does not store it: the
  retry is refused, while the old nonce still works.
- **A nonce can be spent twice.** `issuer/store.go:114` rotates "to prevent nonce
  reuse", but check and rotation are far apart, and two requests between them get
  two credentials. What does hold is `NonceIsLive`: no nonce is accepted by a
  request that starts after the nonce was spent and answered for.
- **Data race.** `issuer.go:22` and `memory.go:60` claim concurrent use is safe;
  the nonce fields of a record are read without the mutex that guards their
  writes.
- **The proof has no key.** `README.md:129` says the client embeds the key of a
  signer that implements `PublicKeyJWK`. `buildProof` (`client.go:360`) puts it in
  a field that nothing reads, and `BuildProofJWT` takes the header from elsewhere:
  no proof of the library carries a `jwk`, and this issuer refuses every proof
  without one.

Not a run, but seen while modelling: `MemoryTokenStore.Get` (`memory.go:79`)
returns expired records, although `store.go:109` says it returns an error; its
only caller, `extractToken`, checks the expiry itself. And when `generateToken`
fails in `handleCredential` (`issuer.go:346`) the token is left with an empty
nonce, which accepts every nonce: the exception in `NonceIsLive`.

What a lost answer costs, which no document mentions: a lost token response costs
the offer (`SessionRights`), and a lost credential response costs the token's
nonce (`NonceKnown`), which the `c_nonce` of a later `invalid_proof` answer does
not bring back because it is not stored.

## Proofs

Assumptions, on the constants only: `EmptyAssumption`, `RSAKeysAssumption`,
`IssuerAssumption`, for `System` `CallerAssumption` and `RequestAssumption`, for
`Acquire` `AcquireAssumption`, and for `KeyEncoding` `SizesAssumption`, that both
sizes are positive.
`Empty`, which stands for `nil` and `""`, is not a value of the other sets (nor a
reply or an error code, a request, a session or a call, so that "no reply" is not
one); requests, offers and the metadata have their types; the issuer may be asked
whatever the library builds; a wallet's two requests have handlers of their own.
No finiteness is assumed, of handlers, values or time.

| module | theorems |
|---|---|
| `IssuerProofs` | `TypeCorrect`: `TypeOK`, which includes `PlaceOK`: a handler past the lookup still finds its record, one past `Consume` its offer |
| `InvariantProofs` | `InvariantHolds`: `IssuerInv`; from it `OneTokenPerCodeHolds`, `TokenEarnedHolds`, `RedemptionOutcomeHolds`, `CredentialEarnedHolds`, and the action property `RightsAreFixedHolds`. `KeyInvariantHolds`: `KeyInv`; from it `KeyBindingHolds` |
| `NonceProofs` | `NonceInvariantHolds`: `NonceInv`; from it `NonceIsLiveHolds`, `NonceInStepHolds`, `NoSpuriousRefusalHolds` |
| `RefinementProofs` | `IssuerKeepsPromise`: `Spec => KeepsPromise`, the issuer implements `PreAuthorizedIssuance`. `SystemKeepsPromise`: `SystemSpec => WalletsKeepPromise`, wallets and issuer implement `CredentialAcquisition` |
| `SystemProofs` | `SystemTypeCorrect`: `SystemTypeOK`; `SystemRunsIssuer`: `SystemSpec => Spec` |
| `SessionProofs` | `AnswersInvariantHolds`: `AnswersInv`; `SessionInvariantHolds`: `SessionInv`; from them `SessionRightsHolds`, `AcquiredAsOfferedHolds`, `ExpiryNotASecondEarlyHolds`, `NonceKnownHolds`, `LastSessionInStepHolds`. `CauseInvariantHolds`: `CauseInv`; from it `CallsFailForCauseHolds` |
| `AcquireProofs` | `AcquireRunsSystem`: `AcquireSpec => SystemSpec`; `AcquireInvariantHolds`: `AcquireInv`; from it and the others `OneAcquirerHolds` |
| `EncodingProofs` | `RoundTripHolds`, `FixedLengthHolds`, for every `ByteBits` and `BitSize` |

Everything proved of `Spec` holds of `SystemSpec` by `SystemRunsIssuer`: sending is
`Receive`, and parsing, returning and giving up are stutters of the issuer. A
wallet's request is built from a session and a session from the issuer's
answers, so the types of both sides are proved together.

None of the properties of the issuer and the wallets is inductive. Each
invariant below is, together with those above it, and a run checks each of them
too.

**`IssuerInv`.** That a code has one token depends on the code having one taker
and on a taker not having granted twice; that a token was earned, on what its
granter knew when it consumed the code.

- `TakerInv(h)`: place and locals agree; the offer a handler took is its
  request's, is marked used, and the handler goes on only with the right PIN;
- `CodeInv`: no two handlers hold one offer, and a used code has a taker (or was
  lost in a store failure);
- `RecordInv(t)`: some handler granted `t`, and the record copies its offer;
- `IssueInv(h)`: what a credential handler resolved and issued is within its
  token's record.

**`KeyInv`.** The key in a credential was chosen some steps before it was issued:
a handler past the proof check holds the key its own request's proof verified
under, or none where no proof is required.

**`NonceInv`.** Whether a nonce is live is a matter of what will be stored as much
as of what is. `handleCredential` checks a nonce in one step and replaces it
several steps later, while others do the same with the same token.

- `DrawnInv`: a nonce has one drawer, and is nowhere in a token's history before
  its drawer starts to store it; the mutex's holder is the one handler that is
  storing. Without it a rotation might bring back a nonce already spent.
- `LiveInv(h)`: what a waiting request found replaced at its lookup is not in the
  record, nor in a rotation under way (`Current`), and a spent nonce never is
  again;
- `ViewInv(h)`: the nonce a handler answered with is the record's until another
  request rotates it;
- `FoundInv(h)`: the nonce a handler found at its lookup is one of its token's, and
  no rotation under way brings it back;
- `LifetimeInv`: a stored expiry lies at most a TTL ahead.

`NoSpuriousRefusal` is part of `NonceInv` as it stands. A proof with the nonce of
the lookup that was refused has a cause at that moment: that nonce's own expiry is
past, or it is not the only current one, because another request has replaced it
or is in the middle of that. By `FoundInv` a nonce that was replaced stays so, and
while it is the only current one its record's expiry does not move (`SoleKept`),
so the cause stays one.

A store that fails may rotate a nonce and deny it, so `ProofInv`, which collects
`ViewInv` and `LiveInv` for each handler, is for stores that do not. A token left
with an empty nonce accepts every nonce, so from then on `LiveInv` says nothing
of it.

**`AnswersInv`** relates what was answered to what is stored, in both directions:
a success was granted or issued and carries the nonce its handler drew, and a
stored nonce was drawn by the token's granter or by a request that issued with
it. **`SessionInv`** carries that through the answers that arrived:

- `CallInv(h)`: a call was made from a session that exists, its request is that
  session's, and its answer left its nonce in a session;
- `HeldInv(s)`: a session's token came in an answer that arrived, for that
  session's offer; its nonce was in the token's record; each expiry is less than a second early
  (`WholeSeconds` is the arithmetic, `LifetimeInv` bounds the issuer's side);
- `SpentSession(h)`: the nonce a successful call was made with is not the
  issuer's any more, nor about to be.

`LastSessionInStep` follows from all of these at once: the stored nonce's
drawer has answered (a rotation under way would be an unsettled call), the answer
arrived, its session holds the nonce, and a successful call from that session
would have spent it.

**`CauseInv`** is about calls that fail. When a code is refused as used, someone
else has used it, and to say so of a reachable state takes its spender
(`SpenderInv`: the call that holds the offer, or that a failing store cost it);
that a request is well formed and of a configuration on offer takes the form the
library gave it (`FormInv`) and an offer of supported configurations only; and a
cause has to stay one (`CauseKept`): time does not go back, a code is not given
back. A request without a signer carries no proof, so the checks of proofs never
see it. **`AcquireInv`** ties the place of each `Acquire` to the outcomes of its two
calls and its variable `session` to what the first one returned.

`OneAcquirer` needs all of them. Two winners would hold one offer, against
`CodeInv`. If nobody was granted a token, a wallet that nothing hinders was
refused because the code was used (`RefusedForUse`), so it has a spender, who is
another wallet with that code (`SpenderIsRival`) and was not granted one either: it
was refused as well, and does not hold the offer. And a wallet that was granted a
token can fail only for a cause that is not there (`GrantedAcquires`).

**The refinement.** `RefinementProofs` has one lemma per action: `NewOffer` is
`MakeOffer`, `Receive` is `Ask`, `GrantToken` is `Redeem`, a `ConsumeOffer` with
the wrong PIN, a `GrantFails` or a `ConsumeFails` that took the code is `Forfeit`,
`IssueCredential` is `Issue`, and every other step is a stutter. `CodeInv` is what
makes it work: a code enters `SpentCodes` only when its one taker is answered for,
so `Redeem` finds it unspent. `KeyInv` gives `Issue` its key.

For the wallets, `WalletsAlone` and `SessionsKept` say which steps leave which
half of the abstract state alone, and `EndKeeps` what the end of a call adds to
it. That a token reaches `told` or `lost` once, and never both, is where the
invariants are needed: the answer of a waiting call is undelivered
(`WaitingIsUndelivered`) because a token has one granter (`OneGranter`, from
`CodeInv` and `AnswersInv`) and a session's token came in an answer that arrived
(`HeldInv`); what a session offers to ask with, it was told (`HeldTokens`).

The argument of the other modules is one lemma per action as well, with frame
lemmas for the handlers, records and sessions that do not move (`TakerFrame`,
`ViewFrame`, `CallFrame`, `HeldFrame`), and `NonceProofs` first reduces the actions
to the five effects that they have on nonces (`NonceCases`). `RightsKept` is
proved along with `IssuerInv`, because the frame lemmas need it: a handler's part
of the invariant speaks of offers and records that other handlers could change.

**Bytes.** What `SetBytes` returns is known only by going through all the bytes,
and TLAPS 1.4 has no backend that can apply the library's induction theorems,
which take an operator. `EncodingProofs` has its own, over a set: `InductionOnASet`
follows from the pigeonhole principle for finite sets, and `Recursion`, that a
function given by its first value and its steps exists, from that; the
definitions of `TwoTo` and `SetBytes` then mean what they say (`TwoToValues`,
`SetBytesValues`). The number of bytes without leading zeros exists because a
number below 2^`BitSize` is nothing once its `Size` last bytes are dropped
(`NumbersFit`, where the rounding up in `Size` matters), and after each byte read
the value is the number without the bytes still to come (`ReadBytes`).

Model-checked only: `EveryRequestAnswered` and `OfferIsAcquired`, because liveness
under fairness and `ENABLED` are beyond TLAPS 1.4.

Covered by no property, as `PROJECT.json` notes at each hazard: a rotation between
storing a nonce and answering with it (the model takes both in one step, because
the answer is a local variable), and an empty nonce after a failure of
`generateToken`, which no property forbids because it is what the code does. Of a
`RotateCNonce` that fails unnoticed it is shown only that rights and credentials
survive it, and reading the expiry of one nonce with the value of another is the
window of the `data_race` run.

## Not modelled

- the example (`example/mortgage`), `handleMetadata` and `New`'s argument checks:
  no state and no logic of their own; `ThumbprintSHA256`: called by nobody;
- a wallet that talks to several issuers, and issuers that are not this one:
  their answers are not in this repository. For the same reason `System` has no
  proofs made by other libraries; `Issuer` alone takes those from anybody;
- the offer URI's three encodings (inline, base64, by reference): `ParseOffer`
  gets the offer that was encoded;
- bytes other than those of `KeyEncoding`: JSON, base64, ASN.1, the cryptography
  itself (a signature verifies under the key, hash and scheme that made it and no
  other);
- display metadata, logging, error texts, HTTP status codes;
- a process that restarts: the stores in this repository live in memory and
  nothing else is kept. An application's own stores are the `store` fault.

## Plan

1. *(done)* The issuer over its stores, and its redemption theorems.
2. *(done)* The client: `Wallet`, `System`, `Acquire`, `KeyEncoding`; the abstract
   `PreAuthorizedIssuance` and the refinement.
3. *(done)* Proofs for `Issuer`: `KeyBinding`, `NonceInStep`, `NonceIsLive`,
   `NoSpuriousRefusal`.
4. *(done)* The proof that `Issuer` implements `PreAuthorizedIssuance`.
5. *(done)* Proofs for `System`: types, that it implements `Issuer`, and all five
   properties of sessions.
6. *(done)* `Acquire` implements `System`; `CallsFailForCause` and `OneAcquirer`.
7. *(done)* `CredentialAcquisition`, and the proof that `System` implements it.
8. *(done)* `RoundTrip` and `FixedLength` for every size, with induction over sets.

Nothing of the plan is left. The two liveness properties would need a prover
that knows fairness.
