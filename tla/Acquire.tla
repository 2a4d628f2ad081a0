------------------------------ MODULE Acquire ------------------------------
(***************************************************************************)
(* Client.Acquire: the whole flow in one call, ParseOffer, RedeemOffer and *)
(* RequestCredential one after another on the session of the one before.   *)
(* Each of Wallets runs one Acquire, and several may have been shown the   *)
(* same offer.  The two requests of a wallet are served by handlers of its *)
(* own.                                                                    *)
(***************************************************************************)
EXTENDS SystemProperties

CONSTANTS
  Wallets,
  Arguments   \* wallet -> the arguments it may call Acquire with

TokenCall(w) == <<w, "token">>
CredentialCall(w) == <<w, "credential">>

(* The code in the offer URI, and the txCode and signer options. *)
AcquireArguments == [code: Codes, txCode: CallerPins, signer: CallerSigners]

ASSUME AcquireAssumption ==
  /\ Handlers = Wallets \X {"token", "credential"}
  /\ Arguments \in [Wallets -> SUBSET AcquireArguments]
  /\ Empty \in CallerConfigs

VARIABLES
  flow,   \* where each Acquire is
  held,   \* its variable session
  args    \* what it was called with

acquireVars == <<systemVars, flow, held, args>>

Flows == {"parse", "redeem", "redeeming", "request", "requesting", "acquired", "failed"}

Ended(w) == flow[w] \in {"acquired", "failed"}

AcquireInit ==
  /\ SystemInit
  /\ flow = [w \in Wallets |-> "parse"]
  /\ held = [w \in Wallets |-> Empty]
  /\ args \in [Wallets -> AcquireArguments] /\ \A w \in Wallets : args[w] \in Arguments[w]

-----------------------------------------------------------------------------
Proceed(w, from, to) == flow[w] = from /\ flow' = [flow EXCEPT ![w] = to]

Parse(w) ==
  /\ Proceed(w, "parse", "redeem")
  /\ ParseOffer(args[w].code)
  /\ held' = [held EXCEPT ![w] = NewSession(CredentialOffer(args[w].code))]

BeginRedeem(w) ==
  /\ Proceed(w, "redeem", "redeeming")
  /\ RedeemOffer(TokenCall(w), held[w], args[w].txCode)
  /\ UNCHANGED held

(* Mutant: the request is made from the session that was not redeemed. *)
RedeemedIgnoringSession(w) ==
  /\ Proceed(w, "redeeming", "request")
  /\ Return(TokenCall(w)) /\ reply[TokenCall(w)].error = Empty
  /\ UNCHANGED held

Redeemed(w) ==
  /\ Proceed(w, "redeeming", "request")
  /\ Return(TokenCall(w)) /\ reply[TokenCall(w)].error = Empty
  /\ held' = [held EXCEPT ![w] = Returned(TokenCall(w))]

BeginRequest(w) ==
  /\ Proceed(w, "request", "requesting")
  /\ RequestCredential(CredentialCall(w), held[w], Empty, args[w].signer)
  /\ UNCHANGED held

(* RequestCredential finds no nonce, or cannot build its proof. *)
CannotRequest(w) ==
  /\ Proceed(w, "request", "failed")
  /\ args[w].signer # Empty /\ ~CanBuildProof(held[w].cNonce, args[w].signer)
  /\ UNCHANGED <<systemVars, held>>

Acquired(w) ==
  /\ Proceed(w, "requesting", "acquired")
  /\ Return(CredentialCall(w)) /\ reply[CredentialCall(w)].error = Empty
  /\ UNCHANGED held

Refused(w) ==
  /\ \/ /\ Proceed(w, "redeeming", "failed")
        /\ Return(TokenCall(w)) /\ reply[TokenCall(w)].error # Empty
     \/ /\ Proceed(w, "requesting", "failed")
        /\ Return(CredentialCall(w)) /\ reply[CredentialCall(w)].error # Empty
  /\ UNCHANGED held

(* The connection breaks, or the context that Acquire was given is done. *)
Interrupted(w) ==
  /\ \/ Proceed(w, "redeeming", "failed") /\ GiveUp(TokenCall(w))
     \/ Proceed(w, "requesting", "failed") /\ GiveUp(CredentialCall(w))
  /\ UNCHANGED held

AcquireStep(w) ==
  \/ Parse(w) \/ BeginRedeem(w) \/ Redeemed(w)
  \/ BeginRequest(w) \/ CannotRequest(w) \/ Acquired(w) \/ Refused(w)

AcquireNext ==
  /\ \/ IssuerStep /\ UNCHANGED <<flow, held>>
     \/ \E w \in Wallets : AcquireStep(w) \/ Interrupted(w)
  /\ UNCHANGED args

AcquireSpec == AcquireInit /\ [][AcquireNext]_acquireVars

(* The goroutines of the callers run, as those of the issuer do.  Nothing  *)
(* is assumed of Interrupted, nor of the clock.                            *)
AcquireFairness ==
  /\ \A w \in Wallets : WF_acquireVars(AcquireStep(w) /\ UNCHANGED args)
  /\ \A h \in Handlers :
       WF_acquireVars((HandleToken(h) \/ HandleCredential(h))
                      /\ UNCHANGED <<walletVars, flow, held, args>>)

FairAcquireSpec == AcquireSpec /\ AcquireFairness

-----------------------------------------------------------------------------
Rivals(w) == {v \in Wallets : args[v].code = args[w].code}

(* The token that v was sold was not found: Get failed.                    *)
TokenLost(v) ==
  /\ "store" \in Faults
  /\ Answered(CredentialCall(v)) /\ reply[CredentialCall(v)].error = "invalid_token"
  /\ req[CredentialCall(v)].token \in DOMAIN records

(* The offer of v is there, v has its PIN and makes no proof, and nothing  *)
(* failed or expired on its way.                                           *)
Unhindered(v) ==
  LET offer == offers[args[v].code].offer
  IN /\ args[v].code \in DOMAIN offers
     /\ offer.txCode \in {Empty, args[v].txCode}
     /\ args[v].signer = Empty /\ ~RequireProof
     /\ now <= offer.expiresAt /\ now <= AccessTokenTTL
     /\ ~TokenLost(v)
     /\ \A h \in {TokenCall(v), CredentialCall(v)} :
          ~Lost(h) /\ (Answered(h) => reply[h].error # "server_error")

(* Of those who were shown one offer at most one acquires a credential     *)
(* with it; and when all of them have the PIN and make no proof, nothing   *)
(* fails or expires and no answer is lost, one of them does, without a     *)
(* second attempt (client.go:323-342).                                     *)
OneAcquirer ==
  \A w \in Wallets :
    /\ \A v \in Rivals(w) : flow[v] = "acquired" /\ flow[w] = "acquired" => v = w
    /\ (\A v \in Rivals(w) : Ended(v) /\ Unhindered(v))
       => \E v \in Rivals(w) : flow[v] = "acquired"

(* An offer that some wallet starts to redeem is acquired in the end by    *)
(* one of those it was shown to, unless something hinders one of them: the *)
(* race for the code, the tokens' mutex and the chain of two requests let  *)
(* one through, whatever becomes of other offers (client.go:323-342).      *)
OfferIsAcquired ==
  \A w \in Wallets :
    flow[w] = "redeem" ~> \E v \in Rivals(w) : flow[v] = "acquired" \/ ~Unhindered(v)

-----------------------------------------------------------------------------
(* The inductive invariant.                                                *)

(* How far the two calls of w are. *)
Outcome(h) == IF Called(h) THEN calls[h].outcome ELSE "none"

At(w, redeem, request) ==
  Outcome(TokenCall(w)) = redeem /\ Outcome(CredentialCall(w)) = request

(* What the place of w in Acquire says of its calls, and what its variable *)
(* session and its arguments have to do with them.                         *)
FlowInv(w) ==
  LET redeem == TokenCall(w)
      request == CredentialCall(w)
  IN /\ flow[w] \in {"parse", "redeem"} => At(w, "none", "none")
     /\ flow[w] = "redeeming"  => At(w, "waiting", "none")
     /\ flow[w] = "request"    => At(w, "returned", "none")
     /\ flow[w] = "requesting" => At(w, "returned", "waiting")
     /\ flow[w] = "acquired"   => At(w, "returned", "returned")
     /\ flow[w] = "failed" =>
          \/ At(w, "failed", "none") \/ At(w, "returned", "failed")
          \/ At(w, "returned", "none") /\ args[w].signer # Empty
     /\ flow[w] # "parse" => held[w].code = args[w].code
     /\ Called(redeem) =>
          /\ calls[redeem].config = Empty
          /\ req[redeem] = TokenForm(args[w].code, args[w].txCode)
     /\ Outcome(redeem) = "returned" => held[w].token = reply[redeem].token
     /\ Called(request) =>
          /\ calls[request].session = held[w]
          /\ calls[request].config \in held[w].configs
          /\ calls[request].signer = args[w].signer

(* Every Acquire holds a session that some call returned.                  *)
FlowTypeOK ==
  /\ flow \in [Wallets -> Flows]
  /\ held \in [Wallets -> Optional(sessions)]
  /\ args \in [Wallets -> AcquireArguments]
  /\ \A w \in Wallets : flow[w] # "parse" => held[w] \in sessions

(* Inductive with the invariants of the system, of which every step of     *)
(* Acquire is one; with CauseInv it implies OneAcquirer.                   *)
AcquireInv == FlowTypeOK /\ \A w \in Wallets : FlowInv(w)
=============================================================================
