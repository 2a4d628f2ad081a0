--------------------------- MODULE AcquireProofs ---------------------------
(***************************************************************************)
(* What is proved about Client.Acquire, for any number of wallets with any *)
(* offers, PINs and signers: that it does nothing an application could not *)
(* do with the calls it is made of, so that all that is proved of System   *)
(* holds of it, and that of the wallets shown one offer one acquires.      *)
(***************************************************************************)
EXTENDS Acquire, SessionProofs

(* The two calls of a wallet are its own.                                  *)
LEMMA TwoCalls ==
  \A v, w \in Wallets :
    /\ TokenCall(w) \in Handlers /\ CredentialCall(w) \in Handlers
    /\ TokenCall(v) # CredentialCall(w)
    /\ v # w => TokenCall(v) # TokenCall(w) /\ CredentialCall(v) # CredentialCall(w)
BY AcquireAssumption DEF TokenCall, CredentialCall

(* A step of Acquire is a call of the library or a step of the issuer, or  *)
(* it is none of theirs; and what it returns is held.                      *)
LEMMA AcquireMove ==
  ASSUME FlowTypeOK, [AcquireNext]_acquireVars
  PROVE  [SystemNext]_systemVars /\ FlowTypeOK'
<1>1. CASE UNCHANGED acquireVars
  BY <1>1 DEF acquireVars, systemVars, walletVars, FlowTypeOK
<1>2. CASE IssuerStep /\ UNCHANGED <<flow, held, args>>
  BY <1>2 DEF SystemNext, IssuerStep, walletVars, FlowTypeOK
<1>3. ASSUME NEW w \in Wallets, AcquireStep(w) \/ Interrupted(w), UNCHANGED args
      PROVE  [SystemNext]_systemVars /\ FlowTypeOK'
  <2>1. /\ TokenCall(w) \in Handlers /\ CredentialCall(w) \in Handlers
        /\ args[w].code \in Codes /\ args[w].txCode \in CallerPins
        /\ args[w].signer \in CallerSigners /\ Empty \in CallerConfigs
    BY TwoCalls, AcquireAssumption DEF FlowTypeOK, AcquireArguments
  <2>2. ASSUME sessions \subseteq sessions',
               NEW to \in Flows, flow' = [flow EXCEPT ![w] = to],
               \/ UNCHANGED held /\ flow[w] # "parse"
               \/ \E s \in sessions' : held' = [held EXCEPT ![w] = s]
        PROVE  FlowTypeOK'
    <3>1. flow' \in [Wallets -> Flows] /\ args' \in [Wallets -> AcquireArguments]
      BY <1>3, <2>2 DEF FlowTypeOK
    <3>2. held' \in [Wallets -> Optional(sessions')]
      BY <2>2 DEF FlowTypeOK, Optional
    <3>3. ASSUME NEW v \in Wallets, flow'[v] # "parse" PROVE held'[v] \in sessions'
      BY <2>2, <3>3 DEF FlowTypeOK
    <3> QED
      BY <3>1, <3>2, <3>3 DEF FlowTypeOK
  <2>3. CASE Parse(w)
    <3>1. ParseOffer(args[w].code)
      BY <2>3 DEF Parse
    <3>2. sessions \subseteq sessions'
          /\ NewSession(CredentialOffer(args[w].code)) \in sessions'
      BY <3>1 DEF ParseOffer
    <3>3. FlowTypeOK'
      BY <2>2, <2>3, <3>2 DEF Parse, Proceed, Flows
    <3> QED
      BY <2>1, <3>1, <3>3 DEF SystemNext
  <2>4. CASE BeginRedeem(w)
    <3>1. RedeemOffer(TokenCall(w), held[w], args[w].txCode) /\ held[w] \in sessions
      BY <2>4 DEF BeginRedeem, Proceed, FlowTypeOK
    <3>2. sessions \subseteq sessions'
      BY <3>1 DEF RedeemOffer, Send
    <3>3. FlowTypeOK'
      BY <2>2, <2>4, <3>2 DEF BeginRedeem, Proceed, Flows
    <3> QED
      BY <2>1, <3>1, <3>3 DEF SystemNext
  <2>5. CASE BeginRequest(w)
    <3>1. RequestCredential(CredentialCall(w), held[w], Empty, args[w].signer)
          /\ held[w] \in sessions
      BY <2>5 DEF BeginRequest, Proceed, FlowTypeOK
    <3>2. sessions \subseteq sessions'
      BY <3>1 DEF RequestCredential, Send
    <3>3. FlowTypeOK'
      BY <2>2, <2>5, <3>2 DEF BeginRequest, Proceed, Flows
    <3> QED
      BY <2>1, <3>1, <3>3 DEF SystemNext
  <2>6. CASE CannotRequest(w)
    <3>1. sessions \subseteq sessions'
      BY <2>6 DEF CannotRequest, systemVars, walletVars
    <3>2. FlowTypeOK'
      BY <2>2, <2>6, <3>1 DEF CannotRequest, Proceed, Flows
    <3> QED
      BY <2>6, <3>2 DEF CannotRequest
  <2>7. CASE Redeemed(w)
    <3>1. Return(TokenCall(w)) /\ reply[TokenCall(w)].error = Empty
      BY <2>7 DEF Redeemed
    <3>2. sessions \subseteq sessions' /\ Returned(TokenCall(w)) \in sessions'
      BY <3>1 DEF Return
    <3>3. FlowTypeOK'
      BY <2>2, <2>7, <3>2 DEF Redeemed, Proceed, Flows
    <3> QED
      BY <2>1, <3>1, <3>3 DEF SystemNext
  <2>8. CASE Acquired(w) \/ Refused(w) \/ Interrupted(w)
    <3>1. \E h \in Handlers : Return(h) \/ GiveUp(h)
      BY <2>1, <2>8 DEF Acquired, Refused, Interrupted
    <3>2. sessions \subseteq sessions'
      BY <3>1 DEF Return, GiveUp
    <3>3. FlowTypeOK'
      BY <2>2, <2>8, <3>2 DEF Acquired, Refused, Interrupted, Proceed, Flows
    <3> QED
      BY <3>1, <3>3 DEF SystemNext
  <2> QED
    BY <1>3, <2>3, <2>4, <2>5, <2>6, <2>7, <2>8 DEF AcquireStep
<1> QED
  BY <1>1, <1>2, <1>3 DEF AcquireNext

(* Acquire implements the system: whatever an application may do with the  *)
(* calls of the library covers what Client.Acquire does with them.         *)
THEOREM AcquireRunsSystem == AcquireSpec => SystemSpec /\ []FlowTypeOK
<1>1. AcquireInit => SystemInit /\ FlowTypeOK
  <2> SUFFICES ASSUME AcquireInit PROVE SystemInit /\ FlowTypeOK
    OBVIOUS
  <2>1. flow \in [Wallets -> Flows] /\ \A w \in Wallets : flow[w] = "parse"
    BY DEF AcquireInit, Flows
  <2>2. held \in [Wallets -> Optional(sessions)]
    BY DEF AcquireInit, Optional
  <2> QED
    BY <2>1, <2>2 DEF AcquireInit, FlowTypeOK
<1>2. FlowTypeOK /\ [AcquireNext]_acquireVars => [SystemNext]_systemVars /\ FlowTypeOK'
  BY AcquireMove
<1> QED
  BY <1>1, <1>2, PTL DEF AcquireSpec, SystemSpec

-----------------------------------------------------------------------------
(* The place of an Acquire says how far its calls are.                     *)

(* A call that has not been made has no outcome, and one that has has one. *)
LEMMA OutcomeOf ==
  ASSUME SystemInv, NEW h \in Handlers
  PROVE  /\ Called(h) <=> Outcome(h) # "none"
         /\ Called(h) => calls[h] \in Call /\ Outcome(h) = calls[h].outcome
         /\ Waiting(h) <=> Outcome(h) = "waiting"
         /\ Called(h) <=> pc[h] # "ready"
<1>1. /\ Called(h) => calls[h] \in Call
      /\ Called(h) <=> pc[h] # "ready"
  BY DEF SystemInv, SystemTypeOK, Called, Optional
<1>2. Called(h) => calls[h].outcome \in Outcomes
  BY <1>1 DEF Call
<1> QED
  BY <1>1, <1>2 DEF Outcome, Outcomes, Waiting, Called

(* While neither call of w and neither of its variables changes, what is   *)
(* known of its place stays: requests are fixed, and so are answers.       *)
LEMMA FlowFrame ==
  ASSUME SystemInv, [Next]_vars, NEW w \in Wallets, FlowInv(w),
         flow'[w] = flow[w], held'[w] = held[w], args' = args,
         calls'[TokenCall(w)] = calls[TokenCall(w)],
         calls'[CredentialCall(w)] = calls[CredentialCall(w)]
  PROVE  FlowInv(w)'
<1> DEFINE redeem == TokenCall(w)
           request == CredentialCall(w)
<1>1. redeem \in Handlers /\ request \in Handlers
  BY TwoCalls
<1>2. Called(redeem) => req'[redeem] = req[redeem]
  BY <1>1, OutcomeOf, RequestKept DEF SystemInv, SystemTypeOK
<1>3. Outcome(redeem) = "returned" => reply'[redeem] = reply[redeem]
  <2>1. SUFFICES ASSUME Outcome(redeem) = "returned" PROVE reply'[redeem] = reply[redeem]
    OBVIOUS
  <2>2. Called(redeem) /\ calls[redeem].outcome = "returned"
    BY <1>1, <2>1, OutcomeOf
  <2>3. Answered(redeem)
    BY <1>1, <2>2 DEF SystemInv, SessionInv, CallInv
  <2>4. TypeOK /\ pc[redeem] = "done"
    BY <1>1, <2>3 DEF SystemInv, IssuerInv, TakerInv
  <2> QED
    BY <1>1, <2>4, SettledKept
<1> QED
  BY <1>2, <1>3 DEF FlowInv, At, Outcome, Called, TokenCall, CredentialCall

(* A call comes to its end.                                                *)
LEMMA Ending ==
  ASSUME SystemInv, SystemInv', UNCHANGED vars, NEW h \in Handlers, Waiting(h),
         NEW outcome, calls' = [calls EXCEPT ![h].outcome = outcome]
  PROVE  /\ Outcome(h)' = outcome
         /\ \A g \in Handlers \ {h} : calls'[g] = calls[g]
         /\ Called(h) /\ Called(h)'
         /\ calls'[h].session = calls[h].session /\ calls'[h].config = calls[h].config
         /\ calls'[h].signer = calls[h].signer
<1>1. Called(h) /\ calls[h] \in Call /\ pc[h] # "ready"
  BY OutcomeOf
<1>2. calls \in [Handlers -> Optional(Call)] /\ (Called(h)' <=> pc'[h] # "ready")
  BY DEF SystemInv, SystemTypeOK
<1>3. Called(h)'
  BY <1>1, <1>2 DEF vars
<1>4. /\ calls'[h].outcome = outcome /\ calls'[h].session = calls[h].session
      /\ calls'[h].config = calls[h].config /\ calls'[h].signer = calls[h].signer
      /\ \A g \in Handlers \ {h} : calls'[g] = calls[g]
  BY <1>1, <1>2 DEF Call
<1>5. Outcome(h)' = outcome
  BY <1>3, <1>4 DEF Outcome
<1> QED
  BY <1>1, <1>3, <1>4, <1>5

(* A call is made.                                                         *)
LEMMA Sending ==
  ASSUME SystemInv, SystemInv', NEW h \in Handlers,
         NEW r, NEW s, NEW config, NEW signer, Send(h, r, s, config, signer)
  PROVE  /\ Outcome(h)' = "waiting" /\ Called(h)' /\ ~Called(h)
         /\ \A g \in Handlers \ {h} : calls'[g] = calls[g] /\ req'[g] = req[g]
         /\ req'[h] = r /\ UNCHANGED reply
         /\ calls'[h].session = s /\ calls'[h].config = config /\ calls'[h].signer = signer
<1>1. TypeOK /\ calls \in [Handlers -> Optional(Call)]
  BY DEF SystemInv, SystemTypeOK
<1>2. /\ pc[h] = "ready" /\ pc'[h] # "ready" /\ UNCHANGED reply
      /\ req'[h] = r /\ \A g \in Handlers \ {h} : req'[g] = req[g]
  BY <1>1 DEF Send, Receive, Goto, TypeOK
<1>3. ~Called(h) /\ Called(h)'
  BY <1>2 DEF SystemInv, SystemTypeOK
<1>4. /\ calls'[h] = [session |-> s, config |-> config, signer |-> signer,
                      outcome |-> "waiting"]
      /\ \A g \in Handlers \ {h} : calls'[g] = calls[g]
  BY <1>1 DEF Send
<1>5. Outcome(h)' = "waiting"
  BY <1>3, <1>4 DEF Outcome
<1> QED
  BY <1>2, <1>3, <1>4, <1>5

(* ParseOffer.                                                             *)
LEMMA ParseFlow ==
  ASSUME SystemInv, FlowTypeOK, NEW w \in Wallets, FlowInv(w), Parse(w), UNCHANGED args
  PROVE  FlowInv(w)'
<1> DEFINE redeem == TokenCall(w)
           request == CredentialCall(w)
<1>1. redeem \in Handlers /\ request \in Handlers
  BY TwoCalls
<1>2. /\ flow[w] = "parse" /\ flow'[w] = "redeem" /\ UNCHANGED calls
      /\ held'[w] = NewSession(CredentialOffer(args[w].code))
  BY DEF Parse, Proceed, ParseOffer, FlowTypeOK
<1>3. held'[w].code = args[w].code
  BY <1>2 DEF NewSession, CredentialOffer
<1>4. At(w, "none", "none")
  BY <1>2 DEF FlowInv
<1>5. At(w, "none", "none")' /\ ~Called(redeem)' /\ ~Called(request)'
  BY <1>1, <1>2, <1>4, OutcomeOf DEF At, Outcome, Called, TokenCall, CredentialCall
<1>6. Outcome(redeem)' # "returned"
  BY <1>5 DEF At
<1> QED
  BY <1>2, <1>3, <1>5, <1>6 DEF FlowInv

(* RedeemOffer is called.                                                  *)
LEMMA BeginRedeemFlow ==
  ASSUME SystemInv, SystemInv', FlowTypeOK, NEW w \in Wallets, FlowInv(w),
         BeginRedeem(w), UNCHANGED args
  PROVE  FlowInv(w)'
<1> DEFINE redeem == TokenCall(w)
           request == CredentialCall(w)
<1>1. redeem \in Handlers /\ request \in Handlers \ {redeem}
  BY TwoCalls
<1>2. /\ flow[w] = "redeem" /\ flow'[w] = "redeeming" /\ UNCHANGED held
      /\ Send(redeem, TokenForm(held[w].code, args[w].txCode), held[w], Empty, Empty)
  BY DEF BeginRedeem, RedeemOffer, Proceed, FlowTypeOK
<1>3. /\ Outcome(redeem)' = "waiting" /\ calls'[request] = calls[request]
      /\ calls'[redeem].config = Empty
      /\ req'[redeem] = TokenForm(held[w].code, args[w].txCode)
  BY <1>1, <1>2, Sending
<1>4. held[w].code = args[w].code /\ At(w, "none", "none")
  BY <1>2 DEF FlowInv
<1>5. ~Called(request)' /\ Outcome(request)' = "none"
  BY <1>1, <1>3, <1>4, OutcomeOf DEF At, Called, Outcome
<1>6. At(w, "waiting", "none")'
  BY <1>3, <1>5 DEF At
<1> QED
  BY <1>2, <1>3, <1>4, <1>5, <1>6 DEF FlowInv

(* RedeemOffer returns a session with the token that was granted.          *)
LEMMA RedeemedFlow ==
  ASSUME SystemInv, SystemInv', FlowTypeOK, NEW w \in Wallets, FlowInv(w),
         Redeemed(w), UNCHANGED args
  PROVE  FlowInv(w)'
<1> DEFINE redeem == TokenCall(w)
           request == CredentialCall(w)
<1>1. redeem \in Handlers /\ request \in Handlers \ {redeem}
  BY TwoCalls
<1>2. /\ flow[w] = "redeeming" /\ flow'[w] = "request"
      /\ held'[w] = Returned(redeem)
      /\ Waiting(redeem) /\ UNCHANGED vars
      /\ calls' = [calls EXCEPT ![redeem].outcome = "returned"]
  BY DEF Redeemed, Return, Proceed, FlowTypeOK
<1>3. /\ Outcome(redeem)' = "returned" /\ calls'[request] = calls[request]
      /\ Called(redeem) /\ Called(redeem)' /\ calls'[redeem].config = calls[redeem].config
  BY <1>1, <1>2, Ending
<1>4. /\ calls[redeem].config = Empty
      /\ req[redeem] = TokenForm(args[w].code, args[w].txCode)
      /\ At(w, "waiting", "none")
  BY <1>2, <1>3 DEF FlowInv
<1>5. ~Called(request)' /\ Outcome(request)' = "none"
  BY <1>1, <1>3, <1>4, OutcomeOf DEF At, Called, Outcome
<1>6. At(w, "returned", "none")'
  BY <1>3, <1>5 DEF At
<1>7. held'[w].token = reply[redeem].token /\ held'[w].code = args[w].code
  <2>1. /\ calls[redeem].session \in Session
        /\ calls[redeem].session.code = req[redeem].code
    BY <1>1, <1>3, <1>4, CallFacts DEF IsRequest
  <2>2. held'[w] = AfterRedeem(calls[redeem].session, reply[redeem],
                     ExpiresIn(AccessTokenTTL), ExpiresIn(CNonceTTL), now)
    BY <1>2, <1>4 DEF Returned
  <2>3. /\ held'[w].token = reply[redeem].token
        /\ held'[w].code = calls[redeem].session.code
    BY <2>1, <2>2 DEF AfterRedeem, WithNonce, Session
  <2> QED
    BY <1>4, <2>1, <2>3 DEF TokenForm
<1>8. UNCHANGED <<req, reply>>
  BY <1>2 DEF vars
<1> QED
  BY <1>2, <1>3, <1>4, <1>5, <1>6, <1>7, <1>8 DEF FlowInv

(* RequestCredential is called, for a configuration of the offer.          *)
LEMMA BeginRequestFlow ==
  ASSUME SystemInv, SystemInv', FlowTypeOK, NEW w \in Wallets, FlowInv(w),
         BeginRequest(w), UNCHANGED args
  PROVE  FlowInv(w)'
<1> DEFINE redeem == TokenCall(w)
           request == CredentialCall(w)
<1>1. redeem \in Handlers \ {request} /\ request \in Handlers
  BY TwoCalls
<1>2. flow[w] = "request" /\ flow'[w] = "requesting" /\ UNCHANGED held
  BY DEF BeginRequest, Proceed, FlowTypeOK
<1>3. PICK k \in held[w].configs :
        Send(request, CredentialBody(held[w].token, held[w].cNonce, k, args[w].signer),
             held[w], k, args[w].signer)
  BY DEF BeginRequest, RequestCredential, Requested
<1>4. /\ Outcome(request)' = "waiting" /\ calls'[redeem] = calls[redeem]
      /\ req'[redeem] = req[redeem] /\ UNCHANGED reply
      /\ calls'[request].session = held[w] /\ calls'[request].config = k
      /\ calls'[request].signer = args[w].signer
  BY <1>1, <1>3, Sending
<1>5. At(w, "returned", "none")
  BY <1>2 DEF FlowInv
<1>6. Outcome(redeem)' = Outcome(redeem) /\ (Called(redeem)' <=> Called(redeem))
  BY <1>4 DEF Outcome, Called
<1>7. At(w, "returned", "waiting")'
  BY <1>4, <1>5, <1>6 DEF At
<1> QED
  BY <1>2, <1>4, <1>6, <1>7 DEF FlowInv

(* Acquire returns an error before it sends its second request.            *)
LEMMA CannotRequestFlow ==
  ASSUME SystemInv, FlowTypeOK, NEW w \in Wallets, FlowInv(w),
         CannotRequest(w), UNCHANGED args
  PROVE  FlowInv(w)'
<1>1. /\ flow[w] = "request" /\ flow'[w] = "failed" /\ args[w].signer # Empty
      /\ UNCHANGED <<held, calls, sessions, req, reply>>
  BY DEF CannotRequest, Proceed, FlowTypeOK, systemVars, walletVars, vars
<1>2. At(w, "returned", "none")
  BY <1>1 DEF FlowInv
<1>3. At(w, "returned", "none")'
  BY <1>1, <1>2 DEF At, Outcome, Called
<1> QED
  BY <1>1, <1>3 DEF FlowInv, Outcome, Called

(* A call ends with an error or without an answer, or the last one with a  *)
(* credential.                                                             *)
LEMMA EndFlow ==
  ASSUME SystemInv, SystemInv', FlowTypeOK, NEW w \in Wallets, FlowInv(w),
         Acquired(w) \/ Refused(w) \/ Interrupted(w), UNCHANGED args
  PROVE  FlowInv(w)'
<1> DEFINE redeem == TokenCall(w)
           request == CredentialCall(w)
<1>1. redeem \in Handlers \ {request} /\ request \in Handlers \ {redeem}
  BY TwoCalls
<1>2. UNCHANGED held
  BY DEF Acquired, Refused, Interrupted
<1>3. ASSUME flow[w] = "redeeming", flow'[w] = "failed", Waiting(redeem), UNCHANGED vars,
             calls' = [calls EXCEPT ![redeem].outcome = "failed"]
      PROVE  FlowInv(w)'
  <2>1. /\ Outcome(redeem)' = "failed" /\ calls'[request] = calls[request]
        /\ Called(redeem) /\ calls'[redeem].config = calls[redeem].config
    BY <1>1, <1>3, Ending
  <2>2. At(w, "waiting", "none")
    BY <1>3 DEF FlowInv
  <2>3. ~Called(request)' /\ Outcome(request)' = "none"
    BY <1>1, <2>1, <2>2, OutcomeOf DEF At, Called, Outcome
  <2>4. At(w, "failed", "none")'
    BY <2>1, <2>3 DEF At
  <2>5. req' = req
    BY <1>3 DEF vars
  <2> QED
    BY <1>2, <1>3, <2>1, <2>3, <2>4, <2>5 DEF FlowInv
<1>4. ASSUME NEW end \in {"acquired", "failed"}, NEW outcome \in {"returned", "failed"},
             end = "acquired" <=> outcome = "returned",
             flow[w] = "requesting", flow'[w] = end, Waiting(request), UNCHANGED vars,
             calls' = [calls EXCEPT ![request].outcome = outcome]
      PROVE  FlowInv(w)'
  <2>1. /\ Outcome(request)' = outcome /\ calls'[redeem] = calls[redeem]
        /\ Called(request) /\ calls'[request].session = calls[request].session
        /\ calls'[request].config = calls[request].config
        /\ calls'[request].signer = calls[request].signer
    BY <1>1, <1>4, Ending
  <2>2. At(w, "returned", "waiting")
    BY <1>4 DEF FlowInv
  <2>3. Outcome(redeem)' = Outcome(redeem) /\ (Called(redeem)' <=> Called(redeem))
    BY <2>1 DEF Outcome, Called
  <2>4. At(w, "returned", outcome)'
    BY <2>1, <2>2, <2>3 DEF At
  <2>5. req' = req /\ reply' = reply
    BY <1>4 DEF vars
  <2> QED
    BY <1>2, <1>4, <2>1, <2>3, <2>4, <2>5 DEF FlowInv
<1>5. CASE Acquired(w)
  <2>1. /\ flow[w] = "requesting" /\ flow'[w] = "acquired" /\ Waiting(request)
        /\ UNCHANGED vars /\ calls' = [calls EXCEPT ![request].outcome = "returned"]
    BY <1>5 DEF Acquired, Proceed, Return, FlowTypeOK
  <2> QED
    BY <1>4, <2>1
<1>6. CASE Refused(w) \/ Interrupted(w)
  <2>1. /\ UNCHANGED vars /\ flow'[w] = "failed"
        /\ \/ /\ flow[w] = "redeeming" /\ Waiting(redeem)
              /\ calls' = [calls EXCEPT ![redeem].outcome = "failed"]
           \/ /\ flow[w] = "requesting" /\ Waiting(request)
              /\ calls' = [calls EXCEPT ![request].outcome = "failed"]
    BY <1>6 DEF Refused, Interrupted, Proceed, Return, GiveUp, FlowTypeOK
  <2> QED
    BY <1>3, <1>4, <2>1
<1> QED
  BY <1>5, <1>6

(* A wallet's steps keep what is known of the other wallets' places.       *)
LEMMA OtherFlow ==
  ASSUME SystemInv, SystemInv', FlowTypeOK, [Next]_vars,
         NEW w \in Wallets, AcquireStep(w) \/ Interrupted(w), UNCHANGED args,
         NEW v \in Wallets \ {w}, FlowInv(v)
  PROVE  FlowInv(v)'
<1>1. /\ TokenCall(v) # TokenCall(w) /\ TokenCall(v) # CredentialCall(w)
      /\ CredentialCall(v) # TokenCall(w) /\ CredentialCall(v) # CredentialCall(w)
      /\ \A u \in Wallets : TokenCall(u) \in Handlers /\ CredentialCall(u) \in Handlers
  BY TwoCalls
<1>2. flow'[v] = flow[v] /\ held'[v] = held[v]
  BY DEF AcquireStep, Parse, BeginRedeem, Redeemed, BeginRequest, CannotRequest,
         Acquired, Refused, Interrupted, Proceed, FlowTypeOK
<1>3. calls \in [Handlers -> Optional(Call)]
  BY DEF SystemInv, SystemTypeOK
<1>4. CASE UNCHANGED calls
  BY <1>2, <1>4, FlowFrame
<1>5. ASSUME NEW h \in {TokenCall(w), CredentialCall(w)},
             \A g \in Handlers \ {h} : calls'[g] = calls[g]
      PROVE  FlowInv(v)'
  BY <1>1, <1>2, <1>5, FlowFrame
<1>6. ASSUME NEW h \in {TokenCall(w), CredentialCall(w)}, Return(h) \/ GiveUp(h)
      PROVE  FlowInv(v)'
  <2>1. \A g \in Handlers \ {h} : calls'[g] = calls[g]
    BY <1>1, <1>3, <1>6 DEF Return, GiveUp
  <2> QED
    BY <1>5, <2>1
<1>7. CASE BeginRedeem(w)
  BY <1>3, <1>5, <1>7 DEF BeginRedeem, RedeemOffer, Send
<1>8. CASE BeginRequest(w)
  BY <1>3, <1>5, <1>8 DEF BeginRequest, RequestCredential, Send
<1>9. CASE Parse(w) \/ CannotRequest(w)
  BY <1>4, <1>9 DEF Parse, ParseOffer, CannotRequest, systemVars, walletVars
<1> QED
  BY <1>6, <1>7, <1>8, <1>9 DEF AcquireStep, Redeemed, Acquired, Refused, Interrupted

(* Every step preserves the invariant.                                     *)
LEMMA AcquireInvStep ==
  ASSUME SystemInv, SystemInv', AcquireInv, [AcquireNext]_acquireVars
  PROVE  AcquireInv'
<1>1. FlowTypeOK /\ FlowTypeOK' /\ [SystemNext]_systemVars
  BY AcquireMove DEF AcquireInv
<1>2. [Next]_vars
  BY <1>1, SystemStep DEF SystemInv
<1>3. \A w \in Wallets : FlowInv(w)
  BY DEF AcquireInv
<1>4. CASE UNCHANGED acquireVars \/ (IssuerStep /\ UNCHANGED <<flow, held, args>>)
  <2>1. UNCHANGED <<calls, flow, held, args>>
    BY <1>4 DEF acquireVars, systemVars, walletVars, IssuerStep
  <2> QED
    BY <1>1, <1>2, <1>3, <2>1, FlowFrame DEF AcquireInv
<1>5. ASSUME NEW w \in Wallets, AcquireStep(w) \/ Interrupted(w), UNCHANGED args
      PROVE  \A v \in Wallets : FlowInv(v)'
  <2>1. FlowInv(w)'
    BY <1>1, <1>3, <1>5, ParseFlow, BeginRedeemFlow, RedeemedFlow, BeginRequestFlow,
       CannotRequestFlow, EndFlow DEF AcquireStep
  <2>2. \A v \in Wallets \ {w} : FlowInv(v)'
    BY <1>1, <1>2, <1>3, <1>5, OtherFlow
  <2> QED
    BY <2>1, <2>2
<1> QED
  BY <1>1, <1>4, <1>5 DEF AcquireNext, AcquireInv

(* Where each Acquire is tells what its calls have come to.                *)
THEOREM AcquireInvariantHolds == AcquireSpec => []AcquireInv
<1>1. AcquireInit => \A w \in Wallets : FlowInv(w)
  <2> SUFFICES ASSUME AcquireInit, NEW w \in Wallets PROVE FlowInv(w)
    OBVIOUS
  <2>1. flow[w] = "parse" /\ ~Called(TokenCall(w)) /\ ~Called(CredentialCall(w))
    BY TwoCalls DEF AcquireInit, SystemInit, Called
  <2> QED
    BY <2>1 DEF FlowInv, At, Outcome
<1>2. AcquireSpec => []SystemInv /\ []FlowTypeOK
  BY AcquireRunsSystem, SystemInvHolds, PTL
<1>3. FlowTypeOK /\ (\A w \in Wallets : FlowInv(w)) => AcquireInv
  BY DEF AcquireInv
<1>4. SystemInv /\ SystemInv' /\ AcquireInv /\ [AcquireNext]_acquireVars => AcquireInv'
  BY AcquireInvStep
<1> QED
  BY <1>1, <1>2, <1>3, <1>4, PTL DEF AcquireSpec

-----------------------------------------------------------------------------
(* One acquirer.                                                           *)

(* What an ended call has been answered with, when no answer was lost: a   *)
(* grant or a credential, or an error.                                     *)
LEMMA EndedCall ==
  ASSUME SystemInv, NEW h \in Handlers, Called(h)
  PROVE  /\ calls[h].outcome = "returned" => Answered(h) /\ reply[h].error = Empty
         /\ calls[h].outcome = "failed" /\ ~Lost(h) => Answered(h) /\ reply[h].error # Empty
         /\ Granted(h) => reply[h].error = Empty
         /\ Answered(h) /\ reply[h].error = Empty /\ ~IsRequest(h) => Granted(h)
<1>1. calls[h].outcome = "returned" => Answered(h) /\ reply[h].error = Empty
  BY DEF SystemInv, SessionInv, CallInv
<1>2. AnswerInv(h)
  BY DEF SystemInv, AnswersInv
<1>3. Answered(h) /\ reply[h].error = Empty /\ ~IsRequest(h) => Granted(h)
  <2>1. ~IsRequest(h) => req[h] \in TokenRequests
    BY CallFacts
  <2>2. Issued(h) => req[h] \in CredentialRequests
    BY DEF SystemInv, SystemTypeOK, TypeOK, PlaceOK
  <2> QED
    BY <1>2, <2>1, <2>2, Disjoint DEF AnswerInv
<1> QED
  BY <1>1, <1>2, <1>3 DEF Lost, AnswerInv, Granted

(* A wallet that was granted a token acquires, if nothing hinders it: none *)
(* of the causes for which its second call could fail is there.            *)
LEMMA GrantedAcquires ==
  ASSUME SystemInv, CauseInv, AcquireInv, NEW v \in Wallets,
         Ended(v), Unhindered(v), Granted(TokenCall(v))
  PROVE  flow[v] = "acquired"
<1> DEFINE redeem == TokenCall(v)
           request == CredentialCall(v)
<1>1. redeem \in Handlers /\ request \in Handlers
  BY TwoCalls
<1>2. FlowInv(v) /\ args[v].signer = Empty /\ ~RequireProof
  BY DEF AcquireInv, Unhindered
<1>3. SUFFICES ASSUME flow[v] = "failed" PROVE FALSE
  BY DEF Ended
<1>4. ~(At(v, "failed", "none"))
  <2> SUFFICES ASSUME Outcome(redeem) = "failed" PROVE FALSE
    BY DEF At
  <2>1. Called(redeem) /\ calls[redeem].outcome = "failed"
    BY <1>1, OutcomeOf
  <2>2. ~Lost(redeem)
    BY DEF Unhindered
  <2> QED
    BY <1>1, <2>1, <2>2, EndedCall
<1>5. Outcome(redeem) = "returned" /\ Outcome(request) = "failed"
  BY <1>2, <1>3, <1>4 DEF FlowInv, At
<1>6. Called(request) /\ calls[request].outcome = "failed" /\ ~Lost(request)
  BY <1>1, <1>5, OutcomeOf DEF Unhindered
<1>7. Answered(request) /\ reply[request].error # Empty
  BY <1>1, <1>6, EndedCall
<1>8. /\ calls[request].session = held[v] /\ calls[request].config \in held[v].configs
      /\ calls[request].signer = Empty /\ held[v].token = reply[redeem].token
  BY <1>2, <1>5, <1>6 DEF FlowInv
<1>9. held[v] \in Session /\ held[v] \in sessions
  BY <1>1, <1>6, <1>8, CallFacts
<1>10. IsRequest(request)
  BY <1>6, <1>8, <1>9, EmptyAssumption DEF IsRequest, Session
<1>11. RequestCause(request)
  BY <1>1, <1>6, <1>7, <1>8, <1>10 DEF CauseInv, CallCause
<1>12. req[request].token = held[v].token /\ held[v].token # Empty
  BY <1>1, <1>6, <1>8, <1>10, CallFacts DEF Granted
<1>13. held[v].token \in DOMAIN records
  BY <1>9, <1>12, SessionGrant
<1>14. ~(now > records[held[v].token].expiresAt)
  <2>1. records[held[v].token].expiresAt >= AccessTokenTTL /\ now <= AccessTokenTTL
    BY <1>13 DEF CauseInv, Unhindered
  <2>2. records[held[v].token].expiresAt \in Nat /\ now \in Nat /\ AccessTokenTTL \in Nat
    BY <1>13, IssuerAssumption
       DEF SystemInv, SystemTypeOK, TypeOK, IsMap, AccessTokenRecord
  <2> QED
    BY <2>1, <2>2
<1>15. /\ reply[request].error # "server_error"
       /\ ~("store" \in Faults /\ reply[request].error = "invalid_token")
  BY <1>7, <1>12, <1>13 DEF Unhindered, TokenLost
<1> QED
  BY <1>2, <1>8, <1>11, <1>12, <1>14, <1>15 DEF RequestCause

(* A wallet that was not granted a token was refused it, if nothing        *)
(* hinders it, because another request had the code.                       *)
LEMMA RefusedForUse ==
  ASSUME SystemInv, CauseInv, AcquireInv, NEW v \in Wallets,
         Ended(v), Unhindered(v), ~Granted(TokenCall(v))
  PROVE  /\ args[v].code \in DOMAIN offers /\ offers[args[v].code].used
         /\ local[TokenCall(v)].offer = Empty
<1> DEFINE redeem == TokenCall(v)
           code == args[v].code
           offer == offers[code].offer
<1>1. redeem \in Handlers
  BY TwoCalls
<1>2. FlowInv(v)
  BY DEF AcquireInv
<1>3. Outcome(redeem) \in {"returned", "failed"}
  BY <1>2 DEF Ended, FlowInv, At
<1>4. Called(redeem) /\ calls[redeem].outcome \in {"returned", "failed"}
  BY <1>1, <1>3, OutcomeOf
<1>5. ~IsRequest(redeem) /\ req[redeem] = TokenForm(code, args[v].txCode)
  BY <1>2, <1>4 DEF FlowInv, IsRequest
<1>6. Answered(redeem) /\ reply[redeem].error # Empty
  BY <1>1, <1>4, <1>5, EndedCall DEF Unhindered
<1>7. RedeemCause(redeem)
  BY <1>1, <1>4, <1>5, <1>6 DEF CauseInv, CallCause
<1>8. req[redeem].code = code /\ code \in DOMAIN offers
  BY <1>1, <1>4, <1>5, CallFacts DEF TokenForm
<1>9. PinGiven(redeem, offer)
  BY <1>5 DEF Unhindered, PinGiven, TokenForm
<1>10. ~(now > offer.expiresAt)
  <2>1. now \in Nat /\ offer.expiresAt \in Nat
    BY <1>8 DEF SystemInv, SystemTypeOK, TypeOK, IsMap, OfferEntry, Offer
  <2> QED
    BY <2>1 DEF Unhindered
<1>11. reply[redeem].error # "server_error"
  BY <1>6 DEF Unhindered
<1> QED
  BY <1>7, <1>8, <1>9, <1>10, <1>11 DEF RedeemCause

(* The spender of a code is a wallet that was shown the offer.             *)
LEMMA SpenderIsRival ==
  ASSUME SystemInv, CauseInv, AcquireInv, NEW w \in Wallets,
         args[w].code \in DOMAIN offers, offers[args[w].code].used
  PROVE  \E v \in Rivals(w) :
           \/ local[TokenCall(v)].offer = args[w].code
           \/ Answered(TokenCall(v)) /\ reply[TokenCall(v)].error = "server_error"
<1>1. PICK h \in Handlers :
        /\ Called(h) /\ ~IsRequest(h) /\ req[h].code = args[w].code
        /\ \/ local[h].offer = args[w].code
           \/ Answered(h) /\ reply[h].error = "server_error"
  BY DEF CauseInv, SpenderInv
<1>2. PICK v \in Wallets : h \in {TokenCall(v), CredentialCall(v)}
  BY AcquireAssumption DEF TokenCall, CredentialCall
<1>3. FlowInv(v)
  BY DEF AcquireInv
<1>4. h = TokenCall(v)
  <2> SUFFICES ASSUME h = CredentialCall(v) PROVE FALSE
    BY <1>2
  <2>1. calls[h].session \in Session /\ calls[h].config \in calls[h].session.configs
    BY <1>1, <1>3, CallFacts DEF FlowInv
  <2>2. calls[h].config # Empty
    BY <2>1, EmptyAssumption DEF Session
  <2> QED
    BY <1>1, <2>2 DEF IsRequest
<1>5. req[h] = TokenForm(args[v].code, args[v].txCode)
  BY <1>1, <1>3, <1>4 DEF FlowInv
<1>6. v \in Rivals(w)
  BY <1>1, <1>5 DEF TokenForm, Rivals
<1> QED
  BY <1>1, <1>4, <1>6

(* Of the wallets that were shown an offer at most one acquires with it,   *)
(* and if nothing hinders any of them one of them does                     *)
(* (client.go:323-342).                                                    *)
THEOREM OneAcquirerHolds == AcquireSpec => []OneAcquirer
<1>1. ASSUME SystemInv, CauseInv, AcquireInv, NEW w \in Wallets, NEW v \in Rivals(w),
             flow[v] = "acquired", flow[w] = "acquired"
      PROVE  v = w
  <2>1. ASSUME NEW u \in Wallets, flow[u] = "acquired"
        PROVE  /\ Granted(TokenCall(u)) /\ TokenCall(u) \in Handlers
               /\ local[TokenCall(u)].offer = args[u].code /\ args[u].code # Empty
    <3>1. TokenCall(u) \in Handlers /\ FlowInv(u)
      BY <1>1, TwoCalls DEF AcquireInv
    <3>2. Called(TokenCall(u)) /\ calls[TokenCall(u)].outcome = "returned"
      BY <1>1, <2>1, <3>1, OutcomeOf DEF FlowInv, At
    <3>3. /\ ~IsRequest(TokenCall(u))
          /\ req[TokenCall(u)] = TokenForm(args[u].code, args[u].txCode)
      BY <3>1, <3>2 DEF FlowInv, IsRequest
    <3>4. Granted(TokenCall(u))
      BY <1>1, <3>1, <3>2, <3>3, EndedCall
    <3>5. TakerInv(TokenCall(u))
      BY <1>1, <3>1 DEF SystemInv, IssuerInv
    <3> QED
      BY <3>1, <3>3, <3>4, <3>5 DEF TakerInv, TokenForm
  <2>2. v \in Wallets /\ args[v].code = args[w].code
    BY DEF Rivals
  <2>3. TokenCall(v) = TokenCall(w)
    BY <1>1, <2>1, <2>2 DEF SystemInv, IssuerInv, CodeInv
  <2> QED
    BY <2>2, <2>3, TwoCalls
<1>2. ASSUME SystemInv, CauseInv, AcquireInv, NEW w \in Wallets,
             \A v \in Rivals(w) : Ended(v) /\ Unhindered(v)
      PROVE  \E v \in Rivals(w) : flow[v] = "acquired"
  <2>1. w \in Rivals(w) /\ Rivals(w) \subseteq Wallets
    BY DEF Rivals
  <2>2. CASE \E v \in Rivals(w) : Granted(TokenCall(v))
    BY <1>2, <2>1, <2>2, GrantedAcquires
  <2>3. CASE \A v \in Rivals(w) : ~Granted(TokenCall(v))
    <3>1. args[w].code \in DOMAIN offers /\ offers[args[w].code].used
      BY <1>2, <2>1, <2>3, RefusedForUse
    <3>2. PICK v \in Rivals(w) :
            \/ local[TokenCall(v)].offer = args[w].code
            \/ Answered(TokenCall(v)) /\ reply[TokenCall(v)].error = "server_error"
      BY <1>2, <3>1, SpenderIsRival
    <3>3. local[TokenCall(v)].offer = Empty
      BY <1>2, <2>1, <2>3, RefusedForUse
    <3>4. args[w].code # Empty
      BY <1>2, <3>1, EmptyAssumption DEF SystemInv, SystemTypeOK, TypeOK, IsMap
    <3>5. reply[TokenCall(v)].error # "server_error" \/ ~Answered(TokenCall(v))
      BY <1>2 DEF Unhindered
    <3> QED
      BY <3>2, <3>3, <3>4, <3>5
  <2> QED
    BY <2>2, <2>3
<1>3. SystemInv /\ CauseInv /\ AcquireInv => OneAcquirer
  BY <1>1, <1>2 DEF OneAcquirer
<1> QED
  BY <1>3, AcquireRunsSystem, AcquireInvariantHolds, SystemInvHolds, CauseInvariantHolds, PTL
=============================================================================
