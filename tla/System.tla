------------------------------- MODULE System -------------------------------
(***************************************************************************)
(* Wallets and the issuer.  A call of the client library is one HTTP       *)
(* request, served by the handler that carries its name: calls[h] is the   *)
(* caller's side of it, and the issuer's variables are the server's.  The  *)
(* answer may be late, may overtake another one, or may never arrive: the  *)
(* connection breaks or the caller's context is done, and the server       *)
(* carries on.  A request that never arrives is a handler that never       *)
(* steps.                                                                  *)
(*                                                                         *)
(* sessions holds every session some call has returned.  Sessions are      *)
(* values that callers may persist, so any of them can be used at any      *)
(* time: by two goroutines at once, or an old one after a restart.         *)
(***************************************************************************)
EXTENDS Issuer, Wallet

CONSTANTS   \* what callers of the library pass to it
  CallerPins, CallerConfigs, CallerSigners

Outcomes == {"waiting", "returned", "failed"}

Call == [session: Session, config: Optional(ConfigIds),
         signer: Optional(Signer), outcome: Outcomes]

ASSUME CallerAssumption ==
  /\ CallerPins \subseteq Optional(Pins)
  /\ CallerConfigs \subseteq Optional(ConfigIds)
  /\ CallerSigners \subseteq Optional(Signer)
  /\ Empty \notin Signer \cup Session \cup Call

(* The requests the library can build are among those the issuer is asked. *)
ASSUME RequestAssumption ==
  /\ \A code \in Codes, pin \in CallerPins : TokenForm(code, pin) \in TokenRequests
  /\ \A token \in Optional(Tokens), nonce \in Optional(Nonces), k \in ConfigIds,
        signer \in CallerSigners :
       (signer # Empty => CanBuildProof(nonce, signer)) =>
         CredentialBody(token, nonce, k, signer) \in CredentialRequests

VARIABLES sessions, calls

walletVars == <<sessions, calls>>
systemVars == <<vars, walletVars>>

SystemInit ==
  /\ Init
  /\ sessions = {}
  /\ calls = [h \in Handlers |-> Empty]

-----------------------------------------------------------------------------
(* The issuer's side, with or without a caller waiting. *)
IssuerStep ==
  /\ \/ Tick
     \/ \E cfg \in OfferConfigs, code \in Codes : NewOffer(cfg, code)
     \/ \E h \in Handlers : HandleToken(h) \/ HandleCredential(h)
  /\ UNCHANGED walletVars

(* What NewOffer puts in the offer URI it returns; how a URI carries it,   *)
(* inline or by reference, is left out.                                    *)
CredentialOffer(code) == [code |-> code, configs |-> offers[code].offer.configs]

(* ParseOffer asks the issuer for nothing but its metadata, which never    *)
(* changes, and can be repeated at will.                                   *)
ParseOffer(code) ==
  /\ code \in DOMAIN offers
  /\ sessions' = sessions \cup {NewSession(CredentialOffer(code))}
  /\ UNCHANGED <<vars, calls>>

Send(h, request, session, config, signer) ==
  /\ Receive(h, request)
  /\ calls' = [calls EXCEPT ![h] = [session |-> session, config |-> config,
                                    signer |-> signer, outcome |-> "waiting"]]
  /\ UNCHANGED sessions

RedeemOffer(h, session, txCode) ==
  Send(h, TokenForm(session.code, txCode), session, Empty, Empty)

(* A call that cannot build its proof returns an error and sends nothing. *)
RequestCredential(h, session, configID, signer) ==
  \E k \in Requested(session, configID) :
    /\ signer # Empty => CanBuildProof(session.cNonce, signer)
    /\ Send(h, CredentialBody(session.token, session.cNonce, k, signer),
            session, k, signer)

(* Mutant: the call still takes an answer after its caller has given up. *)
Unanswered(h) == calls[h] # Empty /\ calls[h].outcome # "returned"

Waiting(h) == calls[h] # Empty /\ calls[h].outcome = "waiting"

(* int(ttl.Seconds()): what an answer says of a lifetime. *)
ExpiresIn(ttl) == ttl \div Second

(* The answer arrives: an updated copy of the session the call was given,  *)
(* or an error and no session.                                             *)
Returned(h) ==
  IF calls[h].config = Empty
  THEN AfterRedeem(calls[h].session, reply[h],
                   ExpiresIn(AccessTokenTTL), ExpiresIn(CNonceTTL), now)
  ELSE AfterRequest(calls[h].session, reply[h], ExpiresIn(CNonceTTL), now)

Return(h) ==
  /\ Waiting(h)
  /\ pc[h] = "done"
  /\ \/ /\ reply[h].error = Empty
        /\ calls' = [calls EXCEPT ![h].outcome = "returned"]
        /\ sessions' = sessions \cup {Returned(h)}
     \/ /\ reply[h].error # Empty
        /\ calls' = [calls EXCEPT ![h].outcome = "failed"]
        /\ UNCHANGED sessions
  /\ UNCHANGED vars

(* The answer does not arrive, or not in time. *)
GiveUp(h) ==
  /\ Waiting(h)
  /\ calls' = [calls EXCEPT ![h].outcome = "failed"]
  /\ UNCHANGED <<vars, sessions>>

SystemNext ==
  \/ IssuerStep
  \/ \E code \in Codes : ParseOffer(code)
  \/ \E h \in Handlers, s \in sessions, pin \in CallerPins : RedeemOffer(h, s, pin)
  \/ \E h \in Handlers, s \in sessions, k \in CallerConfigs, g \in CallerSigners :
       RequestCredential(h, s, k, g)
  \/ \E h \in Handlers : Return(h) \/ GiveUp(h)

SystemSpec == SystemInit /\ [][SystemNext]_systemVars
=============================================================================
