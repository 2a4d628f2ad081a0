-------------------------- MODULE SystemRefinement --------------------------
(***************************************************************************)
(* Wallets and issuer implement CredentialAcquisition.  The issuer's part  *)
(* is mapped as in IssuerRefinement.  What wallets know is what is in the  *)
(* sessions that their calls have returned, what they were given is what   *)
(* their calls returned, and an answer is lost when its caller has given   *)
(* up.                                                                     *)
(***************************************************************************)
EXTENDS SystemProperties, IssuerRefinement

Known == {[code |-> s.code, configs |-> s.configs] : s \in sessions}

Told ==
  {[code |-> s.code, configs |-> s.configs, token |-> s.token] :
     s \in {s \in sessions : s.token # Empty}}

LostTokens ==
  {reply[h].token : h \in {h \in Handlers : Granted(h) /\ calls[h].outcome = "failed"}}

CredentialOf(h) ==
  [token |-> req[h].token, config |-> reply[h].credential.config,
   key |-> reply[h].credential.key, subject |-> reply[h].credential.subject]

CredentialsGiven ==
  {CredentialOf(h) :
     h \in {h \in Handlers : IsRequest(h) /\ calls[h].outcome = "returned"}}

Acquisition == INSTANCE CredentialAcquisition WITH
  Reliable    <- Faults \cap {"rand", "store"} = {},
  offered     <- Offered,
  redemptions <- Redemptions,
  orders      <- Orders,
  spent       <- SpentCodes,
  bought      <- Bought,
  issued      <- CredentialsIssued,
  known       <- Known,
  told        <- Told,
  lost        <- LostTokens,
  acquired    <- CredentialsGiven

(* Whichever sessions the calls are made from, however they overlap and    *)
(* whichever answers are lost: every step of wallets, issuer and stores is *)
(* a step of CredentialAcquisition or none.  A wallet holds only tokens    *)
(* that were bought with offers it has read, each told of at most once and *)
(* none whose answer was lost, and is given only credentials that were     *)
(* issued for such a token (client.go:160-314, issuer.go:206-365).         *)
WalletsKeepPromise == Acquisition!AcquisitionSpec
=============================================================================
