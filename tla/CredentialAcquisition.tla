----------------------- MODULE CredentialAcquisition ------------------------
(***************************************************************************)
(* What wallets and an issuer of the pre-authorised code flow promise      *)
(* together.  The issuer's promise is PreAuthorizedIssuance; here clients  *)
(* are wallets, which ask only with codes of offers that they have read    *)
(* and tokens that they have been given, and which may miss an answer.     *)
(* An access token that is bought goes one of two ways, once and for all:  *)
(* a wallet is told of it, with the offer it was bought with, or its       *)
(* answer is lost, and then nobody ever asks for anything with it.         *)
(***************************************************************************)
EXTENDS PreAuthorizedIssuance

VARIABLES
  known,     \* the offers that wallets have read
  told,      \* the purchases that wallets have been told of
  lost,      \* the access tokens whose answer is lost
  acquired   \* the credentials that wallets have been given

walletPart == <<known, told, lost, acquired>>
everything == <<promised, walletPart>>

Purchase(code, token) ==
  [code |-> code, configs |-> offered[code].configs, token |-> token]

(* The tokens wallets can present. *)
Held == {p.token : p \in told}

Undelivered == DOMAIN bought \ (lost \cup Held)

AcquisitionInit ==
  /\ Init
  /\ known = {} /\ told = {} /\ lost = {} /\ acquired = {}

ReadOffer(code) ==
  /\ code \in DOMAIN offered
  /\ known' = known \cup {[code |-> code, configs |-> offered[code].configs]}
  /\ UNCHANGED <<promised, told, lost, acquired>>

(* A wallet asks for one configuration at a time. *)
AskWithWhatIsHeld ==
  /\ Ask
  /\ \A r \in redemptions' \ redemptions : r.code \in {offer.code : offer \in known}
  /\ \A o \in orders' \ orders :
       /\ o.token \in Held \cup {Empty}
       /\ \E config \in ConfigIds : o.configs = {config}
  /\ UNCHANGED walletPart

(* The wallet may have gone away by the time its offer is redeemed.        *)
Sell(r, token) ==
  /\ Redeem(r, token)
  /\ lost' \in {lost, lost \cup {token}}
  /\ UNCHANGED <<known, told, acquired>>

BeTold(token) ==
  /\ token \in Undelivered
  /\ told' = told \cup {Purchase(bought[token], token)}
  /\ UNCHANGED <<promised, known, lost, acquired>>

Lose(token) ==
  /\ token \in Undelivered
  /\ lost' = lost \cup {token}
  /\ UNCHANGED <<promised, known, told, acquired>>

(* A credential that is lost is one that no wallet is given. *)
BeGiven(credential) ==
  /\ credential \in issued
  /\ credential.token \in Held
  /\ acquired' = acquired \cup {credential}
  /\ UNCHANGED <<promised, known, told, lost>>

AcquisitionNext ==
  \/ AskWithWhatIsHeld
  \/ /\ \/ \E code \in Codes : MakeOffer(code)
        \/ \E r \in redemptions : Forfeit(r)
        \/ \E o \in orders, config \in ConfigIds : Issue(o, config)
     /\ UNCHANGED walletPart
  \/ \E code \in Codes : ReadOffer(code)
  \/ \E r \in redemptions, token \in Tokens : Sell(r, token)
  \/ \E token \in Tokens : BeTold(token) \/ Lose(token)
  \/ \E credential \in issued : BeGiven(credential)

AcquisitionSpec == AcquisitionInit /\ [][AcquisitionNext]_everything
=============================================================================
