----------------------- MODULE PreAuthorizedIssuance -----------------------
(***************************************************************************)
(* What an issuer of the pre-authorised code flow promises, with nothing   *)
(* said of how: an application makes offers, clients ask, and a redemption *)
(* or an issuance is one indivisible step that some request has asked for. *)
(* Stores, goroutines, nonces and clocks belong to the implementation.     *)
(***************************************************************************)
EXTENDS OID4VCITypes

CONSTANT Reliable   \* no store, and no source of randomness, ever fails

VARIABLES
  offered,      \* code -> the offer made under it
  redemptions,  \* what clients have asked the token endpoint for
  orders,       \* what clients have asked the credential endpoint for
  spent,        \* the codes that buy nothing any more
  bought,       \* access token -> the code it was bought with
  issued        \* the credentials made

promised == <<offered, redemptions, orders, spent, bought, issued>>

Terms == [subject: Subjects, configs: SUBSET ConfigIds, txCode: Optional(Pins)]

Redemption == [code: Codes, txCode: Optional(Pins)]

(* configs: those the request leaves the issuer to choose from.            *)
(* key: the one that signed the request's proof.                           *)
Order == [token: Optional(Tokens), configs: SUBSET ConfigIds, key: Optional(Keys)]

Init ==
  /\ offered = [c \in {} |-> Empty]
  /\ bought = [t \in {} |-> Empty]
  /\ redemptions = {} /\ orders = {} /\ spent = {} /\ issued = {}

MakeOffer(code) ==
  /\ code \notin DOMAIN offered
  /\ DOMAIN offered' = DOMAIN offered \cup {code}
  /\ offered'[code] \in Terms
  /\ \A c \in DOMAIN offered : offered'[c] = offered[c]
  /\ UNCHANGED <<redemptions, orders, spent, bought, issued>>

(* Nothing that was asked for is forgotten. *)
Ask ==
  /\ redemptions \subseteq redemptions' /\ redemptions' \in SUBSET Redemption
  /\ orders \subseteq orders' /\ orders' \in SUBSET Order
  /\ UNCHANGED <<offered, spent, bought, issued>>

GivesPin(r) == offered[r.code].txCode \in {Empty, r.txCode}

(* An offer that is not spent buys one token, for a request with its PIN. *)
Redeem(r, token) ==
  /\ r \in redemptions
  /\ r.code \in DOMAIN offered \ spent
  /\ GivesPin(r)
  /\ token \notin DOMAIN bought
  /\ bought' = Put(bought, token, r.code)
  /\ spent' = spent \cup {r.code}
  /\ UNCHANGED <<offered, redemptions, orders, issued>>

(* A request with a wrong PIN, or a failure, spends the offer for nothing. *)
Forfeit(r) ==
  /\ r \in redemptions
  /\ r.code \in DOMAIN offered \ spent
  /\ Reliable => ~GivesPin(r)
  /\ spent' = spent \cup {r.code}
  /\ UNCHANGED <<offered, redemptions, orders, bought, issued>>

(* A credential is for the offer's subject, of a configuration offered and *)
(* asked for, and bound to the key that signed the request's proof.        *)
Issue(o, config) ==
  /\ o \in orders
  /\ o.token \in DOMAIN bought
  /\ config \in o.configs \cap offered[bought[o.token]].configs
  /\ issued' = issued \cup
       {[token |-> o.token, config |-> config, key |-> o.key,
         subject |-> offered[bought[o.token]].subject]}
  /\ UNCHANGED <<offered, redemptions, orders, spent, bought>>

Next ==
  \/ \E code \in Codes : MakeOffer(code)
  \/ Ask
  \/ \E r \in redemptions, token \in Tokens : Redeem(r, token)
  \/ \E r \in redemptions : Forfeit(r)
  \/ \E o \in orders, config \in ConfigIds : Issue(o, config)

Spec == Init /\ [][Next]_promised
=============================================================================
