------------------------------ MODULE MCAcquire ------------------------------
(* Two wallets that know the PIN.  The second was shown the offer of the   *)
(* first or another one, and may have a signer that fails.                 *)
EXTENDS Acquire, MCSystem

MCHandlers == Wallets \X {"token", "credential"}

BadSigner == ECDSASigner(ec, "P-521", "other")
BadOrNoSigner == {Empty, BadSigner}

Given(code, signer) == [code |-> code, txCode |-> p1, signer |-> signer]

MCArguments ==
  [w \in Wallets |->
     IF w = "w1" THEN {Given(c1, Empty)}
     ELSE {Given(c1, Empty), Given(c1, BadSigner), Given(c2, Empty)}]
=============================================================================
