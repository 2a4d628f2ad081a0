---------------------------- MODULE KeyEncoding ----------------------------
(***************************************************************************)
(* The bytes of ECDSA signatures and of JWKs (internal/jose): what         *)
(* ECDSASigner.Sign and publicKeyToJWK write from big integers, and what   *)
(* verifyEC, ecFromMap and rsaFromMap read back.  big.Int.Bytes drops      *)
(* leading zeros, so one number in 256 is a byte short and every writer    *)
(* has to pad.  A byte has ByteBits bits here, to let small numbers cover  *)
(* every pattern of leading zeros.                                         *)
(***************************************************************************)
EXTENDS Naturals, Sequences

CONSTANTS ByteBits, BitSize   \* of a byte; of the curve, k.Curve.Params()

ASSUME SizesAssumption == ByteBits \in Nat \ {0} /\ BitSize \in Nat \ {0}

VARIABLES
  sent,      \* two numbers, and what they are: a signature or a public key
  wire,      \* the bytes they travel in: one string, or two JWK members
  received   \* the two numbers read back

transfer == <<sent, wire, received>>

Kinds == {"signature", "EC", "RSA"}

TwoTo[k \in Nat] == IF k = 0 THEN 1 ELSE 2 * TwoTo[k - 1]

Base == TwoTo[ByteBits]

(* Rounded up: 521 bits take 66 bytes. *)
Size == (BitSize + ByteBits - 1) \div ByteBits

Numbers == 0 .. TwoTo[BitSize] - 1

-----------------------------------------------------------------------------
(* big.Int.Bytes and big.Int.SetBytes. *)
DropBytes(n, k) == n \div TwoTo[k * ByteBits]

NumBytes(n) ==
  CHOOSE k \in 0 .. Size : DropBytes(n, k) = 0 /\ (k > 0 => DropBytes(n, k - 1) # 0)

Bytes(n) == [i \in 1 .. NumBytes(n) |-> DropBytes(n, NumBytes(n) - i) % Base]

SetBytes(b) ==
  LET value[i \in 0 .. Len(b)] == IF i = 0 THEN 0 ELSE value[i - 1] * Base + b[i]
  IN value[Len(b)]

Zeros(k) == [i \in 1 .. k |-> 0]

(* Mutant: copied to the front of the buffer. *)
PadRight(n) == Bytes(n) \o Zeros(Size - NumBytes(n))

(* A zeroed buffer of the curve's size with the bytes copied to its end. *)
PadLeft(n) == Zeros(Size - NumBytes(n)) \o Bytes(n)

(* Mutant: the coordinates as big.Int.Bytes gives them. *)
PublicKeyToJWKShort(kty, a, b) == <<Bytes(a), Bytes(b)>>

(* publicKeyToJWK: members x and y are padded, n and e are not. *)
PublicKeyToJWK(kty, a, b) ==
  IF kty = "EC" THEN <<PadLeft(a), PadLeft(b)>> ELSE <<Bytes(a), Bytes(b)>>

Sign(r, s) == <<PadLeft(r) \o PadLeft(s)>>

(* verifyEC cuts the signature in the middle, whatever its length. *)
Halves(sig) ==
  LET l == Len(sig) \div 2
  IN <<SetBytes(SubSeq(sig, 1, l)), SetBytes(SubSeq(sig, l + 1, Len(sig)))>>

-----------------------------------------------------------------------------
Init ==
  /\ sent \in Kinds \X Numbers \X Numbers
  /\ wire = <<>>
  /\ received = <<>>

Encode ==
  /\ wire = <<>>
  /\ wire' = IF sent[1] = "signature" THEN Sign(sent[2], sent[3])
             ELSE PublicKeyToJWK(sent[1], sent[2], sent[3])
  /\ UNCHANGED <<sent, received>>

Decode ==
  /\ wire # <<>> /\ received = <<>>
  /\ received' = IF sent[1] = "signature" THEN Halves(wire[1])
                 ELSE <<SetBytes(wire[1]), SetBytes(wire[2])>>
  /\ UNCHANGED <<sent, wire>>

Next == Encode \/ Decode

Spec == Init /\ [][Next]_transfer

-----------------------------------------------------------------------------
(* Whatever leading zeros the two numbers have, the verifier reads the     *)
(* numbers the signer wrote: no valid signature or key is refused once in  *)
(* a few hundred times (jose.go:230-238, 294-301, keys.go:28-77).          *)
RoundTrip == received # <<>> => received = <<sent[2], sent[3]>>

(* "Encode as fixed-length big-endian concatenation (JWS format)"          *)
(* (jose.go:294), and "Left-pad to the curve byte size" (jose.go:253): the *)
(* length says nothing of the value, which other verifiers insist on.      *)
FixedLength ==
  wire # <<>> =>
    CASE sent[1] = "signature" -> Len(wire[1]) = 2 * Size
      [] sent[1] = "EC"        -> Len(wire[1]) = Size /\ Len(wire[2]) = Size
      [] OTHER                 -> \A i \in 1 .. 2 : wire[i] # <<>> => Head(wire[i]) # 0
=============================================================================
