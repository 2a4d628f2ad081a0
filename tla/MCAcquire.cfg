SPECIFICATION FairAcquireSpec
CONSTANTS
  Empty = Empty
  c1 = c1  c2 = c2  t1 = t1  t2 = t2
  p1 = p1  p2 = p2  s1 = s1  s2 = s2  ec = ec  rsa = rsa
  Codes = {c1, c2}
  Tokens = {t1, t2}
  Nonces = {n1, n2, n3}
  Pins = {p1, p2}
  Subjects = {s1, s2}
  ConfigIds <- MCConfigIds
  Formats <- MCFormats
  VCTs <- MCVCTs
  Keys = {ec, rsa}
  RSAKeys = {rsa}
  Handlers <- MCHandlers
  Wallets = {"w1", "w2"}
  Arguments <- MCArguments
  Supported <- MCSupported
  PreAuthCodeTTL = 0
  AccessTokenTTL = 0
  CNonceTTL = 0
  RequireProof = FALSE
  OfferConfigs <- PinOffer
  TokenRequests <- LibraryTokenRequests
  CredentialRequests <- LibraryCredentialRequests
  Faults = {"rand", "store", "factory"}
  Second = 1
  MaxTime = 0
  CallerPins <- RightPin
  CallerConfigs <- DefaultConfig
  CallerSigners <- BadOrNoSigner
INVARIANTS
  OneAcquirer
  AcquireInv
PROPERTIES
  EveryRequestAnswered
  OfferIsAcquired
CHECK_DEADLOCK FALSE
