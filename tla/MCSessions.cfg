SPECIFICATION SystemSpec
CONSTANTS
  Empty = Empty
  c1 = c1  c2 = c2  t1 = t1  t2 = t2
  p1 = p1  p2 = p2  s1 = s1  s2 = s2  ec = ec  rsa = rsa
  Codes = {c1}
  Tokens = {t1, t2}
  Nonces = {n1, n2, n3}
  Pins = {p1, p2}
  Subjects = {s1, s2}
  ConfigIds <- MCConfigIds
  Formats <- MCFormats
  VCTs <- MCVCTs
  Keys = {ec, rsa}
  RSAKeys = {rsa}
  Handlers = {h1, h2, h3}
  Supported <- MCSupported
  PreAuthCodeTTL = 1
  AccessTokenTTL = 1
  CNonceTTL = 3
  RequireProof = FALSE
  OfferConfigs <- OneOffer
  TokenRequests <- LibraryTokenRequests
  CredentialRequests <- LibraryCredentialRequests
  Faults = {"rand", "factory"}
  Second = 2
  MaxTime = 2
  CallerPins <- RightPin
  CallerConfigs <- OneConfig
  CallerSigners <- AllSigners
SYMMETRY NonceSymmetry
INVARIANTS
  LastSessionInStep
  NonceKnown
  ExpiryNotASecondEarly
  SessionInv
  CallsFailForCause
  CauseInv
CHECK_DEADLOCK FALSE
