SPECIFICATION Spec
CONSTANTS
  Empty = Empty
  c1 = c1  c2 = c2  t1 = t1  t2 = t2
  p1 = p1  p2 = p2  s1 = s1  s2 = s2  ec = ec  rsa = rsa
  Codes = {c1}
  Tokens = {t1}
  Nonces = {n1, n2, n3}
  Pins = {p1, p2}
  Subjects = {s1, s2}
  ConfigIds <- MCConfigIds
  Formats <- MCFormats
  VCTs <- MCVCTs
  Keys = {ec, rsa}
  RSAKeys = {rsa}
  Handlers = {h1, h2, h3, h4}
  Supported <- MCSupported
  PreAuthCodeTTL = 1
  AccessTokenTTL = 2
  CNonceTTL = 1
  RequireProof = FALSE
  OfferConfigs <- OneOffer
  TokenRequests <- PinTokenRequests
  CredentialRequests <- FewCredentialRequests
  Faults = {"rand"}
  MaxTime = 2
SYMMETRY NonceSymmetry
INVARIANTS
  NonceIsLive
  NonceInStep
  NoSpuriousRefusal
  NonceInv
  AnswersInv
CHECK_DEADLOCK FALSE
