CONSTANTS
  Identities <- MCIdentities
  MaxTime = 1
  MsPerSecond = 2
  MaxKeys = 2
  HasIdentityStorage = TRUE
SPECIFICATION Spec
INVARIANTS
  VerifiedIsAuthentic
  OwnSignaturesVerify
