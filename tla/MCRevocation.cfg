SPECIFICATION Spec
CONSTANTS
  kA = kA
  kB = kB
  kC = kC
  kV = kV
  NoKey = NoKey
  Absent = Absent
  Never = Never
  Aid <- MCAid
  Key <- MCKey
  KeyOf <- MCKeyOf
  AlgOf <- MCAlgOf
  Nonce = {}
  Jti <- MCJti
  Tokens <- MCTokens
  Contexts <- MCContexts
  Forgeries <- MCForgeries
  Honest <- MCHonest
  Lifetime = 2
  MaxLead = 1
  MaxTime = 4
  MaxSnapshots = 2
INVARIANTS
  RevocationHorizon
  NoFalseRevocation
  RevocationOnlyRevokes
  EntryPointsAgree
PROPERTIES
  CorruptionNeverAdmits
  WaitingNeverAdmits
  KeepsPromise
