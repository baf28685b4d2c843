SPECIFICATION Spec
CONSTANTS
  kA = kA
  kC = kC
  kE = kE
  NoKey = NoKey
  Absent = Absent
  Aid <- MCAid
  Key <- MCKey
  KeyOf <- MCKeyOf
  AlgOf <- MCAlgOf
  Nonce = {}
  Coordinators = {"C"}
  Insiders = {"E"}
  Holdings <- MCHoldings
  Covered <- MCCovered
  Exps = {1, 2}
  Versions = {"aitp/0.3"}
  WrapperForms <- MCWrapperForms
  BodyForms <- MCBodyForms
  MaxTime = 2
  MaxTokens = 2
  MaxParticipants = 2
INVARIANTS
  NoStaleMember
  CoordinatorSpeaks
  TokensStayHome
  HonestBundleAccepted
PROPERTIES
  EndsExpired
CHECK_DEADLOCK FALSE
