SPECIFICATION Spec
CONSTANTS
  kA = kA
  kE = kE
  wA = wA
  wE = wE
  rHome = rHome
  jHome = jHome
  kSub = kSub
  kOther = kOther
  NoKey = NoKey
  Absent = Absent
  Aid <- MCAid
  Key <- MCKey
  KeyOf <- MCKeyOf
  AlgOf <- MCAlgOf
  SpiffeId <- MCSpiffeId
  DomainOf <- MCDomainOf
  IatTolerance = 1
  MaxChain = 3
  Home = "home"
  Other = "other"
  Authority <- MCAuthority
  OtherKeys <- MCOtherKeys
  Subject <- MCSubject
  WorkloadKey <- MCWorkloadKey
  HonestAgents = {"A"}
  Subordinate = kSub
  InsiderKeys <- MCInsiderKeys
  NameOf <- MCNameOf
  ForgedKeys <- MCForgedKeys
  R = R
  Q = Q
  m1 = m1
  m2 = m2
  Receivers = {R, Q}
  Messages = {m1, m2}
  Term = 1
  JwtTerms = {1, 3}
  MaxTime = 2
  MaxForged = 2
  MaxShown = 1
SYMMETRY Interchangeable
INVARIANTS
  CertifiedByHome
  WorkloadsAreTheirOwn
  ProofIsForThisMessage
  JwtIsOfTheSender
  HonestSvidAccepted
CHECK_DEADLOCK FALSE
