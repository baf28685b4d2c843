SPECIFICATION Spec
CONSTANTS
  kA = kA
  kB = kB
  kC = kC
  kD = kD
  kE = kE
  NoKey = NoKey
  Absent = Absent
  Never = Never
  Aid <- MCAid
  Key <- MCKey
  KeyOf <- MCKeyOf
  AlgOf <- MCAlgOf
  Self = "A"
  Honest = {"A", "B"}
  Agents = {"B", "C", "E"}
  Right = {"r", "w"}
  Scopes <- ChainScopes
  Jti = {"B", "C", "E", "s"}
  JtisOf <- ChainJtis
  Revocable = {}
  Vouchers <- ChainVouchers
  FakeVouchers <- ChainFakes
  Initial <- ChainTokens
  Contexts = {}
  Forgeries = {}
  Lifetime = 1
  MaxTime = 2
  MaxTokens = 3
  MaxSnapshots = 0
  MaxSupplied = 0
CHECK_DEADLOCK FALSE
INVARIANTS
  RightsComeFromSelf
  VouchersStand
  HonestTokensAreAccepted
