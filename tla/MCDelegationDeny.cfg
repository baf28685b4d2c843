SPECIFICATION Spec
CONSTANTS
  kA = kA
  kB = kB
  kC = kC
  kD = kD
  kE = kE
  NoKey = NoKey
  Absent = Absent
  Never = Never
  Aid <- MCAid
  Key <- MCKey
  KeyOf <- MCKeyOf
  AlgOf <- MCAlgOf
  Self = "A"
  Honest = {"A", "B"}
  Agents = {"B", "C", "D"}
  Right = {"r"}
  Scopes = {}
  Jti = {"s", "b", "c"}
  JtisOf <- DenyJtis
  Revocable <- DenyRevocable
  Vouchers <- DenyVouchers
  FakeVouchers = {}
  Initial <- DenyTokens
  Contexts <- DenyContexts
  Forgeries <- DenyForgeries
  Lifetime = 1
  MaxTime = 2
  MaxTokens = 0
  MaxSnapshots = 2
  MaxSupplied = 3
INVARIANTS
  PathsAgree
  OrderIsIrrelevant
PROPERTIES
  KeepsPromise
