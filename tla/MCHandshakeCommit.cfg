SPECIFICATION Spec
CONSTANTS
  kA = kA
  kB = kB
  kE = kE
  kI = kI
  kJ = kJ
  n1 = n1
  n2 = n2
  n3 = n3
  NoKey = NoKey
  Absent = Absent
  Aid = {"A", "B"}
  Key <- MCKey
  KeyOf <- MCKeyOf
  AlgOf <- MCAlgOf
  Nonce = {n1, n2, n3}
  Honest = {"A", "B"}
  TypeOf <- MCTypeOf
  Subject <- MCSubject
  Idp = "idp"
  IdpKeys <- MCIdpKeys
  IdpKey <- MCIdpKey
  Initiators = {"A"}
  FloatClocks = {}
  IatTolerance = 1
  Lifetime = 1
  Grants = {"g"}
  Tolerance = 1
  MaxTime = 1
  MaxMessages = 3
  MaxDeviant = 1
CHECK_DEADLOCK FALSE
INVARIANTS
  CommitsAreSigned
