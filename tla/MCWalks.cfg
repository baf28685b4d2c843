SPECIFICATION WalkSpec
CONSTANTS
  Absent = Absent
  Givens <- MCGivens
  StackLimit = 4
  KeyRank <- MCKeyRank
  Lone = {"lone"}
  HugeNumber = "huge"
  JcsDepth = 2
  JcsVisits = 5
  KeyDepth = 2
  KeyVisits = 5
  MaxCandidates = 3
  MaxMemberChars = 43
INVARIANTS
  CanonicalForm
  KeysAreExact
PROPERTIES
  WalksEnd
CHECK_DEADLOCK FALSE
