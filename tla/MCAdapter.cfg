SPECIFICATION Spec
CONSTANTS
  kA = kA
  kB = kB
  kC = kC
  n1 = n1
  r1 = r1
  NoKey = NoKey
  Absent = Absent
  Aid <- MCAid
  Key <- MCKey
  KeyOf <- MCKeyOf
  AlgOf <- MCAlgOf
  Nonce = {n1, r1}
  PinnedNonce = {n1}
  RandomNonce = {r1}
  MessageId = {m1}
  Feature = {}
  Tokens <- MCTokens
  Holders = {kA, kC}
  Envelopes <- MCEnvelopes
  Invocations <- MCInvocations
  TTL = 1
  Clocks = {0, 1}
  MaxChallenges = 2
  MaxSignatures = 1
  MaxFixtures = 1
INVARIANTS
  PresenterHasProof
  RandomNonceIsFresh
  WithheldIsRefused
  HonestHolderAccepted
  ReplayPerFixture
CHECK_DEADLOCK FALSE
