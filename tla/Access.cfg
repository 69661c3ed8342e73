SPECIFICATION PartSpec
CONSTANTS
  Requests = {q1, q2}
  Cleaners = {c1}
  Beside = {b1}
  MaxIssued = 2
  MaxNonces = 1
  Owners = {"o"}
  Passwords = {"p1"}
  Cadences = {0, 1, 2, 4}
  MinDigest = 1
  MaxDigest = 3
  DefaultDigest = 2
  MaxScore = 1
  MaxSecrets = 2
  MaxBatches = 2
  BatchSize = 1
  maxFailures = 2
  MaxExponent = 1
  Emails = {"a", "b"}
  MaxCodes = 1
  maxAttempts = 1
  Material <- KeyPairs
  KidGiven = TRUE
  TTL = 2
  MaxTime = 2
  MaxFaults = 1
  MaxTokens = 1
  MaxAtOnce = 1
  Holders = {"a", "b", "c"}
  MaxUses = 2
  HasExpiry = TRUE
  MaxUseCount = 6
  Readers = {"r1"}
  Pair = {"u1", "u2"}
  Trio = {"u1", "u2", "u3"}
  PageSize = 2
  MaxLimit = 1
  DefaultLimit = 1
  MaxContribs = 3
  MaxRounds = 2
  MaxDbErrors = 1
INVARIANTS PartsTypeOK AccountSound CredentialsHonoured ReadsConsistent
PROPERTIES BarsHold
SYMMETRY Symmetric
CHECK_DEADLOCK FALSE
