SPECIFICATION PartSpec
CONSTANTS
  q1 = q1
  q2 = q2
  Requests = {q1, q2}
  Sweepers = {s1, s2}
  MaxErrors = 1
  MaxLost = 1
  MaxDbErrors = 1
  MaxCrashes = 1
  Half = 16
  Operands <- Amounts5
  Factors <- SmallFactors
  Base = 2
  Precision = 2
  Mantissa = 3
  MaxDigits = 3
  Exponents <- SmallExponents
  Callers = {q1, q2}
  Keys = {"k1"}
  BodyKeys = {"b1"}
  NoKey = NoKey
  Amounts = {1}
  MaxAmount = 1
  DailyCap = 1
  MaxMillis = 1
  MaxMishaps = 1
  Ramps = {q1, q2}
  RampKeys = {"k1"}
  NoRamp = NoRamp
  Replicas = {"a", "b"}
  NoReplica = NoReplica
  TTL = 3
  MaxMissed = 2
  MaxPollErrors = 1
  MaxDeaths = 1
  Owners = {"u1", "u2"}
  Goals = {"g1"}
  Savers = {q1, q2}
  Targets = {0, 1, 2}
  Claimants = {q1, q2}
  Referrers = {"u1", "u2"}
  Codes = {"c1"}
  MaxIncentives = 2
  MaxStreak = 2
  Tier2 = 2
  Tier3 = 3
  Users = {"u1", "u2"}
  NoUser = "-"
  Askers = {"q1"}
  Dispatchers = {"engine", "reconciler"}
  Events <- Facts
  MaxRounds = 2
  MaxBid = 1
  StartScore = 2
  MaxDeliveries = 2
  MaxAsked = 1
INVARIANTS PartsTypeOK ClosedIsReturned OneSweeperReleases ProviderBacked AmountsExact RecordsSound
PROPERTIES NoStepUndoes VotesStand
SYMMETRY Symmetric
CHECK_DEADLOCK FALSE
