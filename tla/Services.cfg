SPECIFICATION PartSpec
CONSTANTS
  q1 = q1
  q2 = q2
  u1 = u1
  u2 = u2
  Jobs = {j1, j2}
  Workers = {w1, w2}
  MaxRetries = 3
  NoJob = NoJob
  MaxAdmin = 1
  MaxCrashes = 1
  MaxErrors = 1
  FailureThreshold = 2
  SuccessThreshold = 2
  HalfOpenMaxReqs = 2
  MaxInFlight = 4
INVARIANTS PartsTypeOK OneWorkerPerJob RunsBounded NeverStuckHalfOpen AtMostOnce NothingDropped AnswersTrue WindowsHold ChangesWhole StopsCleanly
SYMMETRY Symmetric
CHECK_DEADLOCK FALSE
