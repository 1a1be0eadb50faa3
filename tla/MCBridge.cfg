SPECIFICATION FairSpec
CONSTANTS
  n1 = n1
  m1 = m1
  Native = {n1}
  Mission = {m1}
  MaxStock = 1
  Requests <- MCRequests
  MaxBatch = 1
  MaxInbox = 1
INVARIANTS
  TypeOK
  TelemetryStops
  SanitizedIsEmpty
  CountsRestored
  PresenceTold
PROPERTIES
  DispatchedOnce
  SuppressionOutlivesFailure
  LatchIsReported
