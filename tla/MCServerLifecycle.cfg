\* Three requests while a node starts and stops, with fairness.
CONSTANTS
  q1 = q1
  q2 = q2
  q3 = q3
  Requests = {q1, q2, q3}
SPECIFICATION FairSpec
INVARIANT TypeOK
PROPERTIES HealthyWhileUp CutOnlyByDeadline StopReturns
CHECK_DEADLOCK FALSE
