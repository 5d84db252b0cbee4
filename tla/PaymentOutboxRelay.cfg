CONSTANTS
  Events = {1, 2, 3}
  p1 = p1
  p2 = p2
  Polls = {p1, p2}
  BatchSize = 2
  MaxAttempts = 2
  MaxFaults = 2
SPECIFICATION FairSpec
INVARIANTS
  TypeOK
  GivenUpAfterMaxAttempts
  DuplicatesComeFromFaults
PROPERTIES
  OutboxPromiseKept
  PendingIsDecided
