SPECIFICATION FairSpec
CONSTANTS
  Requests = {r1, r2}
  Keys = {k1}
  Cancels = {c1}
  None = None
  MaxFaults = 1
INVARIANTS
  TypeOK
  RetryGetsSameJob
  PublishedIsReady
  UnlimitedOnlyByFault
PROPERTY
  AcceptedIsPublished
