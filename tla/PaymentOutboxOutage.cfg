CONSTANTS
  Events = {1}
  p1 = p1
  Polls = {p1}
  BatchSize = 1
  MaxAttempts = 5
  MaxFaults = 0
SPECIFICATION FairSpec
PROPERTIES
  EventuallyPublished
