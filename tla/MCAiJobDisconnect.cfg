SPECIFICATION FairSpec
CONSTANTS
  c1 = c1
  c2 = c2
  j1 = j1
  j2 = j2
  Jobs <- MCOneJob
  Clients <- MCOneClient
  JobFor <- MCOneJobFor
  MaxConnects = 1
  MaxEvents = 1
  MaxFaults = 0
PROPERTY
  DisconnectEndsLoop
CHECK_DEADLOCK FALSE
