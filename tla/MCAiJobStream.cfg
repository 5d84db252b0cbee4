SPECIFICATION FairSpec
CONSTANTS
  c1 = c1
  c2 = c2
  j1 = j1
  j2 = j2
  Jobs <- MCJobs
  Clients <- MCClients
  JobFor <- MCJobFor
  MaxConnects = 2
  MaxEvents = 2
  MaxFaults = 1
INVARIANTS
  TypeOK
PROPERTIES
  DeliveryKept
  EndIsRelayed
  StoppedHandlerEnds
CHECK_DEADLOCK FALSE
