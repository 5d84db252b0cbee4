SPECIFICATION Spec
CONSTANTS
  p1 = p1
  p2 = p2
  s1 = s1
  s2 = s2
  Pods <- MCPods
  Sockets <- MCSockets
  PodOf <- MCApart
  Messages = {1}
  MaxPull = 1
  MaxStored = 1
  HistoryLimit = 1
  MaxTime = 2
  MaxFaults = 0
INVARIANTS
  DeliveredOnce
CHECK_DEADLOCK FALSE
