SPECIFICATION Spec
CONSTANTS
  p1 = p1
  p2 = p2
  s1 = s1
  s2 = s2
  Pods <- MCPods
  Sockets <- MCSockets
  PodOf <- MCTogether
  Messages = {1, 2}
  MaxPull = 1
  MaxStored = 2
  HistoryLimit = 1
  MaxTime = 3
  MaxFaults = 1
INVARIANTS
  TypeOK
  OncePerPod
  NoGap
  AllDeliveredAtRest
SYMMETRY MCSymmetry
CHECK_DEADLOCK FALSE
