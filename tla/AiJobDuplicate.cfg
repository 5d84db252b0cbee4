SPECIFICATION Spec
CONSTANTS
  Requests = {r1, r2}
  Keys = {k1}
  Cancels = {}
  None = None
  MaxFaults = 0
INVARIANT
  OneJobPerKey
