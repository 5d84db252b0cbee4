CONSTANTS
  r1 = r1
  k1 = k1
  w1 = w1
  Requests = {r1}
  Keys = {k1}
  Webhooks = {w1}
  Commands <- MCCommands
  MaxAttempts = 3
  MaxExpiry = 0
  NoPayment = NoPayment
  NoCommand = NoCommand
SPECIFICATION Spec
PROPERTIES
  SettledStaysSettled
