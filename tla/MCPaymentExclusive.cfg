CONSTANTS
  r1 = r1
  r2 = r2
  k1 = k1
  Requests = {r1, r2}
  Keys = {k1}
  Webhooks = {}
  Commands <- MCCommands
  MaxAttempts = 2
  MaxExpiry = 1
  NoPayment = NoPayment
  NoCommand = NoCommand
SPECIFICATION FairSpec
PROPERTIES
  PaymentPromiseKept
  PendingEndsUnlessInterrupted
  BlockedKeyIsFreed
