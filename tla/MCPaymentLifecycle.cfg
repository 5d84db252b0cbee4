CONSTANTS
  r1 = r1
  r2 = r2
  k1 = k1
  w1 = w1
  w2 = w2
  Requests = {r1, r2}
  Keys = {k1}
  Webhooks = {w1,w2}
  Commands <- MCCommands
  MaxAttempts = 2
  MaxExpiry = 1
  NoPayment = NoPayment
  NoCommand = NoCommand
SYMMETRY MCSymmetry
SPECIFICATION Spec
INVARIANTS
  TypeOK
  OnePaymentPerKey
  SavedResultIsSettled
  OutboxTellsRow
  CompletedWasApproved
  ApprovedButFailedIsExhausted
