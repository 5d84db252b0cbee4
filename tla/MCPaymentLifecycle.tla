------------------------- MODULE MCPaymentLifecycle -------------------------
\* PaymentLifecycle with small sets of commands for TLC.
EXTENDS PaymentLifecycle, TLC

MCCommand(k, a, c) == [key |-> k, amount |-> a, channel |-> c]

\* A payment the PG approves although its amount is the sentinel (sent over
\* gRPC; a plain amount goes the same way), one it declines, one whose Money
\* cannot be made.
MCCommands ==
  {MCCommand(k, "sentinel", c) : k \in Keys, c \in Channels}
    \cup {MCCommand(k, "negative", "http") : k \in Keys}

MCSymmetry == Permutations(Requests) \cup Permutations(Webhooks)

=============================================================================
