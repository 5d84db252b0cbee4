--------------------------- MODULE MCAiJobStream ----------------------------
\* AiJobStream for TLC: two clients, each following a job of its own.
EXTENDS AiJobStream

CONSTANTS c1, c2, j1, j2

MCClients == {c1, c2}
MCJobs == {j1, j2}
MCJobFor == [c \in MCClients |-> IF c = c1 THEN j1 ELSE j2]

\* The smallest instance: one client, one job.
MCOneClient == {c1}
MCOneJob == {j1}
MCOneJobFor == [c \in MCOneClient |-> j1]

=============================================================================
