--------------------------- MODULE MCChatRealtime ---------------------------
\* ChatRealtime for TLC: two gateway pods.
EXTENDS ChatRealtime, TLC

CONSTANTS p1, p2, s1, s2

MCPods == {p1, p2}
MCSockets == {s1, s2}

\* Both clients on one pod (the other one sees the notifications only), and
\* one client on each.
MCTogether == [s \in MCSockets |-> p1]
MCApart == [s \in MCSockets |-> IF s = s1 THEN p1 ELSE p2]

\* Two clients of one pod may be exchanged.
MCSymmetry == Permutations(MCSockets)

=============================================================================
