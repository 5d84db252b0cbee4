----------------------------- MODULE MCServices -----------------------------
(***************************************************************************)
(* Small instances of the services for TLC.                                *)
(***************************************************************************)
EXTENDS Services

MCChain == <<"a", "b">>

MCParent == <<"p", "p", "p", "none">>

\* Two rows of one email, and one of another.
MCAdminEmail == [a \in Admins |-> IF a = "a3" THEN "e2" ELSE "e1"]

\* Two paragraphs that can be joined, one of them the beginning of the other, and one
\* that is too long.
MCParagraphs == {<<"a">>, <<"a", "b">>, <<"b", "a", "a", "b", "a">>}

\* Calls that are handled concurrently are alike.
MCSymmetry == Permutations(Calls)

=============================================================================
