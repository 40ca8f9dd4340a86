----------------------- MODULE MCPresentationExchange -----------------------
(* The instance TLC checks of PresentationExchange. *)
EXTENDS PresentationExchange, TLC

CONSTANTS s1, s2, s3

\* Two credentials with the same bit of two words.
MCListOf == [c \in {"c1", "c2"} |-> 1]
MCIndexOf == [c \in {"c1", "c2"} |-> IF c = "c1" THEN 1 ELSE 3]
\* c2 is revoked twice, the second time as a retry or at once.
MCCredentialOf == [r \in Revocation |-> "c2"]
\* A presentation, twice, and another one.
MCContains == [p \in {"p1", "p2"} |-> IF p = "p1" THEN {"c1", "c2"} ELSE {"c2"}]
MCSubmission == {s1, s2, s3}
MCSubmittedBy == [s \in MCSubmission |-> IF s = s3 THEN "p2" ELSE "p1"]

Symmetry == Permutations(Revocation) \cup Permutations({s1, s2})
=============================================================================
