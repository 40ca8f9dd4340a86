--------------------------- MODULE MCOrganization ---------------------------
(* The instances TLC checks of Organization. *)
EXTENDS Organization, TLC

\* An issuer and an inspector: both need transactions:write, and no set of
\* categories has the scopes of another.
MCServiceId == {"issuer", "inspector"}
MCCategoryOf == [s \in MCServiceId |-> IF s = "issuer" THEN "Issuer" ELSE "Inspector"]

\* The keys of createOrganization but the exchange key, which is like the
\* metadata key here, and one more that is added and deleted.
MCKeyId == {"vc", "eth", "permissioning", "rotation", "added"}
MCPurposesOf == [k \in MCKeyId |->
  CASE k = "vc" -> {"ISSUING_METADATA"}
    [] k = "eth" -> {"DLT_TRANSACTIONS"}
    [] k = "permissioning" -> {"PERMISSIONING"}
    [] k = "rotation" -> {"ROTATION"}
    [] k = "added" -> {"DLT_TRANSACTIONS", "ISSUING_METADATA"}]
MCNewKeys == {"vc", "eth"}
MCAddress == MCKeyId \cup {"account", "VNF"}
MCScope == {"transactions:write", "credential:revoke", "credential:issue", "credential:inspect",
            "credential:identityissue", "credential:contactissue"}

Symmetry == Permutations(Request)
=============================================================================
