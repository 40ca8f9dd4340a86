------------------------- MODULE MCMetadataRegistry -------------------------
(* The instance TLC checks of MetadataRegistry. *)
EXTENDS MetadataRegistry, TLC

MCAddress == {"VNF", "registry", "primary", "operator"}
MCScope == {"transactions:write", "credential:issue", "coupon:burn"}
MCPermissionOfType == [t \in {"Email", "Course"} |-> "credential:issue"]
MCQuantityOf == [t \in Token |-> IF t = 0 THEN 2 ELSE 1]

Symmetry == Permutations(Reader)
=============================================================================
