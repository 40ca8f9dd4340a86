------------------------- MODULE MCCredentialIssuing -------------------------
(***************************************************************************)
(* Instances of CredentialIssuing for TLC.  Requests and list ids are only *)
(* compared, so permuting them is a symmetry of every safety property.     *)
(***************************************************************************)
EXTENDS CredentialIssuing, TLC

Symmetry == Permutations(Request) \cup Permutations(ListId)
=============================================================================
