--------------------------- MODULE CredentialLedger ---------------------------
(***************************************************************************)
(* What issuing promises, with nothing of how: every credential gets one   *)
(* slot of a metadata list that no other credential ever gets, its         *)
(* metadata is written to that slot once, and a request hands its          *)
(* credentials to the holder when all of them are written.                 *)
(***************************************************************************)
CONSTANTS Request, Offer, Slot, NoCredential

Credential == Request \X Offer

VARIABLES
  reserved,   \* credential -> its slot, if it has one (a set of at most one)
  anchored,   \* slot -> the credential whose metadata it holds
  delivered   \* requests whose credentials the holder has

ledger == <<reserved, anchored, delivered>>

Init == /\ reserved = [c \in Credential |-> {}]
        /\ anchored = [s \in Slot |-> NoCredential]
        /\ delivered = {}

Reserve(c, s) ==
  /\ reserved[c] = {}
  /\ \A d \in Credential : s \notin reserved[d]
  /\ reserved' = [reserved EXCEPT ![c] = {s}]
  /\ UNCHANGED <<anchored, delivered>>

Anchor(c, s) ==
  /\ s \in reserved[c]
  /\ anchored[s] = NoCredential
  /\ anchored' = [anchored EXCEPT ![s] = c]
  /\ UNCHANGED <<reserved, delivered>>

Deliver(r) ==
  /\ \A k \in Offer : \E s \in reserved[<<r, k>>] : anchored[s] = <<r, k>>
  /\ delivered' = delivered \cup {r}
  /\ UNCHANGED <<reserved, anchored>>

Next == \/ \E c \in Credential, s \in Slot : Reserve(c, s) \/ Anchor(c, s)
        \/ \E r \in Request : Deliver(r)

Spec == Init /\ [][Next]_ledger
=============================================================================
