------------------------------ MODULE OfferLife ------------------------------
(***************************************************************************)
(* What the credential agent promises for the offers of an exchange,       *)
(* whatever the requests that do it and however they overlap: an offer is  *)
(* stored, sent to the wallet, and then decided; only a sent offer is      *)
(* rejected or issued, and the database says "approved" (consentedAt) only *)
(* of an offer whose credential was issued.                                *)
(***************************************************************************)
EXTENDS Integers

CONSTANT Offer

VARIABLES
  stored,     \* offers in the database
  sent,       \* offers some response of credential-offers listed
  rejected,   \* offers with rejectedAt
  issued,     \* offer -> how many credentials were issued for it
  consented   \* offers with consentedAt

vars == <<stored, sent, rejected, issued, consented>>

Init == /\ stored \in SUBSET Offer
        /\ sent = {}
        /\ rejected = {}
        /\ issued = [o \in Offer |-> 0]
        /\ consented = {}

Store == /\ \E new \in SUBSET (Offer \ stored) : stored' = stored \cup new
         /\ UNCHANGED <<sent, rejected, issued, consented>>

Send == /\ \E offers \in SUBSET stored : sent' = sent \cup offers
        /\ UNCHANGED <<stored, rejected, issued, consented>>

Reject == /\ \E offers \in SUBSET sent : rejected' = rejected \cup offers
          /\ UNCHANGED <<stored, sent, issued, consented>>

Issue == /\ \E offers \in SUBSET sent :
              issued' = [o \in Offer |-> IF o \in offers THEN issued[o] + 1
                                                         ELSE issued[o]]
         /\ UNCHANGED <<stored, sent, rejected, consented>>

Consent == /\ \E o \in sent : issued[o] > 0 /\ consented' = consented \cup {o}
           /\ UNCHANGED <<stored, sent, rejected, issued>>

Next == Store \/ Send \/ Reject \/ Issue \/ Consent

Spec == Init /\ [][Next]_vars
=============================================================================
