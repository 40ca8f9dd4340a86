-------------------------- MODULE MCIssuingExchange --------------------------
(***************************************************************************)
(* Instances of IssuingExchange for TLC: of one content two documents may  *)
(* be made, of the other one.  There are behaviours whose requests come    *)
(* one at a time, and behaviours of fewer requests that overlap.  Requests *)
(* are only compared, so permuting them is a symmetry of every safety      *)
(* property.                                                               *)
(***************************************************************************)
EXTENDS IssuingExchange, TLC

CONSTANTS o1, o2, o3, c1, c2,
  MaxOverlapping   \* bound: requests of a behaviour in which they overlap

VARIABLE serial

MCOffer == {o1, o2, o3}
MCContent == {c1, c2}
MCHash == (o1 :> c1) @@ (o2 :> c2) @@ (o3 :> c1)

Symmetry == Permutations(Request)

Begun == {r \in Request : stage[r] # "idle"}

MCInit == Init /\ serial \in BOOLEAN
MCNext ==
  \/ /\ Next /\ UNCHANGED serial
     /\ IF serial THEN Cardinality(InFlight') =< 1
                  ELSE Cardinality(Begun') =< MaxOverlapping
  \/ InFlight = {} /\ Cardinality(Begun) >= MaxOverlapping /\ UNCHANGED <<vars, serial>>
MCSpec == MCInit /\ [][MCNext]_<<vars, serial>>

\* Of requests one at a time: no credential is issued for an offer that has
\* been rejected.
SerialNotIssuedAfterRejection ==
  [][serial => \A o \in Offer : o \in rejected => issued'[o] = issued[o]]_vars

\* Of requests one at a time: the exchange is complete once the wallet has got
\* an answer to its decision on every offer it was sent, and, unless the vendor
\* had no offers, not before each of them was decided.
SerialCompleteIsExact == serial => CompleteWhenAnswered /\ CompleteIsJustified
=============================================================================
