----------------------------- MODULE MCSignatory -----------------------------
(***************************************************************************)
(* An instance of Signatory for TLC: behaviours in which the subscriber,   *)
(* the runs and the responses come one at a time, and behaviours in which  *)
(* they overlap.                                                           *)
(***************************************************************************)
EXTENDS Signatory

CONSTANT MaxActive   \* bound: how many overlap

VARIABLE serial

Active == (IF subscriber = "ended" THEN 0 ELSE 1)
          + Cardinality({r \in Run : run[r] # "idle"})
          + Cardinality({q \in Response : response[q] \notin {"idle", "ended"}})

\* Bound: the inviter is deleted only where nothing else goes wrong.
InviterDeletedAlone ==
  inviter = "deleted" => organization = "present" /\ faults = 0

MCInit == Init /\ serial \in BOOLEAN
MCNext == /\ Next /\ UNCHANGED serial
          /\ Active' =< (IF serial THEN 1 ELSE MaxActive)
          /\ InviterDeletedAlone'
MCSpec == MCInit /\ [][MCNext]_<<vars, serial>> /\ Fairness

\* Of behaviours one at a time: the document is completed once.
SerialOneOutcome == serial => OneOutcome
=============================================================================
