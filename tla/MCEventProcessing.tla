-------------------------- MODULE MCEventProcessing --------------------------
(***************************************************************************)
(* Instances of EventProcessing for TLC.  The history variable overlapped  *)
(* says whether two runs were ever under way at once: some properties are  *)
(* of runs that came one at a time.                                        *)
(***************************************************************************)
EXTENDS EventProcessing

VARIABLE overlapped

MCInit == Init /\ overlapped = FALSE

MCNext == Next /\ overlapped' = (overlapped \/ Cardinality(InFlight') > 1)

MCSpec == MCInit /\ [][MCNext]_<<vars, overlapped>>

MCFairSpec == MCSpec /\ \A r \in Run : WF_vars(Step(r))

\* Runs one at a time write an event again only for a fault or an unknown
\* burner: the cursor is written last, and read first by the next run.
SerialRewritesNeedFaults == ~ overlapped => RewritesNeedFaults
=============================================================================
