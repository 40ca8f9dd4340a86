------------------------ MODULE IssuingExchangeProofs ------------------------
(***************************************************************************)
(* Theorems about IssuingExchange, for any number of requests, offers and  *)
(* faults, every offer mode and every choice of handlers.  The last two    *)
(* are of the behaviours of MCIssuingExchange with requests one at a time. *)
(***************************************************************************)
EXTENDS MCIssuingExchange, FiniteSetTheorems, TLAPS

USE DEF exchangeVars, offerVars, locals, history

-----------------------------------------------------------------------------
(***************************************************************************)
(* Type correctness.                                                       *)
(***************************************************************************)

\* A request that ends leaves local variables of the right types.
LEMMA EndTyped ==
  ASSUME TypeOK, NEW r \in Request, NEW s \in Stage, End(r, s)
  PROVE  /\ stage' \in [Request -> Stage]
         /\ loaded' \in [Request -> [events : SUBSET State, offerIds : SUBSET Offer,
                            finalizedOfferIds : SUBSET Offer, offerHashes : SUBSET Content]]
         /\ held' \in [Request -> SUBSET Content]
         /\ approve' \in [Request -> SUBSET Offer]
         /\ reject' \in [Request -> SUBSET Offer]
         /\ found' \in [Request -> SUBSET stored]
<1>1. NoExchange \in [events : SUBSET State, offerIds : SUBSET Offer,
                      finalizedOfferIds : SUBSET Offer, offerHashes : SUBSET Content]
  BY DEF NoExchange
<1>. QED  BY <1>1 DEF TypeOK, End, GoTo

LEMMA FaultTyped == ASSUME TypeOK, Fault PROVE faults' \in Nat
  BY DEF TypeOK, Fault

LEMMA TypeInit == Init => TypeOK
  BY OfferAssumption DEF Init, TypeOK, NoExchange, Stage, State

LEMMA TypeStep == TypeOK /\ [Next]_vars => TypeOK'
<1> SUFFICES ASSUME TypeOK, [Next]_vars PROVE TypeOK'
  OBVIOUS
<1>1. ASSUME NEW r \in Request, CredentialOffers(r) PROVE TypeOK'
  BY <1>1 DEF CredentialOffers, Load, Exchange, EnterIfValid, GoTo, TypeOK,
       Stage, HolderStage, OperatorStage, Ended, State
<1>2. ASSUME NEW r \in Request, FinalizeOffers(r) PROVE TypeOK'
  BY <1>2 DEF FinalizeOffers, Load, Exchange, EnterIfValid, GoTo, TypeOK,
       Stage, HolderStage, OperatorStage, Ended, State
<1>3. ASSUME NEW r \in Request, PostOffer(r) PROVE TypeOK'
  BY <1>3 DEF PostOffer, Load, Exchange, GoTo, TypeOK, Stage, HolderStage,
       OperatorStage, Ended, State
<1>4. ASSUME NEW r \in Request, CompleteOffers(r) PROVE TypeOK'
  BY <1>4 DEF CompleteOffers, Load, Exchange, GoTo, TypeOK, Stage,
       HolderStage, OperatorStage, Ended, State
<1>5. ASSUME NEW r \in Request, OffersRequested(r) PROVE TypeOK'
  BY <1>5 DEF OffersRequested, AddState, GoTo, TypeOK, Stage, HolderStage,
       OperatorStage, Ended, State
<1>6. ASSUME NEW r \in Request, VendorAnswersLater(r) PROVE TypeOK'
  BY <1>6 DEF VendorAnswersLater, GoTo, TypeOK, Stage, HolderStage,
       OperatorStage, Ended, State
<1>7. ASSUME NEW r \in Request, VendorOffers(r) PROVE TypeOK'
  BY <1>7 DEF VendorOffers, GoTo, TypeOK, Stage, HolderStage, OperatorStage,
       Ended, State
<1>7a. ASSUME NEW r \in Request, VendorOffersWithoutId(r) PROVE TypeOK'
  BY <1>7a DEF VendorOffersWithoutId, AddState, GoTo, TypeOK, Stage,
       HolderStage, OperatorStage, Ended, State
<1>8. ASSUME NEW r \in Request, FindPreparedOffers(r) PROVE TypeOK'
  BY <1>8 DEF FindPreparedOffers, UniquePrepared, Prepared, GoTo, TypeOK,
       Stage, HolderStage, OperatorStage, Ended, State
<1>9. ASSUME NEW r \in Request, OffersSent(r) PROVE TypeOK'
  BY <1>9 DEF OffersSent, AddState, End, GoTo, NoExchange, TypeOK, Stage,
       HolderStage, OperatorStage, Ended, State
<1>10. ASSUME NEW r \in Request, OffersWaitingOnVendor(r) PROVE TypeOK'
  BY <1>10 DEF OffersWaitingOnVendor, AddState, End, GoTo, NoExchange,
       TypeOK, Stage, HolderStage, OperatorStage, Ended, State
<1>11. ASSUME NEW r \in Request, ClaimingInProgress(r) PROVE TypeOK'
  BY <1>11 DEF ClaimingInProgress, AddState, GoTo, TypeOK, Stage,
       HolderStage, OperatorStage, Ended, State
<1>12. ASSUME NEW r \in Request, RejectOffers(r) PROVE TypeOK'
  BY <1>12 DEF RejectOffers, GoTo, TypeOK, Stage, HolderStage, OperatorStage,
       Ended, State
<1>13. ASSUME NEW r \in Request, CheckOffersToBeApproved(r) PROVE TypeOK'
  BY <1>13 DEF CheckOffersToBeApproved, GoTo, TypeOK, Stage, HolderStage,
       OperatorStage, Ended, State
<1>14. ASSUME NEW r \in Request, IssueCredentials(r) PROVE TypeOK'
  BY <1>14 DEF IssueCredentials, GoTo, TypeOK, Stage, HolderStage,
       OperatorStage, Ended, State
<1>15. ASSUME NEW r \in Request, NEW o \in Offer, ApproveOffer(r, o) PROVE
     TypeOK'
  BY <1>15 DEF ApproveOffer, TypeOK, Stage, HolderStage, OperatorStage,
       Ended, State
<1>16. ASSUME NEW r \in Request, OffersApproved(r) PROVE TypeOK'
  BY <1>16 DEF OffersApproved, GoTo, TypeOK, Stage, HolderStage,
       OperatorStage, Ended, State
<1>17. ASSUME NEW r \in Request, FinalizeExchange(r) PROVE TypeOK'
  BY <1>17 DEF FinalizeExchange, AddState, End, GoTo, NoExchange, TypeOK,
       Stage, HolderStage, OperatorStage, Ended, State
<1>18. ASSUME NEW r \in Request, InsertOffer(r) PROVE TypeOK'
  BY <1>18 DEF InsertOffer, End, GoTo, NoExchange, TypeOK, Stage,
       HolderStage, OperatorStage, Ended, State
<1>19. ASSUME NEW r \in Request, FindOffersOfExchange(r) PROVE TypeOK'
  BY <1>19 DEF FindOffersOfExchange, GoTo, TypeOK, Stage, HolderStage,
       OperatorStage, Ended, State
<1>20. ASSUME NEW r \in Request, OffersReceived(r) PROVE TypeOK'
  BY <1>20 DEF OffersReceived, AddState, End, GoTo, NoExchange, TypeOK,
       Stage, HolderStage, OperatorStage, Ended, State
<1>21. ASSUME NEW r \in Request, NoOffersReceived(r) PROVE TypeOK'
  BY <1>21 DEF NoOffersReceived, AddState, GoTo, TypeOK, Stage, HolderStage,
       OperatorStage, Ended, State
<1>22. ASSUME NEW r \in Request, CompleteExchange(r) PROVE TypeOK'
  BY <1>22 DEF CompleteExchange, AddState, End, GoTo, NoExchange, TypeOK,
       Stage, HolderStage, OperatorStage, Ended, State
<1>23. ASSUME NEW r \in Request, OnError(r) PROVE TypeOK'
  <2>1. events' \subseteq State /\ faults' \in Nat
    BY <1>23, FaultTyped DEF OnError, AddState, State, TypeOK
  <2>2. End(r, "failed") /\ "failed" \in Stage
    BY <1>23 DEF OnError, Stage, Ended
  <2>. QED  BY <1>23, <2>1, <2>2, EndTyped DEF OnError, TypeOK
<1>24. ASSUME NEW r \in Request, Throws(r) PROVE TypeOK'
  <2>1. faults' \in Nat
    BY <1>24, FaultTyped DEF Throws
  <2>2. CASE stage[r] \in HolderStage
    <3>1. stage' \in [Request -> Stage] /\ UNCHANGED locals
      BY <1>24, <2>2 DEF Throws, GoTo, Stage, TypeOK
    <3>. QED  BY <1>24, <2>1, <3>1 DEF Throws, TypeOK
  <2>3. CASE stage[r] \notin HolderStage
    <3>1. End(r, "failed") /\ "failed" \in Stage
      BY <1>24, <2>3 DEF Throws, Stage, Ended
    <3>. QED  BY <1>24, <2>1, <3>1, EndTyped DEF Throws, TypeOK
  <2>. QED  BY <2>2, <2>3
<1>25. ASSUME NEW r \in Request, Crash(r) PROVE TypeOK'
  <2>1. faults' \in Nat
    BY <1>25, FaultTyped DEF Crash
  <2>2. jobs' \in [Request -> SUBSET Offer]
    BY <1>25 DEF Crash, TypeOK
  <2>3. CASE stage[r] \in Ended
    BY <1>25, <2>1, <2>2, <2>3 DEF Crash, TypeOK
  <2>4. CASE stage[r] \notin Ended
    <3>1. End(r, "failed") /\ "failed" \in Stage
      BY <1>25, <2>4 DEF Crash, Stage, Ended
    <3>. QED  BY <1>25, <2>1, <2>2, <3>1, EndTyped DEF Crash, TypeOK
  <2>. QED  BY <2>3, <2>4
<1>26. CASE UNCHANGED vars
  BY <1>26 DEF vars, TypeOK, Stage, HolderStage, OperatorStage, Ended, State
<1>. QED
  BY <1>1, <1>2, <1>3, <1>4, <1>5, <1>6, <1>7, <1>7a, <1>8, <1>9, <1>10, <1>11,
       <1>12, <1>13, <1>14, <1>15, <1>16, <1>17, <1>18, <1>19, <1>20, <1>21,
       <1>22, <1>23, <1>24, <1>25, <1>26 DEF Next, Begin, Step, Finished

\* The type invariant: the documents keep their shape and nothing in hand is
\* missing from the database.
THEOREM TypeCorrect == Spec => []TypeOK
<1>. QED  BY TypeInit, TypeStep, PTL DEF Spec

-----------------------------------------------------------------------------
(***************************************************************************)
(* What a request has in hand was sent, and what it approves was issued.   *)
(***************************************************************************)
HandInv ==
  /\ offerIds \subseteq sent
  /\ \A r \in Request : /\ approve[r] \cup reject[r] \subseteq sent
                        /\ \A o \in jobs[r] : o \in sent /\ issued[o] > 0

LEMMA HandInit == Init => HandInv
  BY DEF Init, HandInv

LEMMA HandStep == TypeOK /\ HandInv /\ [Next]_vars => HandInv'
<1> SUFFICES ASSUME TypeOK, HandInv, [Next]_vars PROVE HandInv'
  OBVIOUS
<1>1. ASSUME NEW r \in Request, CredentialOffers(r) PROVE HandInv'
  BY <1>1 DEF CredentialOffers, Load, Exchange, EnterIfValid, GoTo, TypeOK,
       HandInv
<1>2. ASSUME NEW r \in Request, FinalizeOffers(r) PROVE HandInv'
  BY <1>2 DEF FinalizeOffers, Load, Exchange, EnterIfValid, GoTo, TypeOK,
       HandInv
<1>3. ASSUME NEW r \in Request, PostOffer(r) PROVE HandInv'
  BY <1>3 DEF PostOffer, Load, Exchange, GoTo, TypeOK, HandInv
<1>4. ASSUME NEW r \in Request, CompleteOffers(r) PROVE HandInv'
  BY <1>4 DEF CompleteOffers, Load, Exchange, GoTo, TypeOK, HandInv
<1>5. ASSUME NEW r \in Request, OffersRequested(r) PROVE HandInv'
  BY <1>5 DEF OffersRequested, AddState, GoTo, TypeOK, HandInv
<1>6. ASSUME NEW r \in Request, VendorAnswersLater(r) PROVE HandInv'
  BY <1>6 DEF VendorAnswersLater, GoTo, TypeOK, HandInv
<1>7. ASSUME NEW r \in Request, VendorOffers(r) PROVE HandInv'
  BY <1>7 DEF VendorOffers, GoTo, TypeOK, HandInv
<1>7a. ASSUME NEW r \in Request, VendorOffersWithoutId(r) PROVE HandInv'
  BY <1>7a DEF VendorOffersWithoutId, AddState, GoTo, TypeOK, HandInv
<1>8. ASSUME NEW r \in Request, FindPreparedOffers(r) PROVE HandInv'
  BY <1>8 DEF FindPreparedOffers, UniquePrepared, Prepared, GoTo, TypeOK,
       HandInv
<1>9. ASSUME NEW r \in Request, OffersSent(r) PROVE HandInv'
  BY <1>9 DEF OffersSent, AddState, End, GoTo, NoExchange, TypeOK, HandInv
<1>10. ASSUME NEW r \in Request, OffersWaitingOnVendor(r) PROVE HandInv'
  BY <1>10 DEF OffersWaitingOnVendor, AddState, End, GoTo, NoExchange,
       TypeOK, HandInv
<1>11. ASSUME NEW r \in Request, ClaimingInProgress(r) PROVE HandInv'
  BY <1>11 DEF ClaimingInProgress, AddState, GoTo, TypeOK, HandInv
<1>12. ASSUME NEW r \in Request, RejectOffers(r) PROVE HandInv'
  BY <1>12 DEF RejectOffers, GoTo, TypeOK, HandInv
<1>13. ASSUME NEW r \in Request, CheckOffersToBeApproved(r) PROVE HandInv'
  BY <1>13 DEF CheckOffersToBeApproved, GoTo, TypeOK, HandInv
<1>14. ASSUME NEW r \in Request, IssueCredentials(r) PROVE HandInv'
  BY <1>14 DEF IssueCredentials, GoTo, TypeOK, HandInv
<1>15. ASSUME NEW r \in Request, NEW o \in Offer, ApproveOffer(r, o) PROVE
     HandInv'
  BY <1>15 DEF ApproveOffer, TypeOK, HandInv
<1>16. ASSUME NEW r \in Request, OffersApproved(r) PROVE HandInv'
  BY <1>16 DEF OffersApproved, GoTo, TypeOK, HandInv
<1>17. ASSUME NEW r \in Request, FinalizeExchange(r) PROVE HandInv'
  BY <1>17 DEF FinalizeExchange, AddState, End, GoTo, NoExchange, TypeOK,
       HandInv
<1>18. ASSUME NEW r \in Request, InsertOffer(r) PROVE HandInv'
  BY <1>18 DEF InsertOffer, End, GoTo, NoExchange, TypeOK, HandInv
<1>19. ASSUME NEW r \in Request, FindOffersOfExchange(r) PROVE HandInv'
  BY <1>19 DEF FindOffersOfExchange, GoTo, TypeOK, HandInv
<1>20. ASSUME NEW r \in Request, OffersReceived(r) PROVE HandInv'
  BY <1>20 DEF OffersReceived, AddState, End, GoTo, NoExchange, TypeOK, HandInv
<1>21. ASSUME NEW r \in Request, NoOffersReceived(r) PROVE HandInv'
  BY <1>21 DEF NoOffersReceived, AddState, GoTo, TypeOK, HandInv
<1>22. ASSUME NEW r \in Request, CompleteExchange(r) PROVE HandInv'
  BY <1>22 DEF CompleteExchange, AddState, End, GoTo, NoExchange, TypeOK,
       HandInv
<1>23. ASSUME NEW r \in Request, OnError(r) PROVE HandInv'
  BY <1>23 DEF OnError, AddState, End, GoTo, NoExchange, Fault, TypeOK, HandInv
<1>24. ASSUME NEW r \in Request, Throws(r) PROVE HandInv'
  BY <1>24 DEF Throws, GoTo, End, NoExchange, Fault, TypeOK, HandInv
<1>25. ASSUME NEW r \in Request, Crash(r) PROVE HandInv'
  BY <1>25 DEF Crash, GoTo, End, NoExchange, Fault, InFlight, TypeOK, HandInv
<1>26. CASE UNCHANGED vars
  BY <1>26 DEF vars, TypeOK, HandInv
<1>. QED
  BY <1>1, <1>2, <1>3, <1>4, <1>5, <1>6, <1>7, <1>7a, <1>8, <1>9, <1>10, <1>11,
       <1>12, <1>13, <1>14, <1>15, <1>16, <1>17, <1>18, <1>19, <1>20, <1>21,
       <1>22, <1>23, <1>24, <1>25, <1>26 DEF Next, Begin, Step, Finished

-----------------------------------------------------------------------------
(***************************************************************************)
(* What a request counts as decided is decided by the time it counts it.   *)
(***************************************************************************)
Undecided(r) == stage[r] \notin {"approving", "issuing", "updating", "finalizing"}

DecidedInv ==
  /\ finalizedOfferIds \subseteq consented \cup rejected
  /\ \A r \in Request :
       /\ loaded[r].finalizedOfferIds \subseteq consented \cup rejected
       /\ Undecided(r) \/ reject[r] \subseteq rejected
       /\ stage[r] = "updating" => approve[r] \subseteq consented \cup jobs[r]
       /\ stage[r] = "finalizing" => approve[r] \subseteq consented

LEMMA DecidedInit == Init => DecidedInv
  BY DEF Init, DecidedInv, Undecided, NoExchange

LEMMA DecidedStep == TypeOK /\ DecidedInv /\ [Next]_vars => DecidedInv'
<1> SUFFICES ASSUME TypeOK, DecidedInv, [Next]_vars PROVE DecidedInv'
  OBVIOUS
<1>1. ASSUME NEW r \in Request, CredentialOffers(r) PROVE DecidedInv'
  BY <1>1 DEF CredentialOffers, Load, Exchange, EnterIfValid, GoTo, TypeOK,
       DecidedInv, Undecided, HolderStage, OperatorStage, Ended
<1>2. ASSUME NEW r \in Request, FinalizeOffers(r) PROVE DecidedInv'
  BY <1>2 DEF FinalizeOffers, Load, Exchange, EnterIfValid, GoTo, TypeOK,
       DecidedInv, Undecided, HolderStage, OperatorStage, Ended
<1>3. ASSUME NEW r \in Request, PostOffer(r) PROVE DecidedInv'
  BY <1>3 DEF PostOffer, Load, Exchange, GoTo, TypeOK, DecidedInv, Undecided,
       HolderStage, OperatorStage, Ended
<1>4. ASSUME NEW r \in Request, CompleteOffers(r) PROVE DecidedInv'
  BY <1>4 DEF CompleteOffers, Load, Exchange, GoTo, TypeOK, DecidedInv,
       Undecided, HolderStage, OperatorStage, Ended
<1>5. ASSUME NEW r \in Request, OffersRequested(r) PROVE DecidedInv'
  BY <1>5 DEF OffersRequested, AddState, GoTo, TypeOK, DecidedInv, Undecided,
       HolderStage, OperatorStage, Ended
<1>6. ASSUME NEW r \in Request, VendorAnswersLater(r) PROVE DecidedInv'
  BY <1>6 DEF VendorAnswersLater, GoTo, TypeOK, DecidedInv, Undecided,
       HolderStage, OperatorStage, Ended
<1>7. ASSUME NEW r \in Request, VendorOffers(r) PROVE DecidedInv'
  BY <1>7 DEF VendorOffers, GoTo, TypeOK, DecidedInv, Undecided, HolderStage,
       OperatorStage, Ended
<1>7a. ASSUME NEW r \in Request, VendorOffersWithoutId(r) PROVE DecidedInv'
  BY <1>7a DEF VendorOffersWithoutId, AddState, GoTo, TypeOK, DecidedInv,
       Undecided, HolderStage, OperatorStage, Ended
<1>8. ASSUME NEW r \in Request, FindPreparedOffers(r) PROVE DecidedInv'
  BY <1>8 DEF FindPreparedOffers, UniquePrepared, Prepared, GoTo, TypeOK,
       DecidedInv, Undecided, HolderStage, OperatorStage, Ended
<1>9. ASSUME NEW r \in Request, OffersSent(r) PROVE DecidedInv'
  BY <1>9 DEF OffersSent, AddState, End, GoTo, NoExchange, TypeOK,
       DecidedInv, Undecided, HolderStage, OperatorStage, Ended
<1>10. ASSUME NEW r \in Request, OffersWaitingOnVendor(r) PROVE DecidedInv'
  BY <1>10 DEF OffersWaitingOnVendor, AddState, End, GoTo, NoExchange,
       TypeOK, DecidedInv, Undecided, HolderStage, OperatorStage, Ended
<1>11. ASSUME NEW r \in Request, ClaimingInProgress(r) PROVE DecidedInv'
  BY <1>11 DEF ClaimingInProgress, AddState, GoTo, TypeOK, DecidedInv,
       Undecided, HolderStage, OperatorStage, Ended
<1>12. ASSUME NEW r \in Request, RejectOffers(r) PROVE DecidedInv'
  BY <1>12 DEF RejectOffers, GoTo, TypeOK, DecidedInv, Undecided,
       HolderStage, OperatorStage, Ended
<1>13. ASSUME NEW r \in Request, CheckOffersToBeApproved(r) PROVE DecidedInv'
  BY <1>13 DEF CheckOffersToBeApproved, GoTo, TypeOK, DecidedInv, Undecided,
       HolderStage, OperatorStage, Ended
<1>14. ASSUME NEW r \in Request, IssueCredentials(r) PROVE DecidedInv'
  BY <1>14 DEF IssueCredentials, GoTo, TypeOK, DecidedInv, Undecided,
       HolderStage, OperatorStage, Ended
<1>15. ASSUME NEW r \in Request, NEW o \in Offer, ApproveOffer(r, o) PROVE
     DecidedInv'
  BY <1>15 DEF ApproveOffer, TypeOK, DecidedInv, Undecided, HolderStage,
       OperatorStage, Ended
<1>16. ASSUME NEW r \in Request, OffersApproved(r) PROVE DecidedInv'
  BY <1>16 DEF OffersApproved, GoTo, TypeOK, DecidedInv, Undecided,
       HolderStage, OperatorStage, Ended
<1>17. ASSUME NEW r \in Request, FinalizeExchange(r) PROVE DecidedInv'
  BY <1>17 DEF FinalizeExchange, AddState, End, GoTo, NoExchange, TypeOK,
       DecidedInv, Undecided, HolderStage, OperatorStage, Ended
<1>18. ASSUME NEW r \in Request, InsertOffer(r) PROVE DecidedInv'
  BY <1>18 DEF InsertOffer, End, GoTo, NoExchange, TypeOK, DecidedInv,
       Undecided, HolderStage, OperatorStage, Ended
<1>19. ASSUME NEW r \in Request, FindOffersOfExchange(r) PROVE DecidedInv'
  BY <1>19 DEF FindOffersOfExchange, GoTo, TypeOK, DecidedInv, Undecided,
       HolderStage, OperatorStage, Ended
<1>20. ASSUME NEW r \in Request, OffersReceived(r) PROVE DecidedInv'
  BY <1>20 DEF OffersReceived, AddState, End, GoTo, NoExchange, TypeOK,
       DecidedInv, Undecided, HolderStage, OperatorStage, Ended
<1>21. ASSUME NEW r \in Request, NoOffersReceived(r) PROVE DecidedInv'
  BY <1>21 DEF NoOffersReceived, AddState, GoTo, TypeOK, DecidedInv,
       Undecided, HolderStage, OperatorStage, Ended
<1>22. ASSUME NEW r \in Request, CompleteExchange(r) PROVE DecidedInv'
  BY <1>22 DEF CompleteExchange, AddState, End, GoTo, NoExchange, TypeOK,
       DecidedInv, Undecided, HolderStage, OperatorStage, Ended
<1>23. ASSUME NEW r \in Request, OnError(r) PROVE DecidedInv'
  BY <1>23 DEF OnError, AddState, End, GoTo, NoExchange, Fault, TypeOK,
       DecidedInv, Undecided, HolderStage, OperatorStage, Ended
<1>24. ASSUME NEW r \in Request, Throws(r) PROVE DecidedInv'
  BY <1>24 DEF Throws, GoTo, End, NoExchange, Fault, TypeOK, DecidedInv,
       Undecided, HolderStage, OperatorStage, Ended
<1>25. ASSUME NEW r \in Request, Crash(r) PROVE DecidedInv'
  BY <1>25 DEF Crash, GoTo, End, NoExchange, Fault, InFlight, TypeOK,
       DecidedInv, Undecided, HolderStage, OperatorStage, Ended
<1>26. CASE UNCHANGED vars
  BY <1>26 DEF vars, TypeOK, DecidedInv, Undecided, HolderStage,
       OperatorStage, Ended
<1>. QED
  BY <1>1, <1>2, <1>3, <1>4, <1>5, <1>6, <1>7, <1>7a, <1>8, <1>9, <1>10, <1>11,
       <1>12, <1>13, <1>14, <1>15, <1>16, <1>17, <1>18, <1>19, <1>20, <1>21,
       <1>22, <1>23, <1>24, <1>25, <1>26 DEF Next, Begin, Step, Finished

IInv == TypeOK /\ HandInv /\ DecidedInv

THEOREM Invariance == Spec => []IInv
<1>1. Init => IInv
  BY TypeInit, HandInit, DecidedInit DEF IInv
<1>2. IInv /\ [Next]_vars => IInv'
  BY TypeStep, HandStep, DecidedStep DEF IInv
<1>. QED  BY <1>1, <1>2, PTL DEF Spec

\* The exchange never counts an offer whose rejection or approval failed or
\* is still under way, whatever overlaps or fails.
THEOREM OnlyDecidedAreFinalized == Spec => []FinalizedAreDecided
<1>1. IInv => FinalizedAreDecided
  BY DEF IInv, DecidedInv, FinalizedAreDecided
<1>. QED  BY <1>1, Invariance, PTL

-----------------------------------------------------------------------------
(***************************************************************************)
(* Refinement of OfferLife.                                                *)
(***************************************************************************)
LEMMA LifeInit == Init => Life!Init
  BY OfferAssumption DEF Init, Life!Init

LEMMA LifeStep == TypeOK /\ HandInv /\ [Next]_vars => [Life!Next]_(Life!vars)
<1> SUFFICES ASSUME TypeOK, HandInv, [Next]_vars PROVE [Life!Next]_(Life!vars)
  OBVIOUS
<1>1. ASSUME NEW r \in Request, CredentialOffers(r) PROVE
     [Life!Next]_(Life!vars)
  BY <1>1 DEF CredentialOffers, Life!vars
<1>2. ASSUME NEW r \in Request, FinalizeOffers(r) PROVE [Life!Next]_(Life!vars)
  BY <1>2 DEF FinalizeOffers, Life!vars
<1>3. ASSUME NEW r \in Request, PostOffer(r) PROVE [Life!Next]_(Life!vars)
  BY <1>3 DEF PostOffer, Life!vars
<1>4. ASSUME NEW r \in Request, CompleteOffers(r) PROVE [Life!Next]_(Life!vars)
  BY <1>4 DEF CompleteOffers, Life!vars
<1>5. ASSUME NEW r \in Request, OffersRequested(r) PROVE
     [Life!Next]_(Life!vars)
  BY <1>5 DEF OffersRequested, Life!vars
<1>6. ASSUME NEW r \in Request, VendorAnswersLater(r) PROVE
     [Life!Next]_(Life!vars)
  BY <1>6 DEF VendorAnswersLater, Life!vars
<1>7. ASSUME NEW r \in Request, VendorOffers(r) PROVE [Life!Next]_(Life!vars)
  <2>1. PICK ids \in SUBSET (Offer \ stored) : stored' = stored \cup ids
    BY <1>7 DEF VendorOffers
  <2>. QED  BY <1>7, <2>1 DEF VendorOffers, Life!Next, Life!Store
<1>7a. ASSUME NEW r \in Request, VendorOffersWithoutId(r) PROVE
     [Life!Next]_(Life!vars)
  BY <1>7a DEF VendorOffersWithoutId, Life!vars
<1>8. ASSUME NEW r \in Request, FindPreparedOffers(r) PROVE
     [Life!Next]_(Life!vars)
  BY <1>8 DEF FindPreparedOffers, Life!vars
<1>9. ASSUME NEW r \in Request, OffersSent(r) PROVE [Life!Next]_(Life!vars)
  <2>1. found[r] \in SUBSET stored
    BY DEF TypeOK
  <2>. QED  BY <1>9, <2>1 DEF OffersSent, Life!Next, Life!Send
<1>10. ASSUME NEW r \in Request, OffersWaitingOnVendor(r) PROVE
     [Life!Next]_(Life!vars)
  BY <1>10 DEF OffersWaitingOnVendor, Life!vars
<1>11. ASSUME NEW r \in Request, ClaimingInProgress(r) PROVE
     [Life!Next]_(Life!vars)
  BY <1>11 DEF ClaimingInProgress, Life!vars
<1>12. ASSUME NEW r \in Request, RejectOffers(r) PROVE [Life!Next]_(Life!vars)
  <2>1. reject[r] \in SUBSET sent
    BY DEF HandInv
  <2>. QED  BY <1>12, <2>1 DEF RejectOffers, Life!Next, Life!Reject
<1>13. ASSUME NEW r \in Request, CheckOffersToBeApproved(r) PROVE
     [Life!Next]_(Life!vars)
  BY <1>13 DEF CheckOffersToBeApproved, Life!vars
<1>14. ASSUME NEW r \in Request, IssueCredentials(r) PROVE
     [Life!Next]_(Life!vars)
  <2>1. approve[r] \in SUBSET sent
    BY DEF HandInv
  <2>. QED  BY <1>14, <2>1 DEF IssueCredentials, Life!Next, Life!Issue
<1>15. ASSUME NEW r \in Request, NEW o \in Offer, ApproveOffer(r, o) PROVE
     [Life!Next]_(Life!vars)
  <2>1. o \in sent /\ issued[o] > 0
    BY <1>15 DEF ApproveOffer, HandInv
  <2>. QED  BY <1>15, <2>1 DEF ApproveOffer, Life!Next, Life!Consent
<1>16. ASSUME NEW r \in Request, OffersApproved(r) PROVE
     [Life!Next]_(Life!vars)
  BY <1>16 DEF OffersApproved, Life!vars
<1>17. ASSUME NEW r \in Request, FinalizeExchange(r) PROVE
     [Life!Next]_(Life!vars)
  BY <1>17 DEF FinalizeExchange, Life!vars
<1>18. ASSUME NEW r \in Request, InsertOffer(r) PROVE [Life!Next]_(Life!vars)
  <2>1. CASE UNCHANGED stored
    BY <1>18, <2>1 DEF InsertOffer, Life!vars
  <2>2. CASE \E o \in Offer \ stored : stored' = stored \cup {o}
    <3>1. PICK o \in Offer \ stored : stored' = stored \cup {o}
      BY <2>2
    <3>2. {o} \in SUBSET (Offer \ stored)
      BY <3>1
    <3>. QED  BY <1>18, <3>1, <3>2 DEF InsertOffer, Life!Next, Life!Store
  <2>. QED  BY <1>18, <2>1, <2>2 DEF InsertOffer
<1>19. ASSUME NEW r \in Request, FindOffersOfExchange(r) PROVE
     [Life!Next]_(Life!vars)
  BY <1>19 DEF FindOffersOfExchange, Life!vars
<1>20. ASSUME NEW r \in Request, OffersReceived(r) PROVE
     [Life!Next]_(Life!vars)
  BY <1>20 DEF OffersReceived, Life!vars
<1>21. ASSUME NEW r \in Request, NoOffersReceived(r) PROVE
     [Life!Next]_(Life!vars)
  BY <1>21 DEF NoOffersReceived, Life!vars
<1>22. ASSUME NEW r \in Request, CompleteExchange(r) PROVE
     [Life!Next]_(Life!vars)
  BY <1>22 DEF CompleteExchange, Life!vars
<1>23. ASSUME NEW r \in Request, OnError(r) PROVE [Life!Next]_(Life!vars)
  BY <1>23 DEF OnError, Life!vars
<1>24. ASSUME NEW r \in Request, Throws(r) PROVE [Life!Next]_(Life!vars)
  BY <1>24 DEF Throws, Life!vars
<1>25. ASSUME NEW r \in Request, Crash(r) PROVE [Life!Next]_(Life!vars)
  BY <1>25 DEF Crash, Life!vars
<1>26. CASE UNCHANGED vars
  BY <1>26 DEF vars, Life!vars
<1>. QED
  BY <1>1, <1>2, <1>3, <1>4, <1>5, <1>6, <1>7, <1>7a, <1>8, <1>9, <1>10, <1>11,
       <1>12, <1>13, <1>14, <1>15, <1>16, <1>17, <1>18, <1>19, <1>20, <1>21,
       <1>22, <1>23, <1>24, <1>25, <1>26 DEF Next, Begin, Step, Finished

\* However requests overlap, fail and are retried, the offers of an exchange
\* live as OfferLife says.
THEOREM ExchangeImplementsOfferLife == Spec => ImplementsOfferLife
<1>1. IInv /\ [Next]_vars => [Life!Next]_(Life!vars)
  BY LifeStep DEF IInv
<1>. QED  BY <1>1, LifeInit, Invariance, PTL DEF Spec, ImplementsOfferLife, Life!Spec

-----------------------------------------------------------------------------
(***************************************************************************)
(* Requests one at a time.                                                 *)
(***************************************************************************)
OneInFlight == \A r, x \in InFlight : r = x

ClaimStage == {"claiming", "rejecting", "approving", "issuing", "updating", "finalizing"}

\* What no other request's steps come between: the copy of the exchange, the
\* check of COMPLETE, and what was looked up of the offers.
CopyIsFresh ==
  \A r \in Request :
    /\ stage[r] \in ClaimStage => /\ loaded[r].offerIds = offerIds
                                  /\ loaded[r].finalizedOfferIds = finalizedOfferIds
    /\ stage[r] \in HolderStage => "COMPLETE" \notin events
    /\ stage[r] = "completing" => "NO_OFFERS_RECEIVED" \in events
OffersAreFresh ==
  \A r \in Request :
    /\ stage[r] \in {"idle", "requesting", "vendor"} => found[r] = {}
    /\ stage[r] \in {"preparing", "sending"} => found[r] \cap (consented \cup rejected) = {}
    /\ stage[r] = "issuing" => approve[r] \cap rejected = {}
    /\ jobs[r] # {} => stage[r] \in {"updating", "error", "failed"}
CompleteIsExact ==
  /\ answered = finalizedOfferIds
  /\ offerIds # {} /\ offerIds \subseteq finalizedOfferIds => "COMPLETE" \in events
  /\ CompleteIsJustified

SerialState == CopyIsFresh /\ OffersAreFresh /\ CompleteIsExact
SerialInv == serial => OneInFlight /\ SerialState

DecidedStored == consented \cup rejected \subseteq stored

Alone(r) == \A x \in Request : x # r => stage[x] \in Ended \cup {"idle"} /\ jobs[x] = {}

LEMMA SerialStateKept ==
  ASSUME TypeOK, HandInv, DecidedInv, DecidedStored, SerialState,
         NEW r \in Request, Alone(r), Begin(r) \/ Step(r) \/ Throws(r) \/ Crash(r)
  PROVE  SerialState'
<1> USE DEF TypeOK, SerialState, CopyIsFresh, OffersAreFresh, CompleteIsExact,
        CompleteIsJustified, Alone, ClaimStage, HolderStage, OperatorStage, Ended
<1>1. ASSUME CredentialOffers(r) PROVE SerialState'
  BY <1>1 DEF CredentialOffers, Load, Exchange, EnterIfValid, GoTo
<1>2. ASSUME FinalizeOffers(r) PROVE SerialState'
  BY <1>2 DEF FinalizeOffers, Load, Exchange, EnterIfValid, GoTo
<1>3. ASSUME PostOffer(r) PROVE SerialState'
  BY <1>3 DEF PostOffer, Load, Exchange, GoTo
<1>4. ASSUME CompleteOffers(r) PROVE SerialState'
  BY <1>4 DEF CompleteOffers, Load, Exchange, GoTo
<1>5. ASSUME OffersRequested(r) PROVE SerialState'
  BY <1>5 DEF OffersRequested, AddState, GoTo
<1>6. ASSUME VendorAnswersLater(r) PROVE SerialState'
  BY <1>6 DEF VendorAnswersLater, GoTo
<1>7. ASSUME VendorOffers(r) PROVE SerialState'
  BY <1>7 DEF VendorOffers, GoTo, DecidedInv, DecidedStored
<1>8. ASSUME VendorOffersWithoutId(r) PROVE SerialState'
  BY <1>8 DEF VendorOffersWithoutId, AddState, GoTo
<1>9. ASSUME FindPreparedOffers(r) PROVE SerialState'
  BY <1>9 DEF FindPreparedOffers, UniquePrepared, Prepared, GoTo
<1>10. ASSUME OffersSent(r) PROVE SerialState'
  BY <1>10 DEF OffersSent, AddState, End, NoExchange, GoTo, DecidedInv, DecidedStored
<1>11. ASSUME OffersWaitingOnVendor(r) PROVE SerialState'
  BY <1>11 DEF OffersWaitingOnVendor, AddState, End, NoExchange, GoTo
<1>12. ASSUME ClaimingInProgress(r) PROVE SerialState'
  BY <1>12 DEF ClaimingInProgress, AddState, GoTo
<1>13. ASSUME RejectOffers(r) PROVE SerialState'
  BY <1>13 DEF RejectOffers, GoTo
<1>14. ASSUME CheckOffersToBeApproved(r) PROVE SerialState'
  BY <1>14 DEF CheckOffersToBeApproved, GoTo
<1>15. ASSUME IssueCredentials(r) PROVE SerialState'
  BY <1>15 DEF IssueCredentials, GoTo
<1>16. ASSUME NEW o \in Offer, ApproveOffer(r, o) PROVE SerialState'
  BY <1>16 DEF ApproveOffer
<1>17. ASSUME OffersApproved(r) PROVE SerialState'
  BY <1>17 DEF OffersApproved, GoTo
<1>18. ASSUME FinalizeExchange(r) PROVE SerialState'
  <2>1. /\ loaded[r].offerIds = offerIds /\ loaded[r].finalizedOfferIds = finalizedOfferIds
        /\ approve[r] \cup reject[r] \subseteq consented \cup rejected
        /\ finalizedOfferIds \subseteq consented \cup rejected
    BY <1>18 DEF FinalizeExchange, DecidedInv, Undecided
  <2>2. /\ finalizedOfferIds' = finalizedOfferIds \cup approve[r] \cup reject[r]
        /\ answered' = answered \cup approve[r] \cup reject[r]
        /\ offerIds \subseteq finalizedOfferIds' => events' = events \cup {"COMPLETE"}
        /\ ~(offerIds \subseteq finalizedOfferIds') => events' = events
        /\ UNCHANGED <<offerIds, consented, rejected, jobs>>
    BY <1>18, <2>1 DEF FinalizeExchange, AddState
  <2>3. /\ stage' = [stage EXCEPT ![r] = "done"]
        /\ \A x \in Request : x # r => /\ loaded'[x] = loaded[x] /\ found'[x] = found[x]
                                     /\ approve'[x] = approve[x]
    BY <1>18 DEF FinalizeExchange, End, GoTo
  <2>4. stage[r] = "finalizing" /\ jobs[r] = {}
    BY <1>18 DEF FinalizeExchange
  <2>5. \A x \in Request : stage'[x] \in {"idle", "done", "failed"} /\ jobs'[x] = {}
    BY <2>2, <2>3, <2>4
  <2>6. \A x \in Request : stage'[x] = "idle" => found'[x] = {}
    BY <2>3
  <2>7. CopyIsFresh' /\ OffersAreFresh'
    BY <2>5, <2>6
  <2>8. CompleteIsExact'
    BY <2>1, <2>2
  <2>9. QED
    BY <2>7, <2>8
<1>19. ASSUME InsertOffer(r) PROVE SerialState'
  BY <1>19 DEF InsertOffer, End, NoExchange, GoTo
<1>20. ASSUME FindOffersOfExchange(r) PROVE SerialState'
  BY <1>20 DEF FindOffersOfExchange, GoTo
<1>21. ASSUME OffersReceived(r) PROVE SerialState'
  BY <1>21 DEF OffersReceived, AddState, End, NoExchange, GoTo
<1>22. ASSUME NoOffersReceived(r) PROVE SerialState'
  BY <1>22 DEF NoOffersReceived, AddState, GoTo
<1>23. ASSUME CompleteExchange(r) PROVE SerialState'
  BY <1>23 DEF CompleteExchange, AddState, End, NoExchange, GoTo
<1>24. ASSUME OnError(r) PROVE SerialState'
  BY <1>24 DEF OnError, AddState, End, NoExchange, Fault, GoTo
<1>25. ASSUME Throws(r) PROVE SerialState'
  BY <1>25 DEF Throws, End, NoExchange, Fault, GoTo
<1>26. ASSUME Crash(r) PROVE SerialState'
  BY <1>26 DEF Crash, End, NoExchange, Fault, InFlight, GoTo
<1>. QED
  BY <1>1, <1>2, <1>3, <1>4, <1>5, <1>6, <1>7, <1>8, <1>9, <1>10, <1>11, <1>12, <1>13, <1>14, <1>15, <1>16, <1>17, <1>18, <1>19, <1>20, <1>21, <1>22, <1>23, <1>24, <1>25, <1>26 DEF Begin, Step

\* A request that steps was in flight before it, or is afterwards.
LEMMA ActorIsInFlight ==
  ASSUME TypeOK, NEW r \in Request, Begin(r) \/ Step(r) \/ Throws(r) \/ Crash(r)
  PROVE  /\ r \in InFlight \/ r \in InFlight'
         /\ \A x \in Request : x # r => stage'[x] = stage[x] /\ jobs'[x] = jobs[x]
<1> USE DEF TypeOK, GoTo, End
<1>1. CASE Begin(r)
  <2>1. stage'[r] \notin Ended \cup {"idle"}
    BY <1>1 DEF Begin, CredentialOffers, FinalizeOffers, PostOffer, CompleteOffers,
       EnterIfValid, Ended
  <2>2. r \in InFlight'
    BY <2>1 DEF InFlight
  <2>3. QED
    BY <1>1, <2>2 DEF Begin, CredentialOffers, FinalizeOffers, PostOffer, CompleteOffers,
       EnterIfValid
<1>2. CASE Step(r) \/ Throws(r) \/ Crash(r)
  <2>1. r \in InFlight
    BY <1>2 DEF Step, OffersRequested, VendorAnswersLater, VendorOffers,
       VendorOffersWithoutId, FindPreparedOffers, OffersSent, OffersWaitingOnVendor,
       ClaimingInProgress, RejectOffers, CheckOffersToBeApproved, IssueCredentials,
       ApproveOffer, OffersApproved, FinalizeExchange, InsertOffer, FindOffersOfExchange,
       OffersReceived, NoOffersReceived, CompleteExchange, OnError, Throws, Crash,
       InFlight, HolderStage, OperatorStage, Ended
  <2>2. CASE Step(r)
    BY <2>1, <2>2 DEF Step, OffersRequested, VendorAnswersLater, VendorOffers,
       VendorOffersWithoutId, FindPreparedOffers, OffersSent, OffersWaitingOnVendor,
       ClaimingInProgress, RejectOffers, CheckOffersToBeApproved, IssueCredentials,
       ApproveOffer, OffersApproved, FinalizeExchange, InsertOffer, FindOffersOfExchange,
       OffersReceived, NoOffersReceived, CompleteExchange, OnError
  <2>3. CASE Throws(r) \/ Crash(r)
    BY <2>1, <2>3 DEF Throws, Crash
  <2>4. QED
    BY <1>2, <2>2, <2>3
<1>3. QED
  BY <1>1, <1>2

LEMMA OneInFlightKept ==
  ASSUME TypeOK, OneInFlight, Cardinality(InFlight') =< 1,
         NEW r \in Request, Begin(r) \/ Step(r) \/ Throws(r) \/ Crash(r)
  PROVE  OneInFlight' /\ Alone(r)
<1>1. /\ r \in InFlight \/ r \in InFlight'
      /\ \A x \in Request : x # r => stage'[x] = stage[x] /\ jobs'[x] = jobs[x]
  BY ActorIsInFlight
<1>2. \A x \in Request : x # r => (x \in InFlight' <=> x \in InFlight)
  BY <1>1 DEF InFlight
<1>3. IsFiniteSet(InFlight')
  <2>1. PICK x : InFlight \subseteq {x}
    BY DEF OneInFlight
  <2>2. InFlight' \subseteq {x} \cup {r}
    BY <1>2, <2>1 DEF InFlight
  <2>3. IsFiniteSet({x} \cup {r})
    BY FS_Singleton, FS_AddElement
  <2>4. QED
    BY <2>2, <2>3, FS_Subset
<1>4. OneInFlight'
  <2>1. SUFFICES ASSUME NEW a \in InFlight', NEW b \in InFlight', a # b PROVE FALSE
    BY DEF OneInFlight
  <2>2. IsFiniteSet({a}) /\ Cardinality({a}) = 1
    BY FS_Singleton
  <2>3. Cardinality({a} \cup {b}) = 2
    BY <2>1, <2>2, FS_AddElement
  <2>4. Cardinality({a} \cup {b}) =< Cardinality(InFlight')
    BY <1>3, FS_Subset
  <2>5. Cardinality(InFlight') \in Nat
    BY <1>3, FS_CardinalityType
  <2>6. 2 =< Cardinality(InFlight')
    BY <2>3, <2>4
  <2>7. QED
    BY <2>5, <2>6
<1>5. \A x \in Request : x # r => x \notin InFlight
  BY <1>1, <1>2, <1>4 DEF OneInFlight
<1>6. QED
  BY <1>4, <1>5 DEF Alone, InFlight

LEMMA DecidedStoredStep ==
  TypeOK /\ HandInv /\ DecidedStored /\ [Next]_vars => DecidedStored'
<1> SUFFICES ASSUME TypeOK, HandInv, DecidedStored, [Next]_vars PROVE DecidedStored'
  OBVIOUS
<1>1. sent \subseteq stored /\ stored \subseteq stored'
  <2>1. sent \subseteq stored
    BY DEF TypeOK
  <2>2. CASE \E r \in Request : VendorOffers(r) \/ InsertOffer(r)
    BY <2>1, <2>2 DEF VendorOffers, InsertOffer
  <2>3. CASE UNCHANGED stored
    BY <2>1, <2>3
  <2>4. QED
    BY <2>1, <2>2, <2>3 DEF vars, Next, Begin, Step, Finished, CredentialOffers,
       FinalizeOffers, PostOffer, CompleteOffers, OffersRequested, VendorAnswersLater,
       VendorOffersWithoutId, FindPreparedOffers, OffersSent, OffersWaitingOnVendor,
       ClaimingInProgress, RejectOffers, CheckOffersToBeApproved, IssueCredentials,
       ApproveOffer, OffersApproved, FinalizeExchange, FindOffersOfExchange,
       OffersReceived, NoOffersReceived, CompleteExchange, OnError, Throws, Crash
<1>2. CASE \E r \in Request : RejectOffers(r)
  <2>1. PICK r \in Request : RejectOffers(r)
    BY <1>2
  <2>2. reject[r] \subseteq stored
    BY <1>1 DEF HandInv
  <2>3. QED
    BY <1>1, <2>1, <2>2 DEF RejectOffers, DecidedStored
<1>3. CASE \E r \in Request : \E o \in Offer : ApproveOffer(r, o)
  <2>1. PICK r \in Request, o \in Offer : ApproveOffer(r, o)
    BY <1>3
  <2>2. o \in stored
    BY <1>1, <2>1 DEF HandInv, ApproveOffer
  <2>3. QED
    BY <1>1, <2>1, <2>2 DEF ApproveOffer, DecidedStored
<1>4. CASE UNCHANGED <<consented, rejected>>
  BY <1>1, <1>4 DEF DecidedStored
<1>5. QED
  BY <1>2, <1>3, <1>4 DEF vars, Next, Begin, Step, Finished, CredentialOffers,
     FinalizeOffers, PostOffer, CompleteOffers, OffersRequested, VendorAnswersLater,
     VendorOffers, VendorOffersWithoutId, FindPreparedOffers, OffersSent,
     OffersWaitingOnVendor, ClaimingInProgress, CheckOffersToBeApproved, IssueCredentials,
     OffersApproved, FinalizeExchange, InsertOffer, FindOffersOfExchange,
     OffersReceived, NoOffersReceived, CompleteExchange, OnError, Throws, Crash

SerialIInv == IInv /\ DecidedStored /\ SerialInv

LEMMA SerialIdle ==
  ASSUME SerialInv, UNCHANGED <<vars, serial>> PROVE SerialInv'
<1>1. UNCHANGED <<events, offerIds, finalizedOfferIds, consented, rejected, stage, loaded,
                  approve, found, jobs, answered, serial>>
  BY DEF vars
<1>2. OneInFlight' = OneInFlight
  BY <1>1 DEF OneInFlight, InFlight
<1>3. SerialState' = SerialState
  BY <1>1 DEF SerialState, CopyIsFresh, OffersAreFresh, CompleteIsExact, CompleteIsJustified
<1>4. QED
  BY <1>1, <1>2, <1>3 DEF SerialInv

LEMMA SerialStep == SerialIInv /\ [MCNext]_<<vars, serial>> => SerialIInv'
<1> SUFFICES ASSUME SerialIInv, [MCNext]_<<vars, serial>> PROVE SerialIInv'
  OBVIOUS
<1> USE DEF SerialIInv, IInv
<1>1. [Next]_vars
  BY DEF MCNext
<1>2. IInv' /\ DecidedStored'
  BY <1>1, TypeStep, HandStep, DecidedStep, DecidedStoredStep
<1>3. SerialInv'
  <2>1. CASE UNCHANGED <<vars, serial>>
    BY <2>1, SerialIdle
  <2>2. CASE Next /\ ~UNCHANGED <<vars, serial>>
    <3>1. UNCHANGED serial /\ (serial => Cardinality(InFlight') =< 1)
      BY <2>2 DEF MCNext
    <3>2. PICK r \in Request : Begin(r) \/ Step(r) \/ Throws(r) \/ Crash(r)
      BY <2>2, <3>1 DEF Next, Finished
    <3>3. ASSUME serial PROVE OneInFlight' /\ SerialState'
      <4>1. OneInFlight /\ SerialState
        BY <3>3 DEF SerialInv
      <4>2. OneInFlight' /\ Alone(r)
        BY <3>1, <3>2, <3>3, <4>1, OneInFlightKept
      <4>3. QED
        BY <3>2, <4>1, <4>2, SerialStateKept
    <3>4. QED
      BY <3>1, <3>3 DEF SerialInv
  <2>3. QED
    BY <2>1, <2>2 DEF MCNext
<1>4. QED
  BY <1>2, <1>3

LEMMA SerialInit == MCInit => SerialIInv
<1> SUFFICES ASSUME MCInit PROVE SerialIInv
  OBVIOUS
<1>1. Init
  BY DEF MCInit
<1>2. IInv
  BY <1>1, TypeInit, HandInit, DecidedInit DEF IInv
<1>3. DecidedStored /\ OneInFlight /\ SerialState
  BY <1>1 DEF Init, DecidedStored, OneInFlight, InFlight, SerialState, CopyIsFresh,
     OffersAreFresh, CompleteIsExact, CompleteIsJustified, ClaimStage, HolderStage
<1>4. QED
  BY <1>2, <1>3 DEF SerialIInv, SerialInv

\* Of requests one at a time, whatever fails: the exchange is complete once the
\* wallet has got an answer to its decision on every offer it was sent, and,
\* unless the vendor had no offers, not before each of them was decided.
THEOREM OneAtATimeCompletesExactly == MCSpec => []SerialCompleteIsExact
<1>1. SerialIInv => SerialCompleteIsExact
  BY DEF SerialIInv, SerialInv, SerialState, CompleteIsExact, SerialCompleteIsExact,
     CompleteWhenAnswered
<1>2. QED
  BY <1>1, SerialInit, SerialStep, PTL DEF MCSpec

\* Of requests one at a time, whatever fails: no credential is issued for an
\* offer that has been rejected.
THEOREM OneAtATimeIssuesNoRejected == MCSpec => SerialNotIssuedAfterRejection
<1>1. ASSUME SerialIInv, [MCNext]_<<vars, serial>>
      PROVE  [serial => \A o \in Offer : o \in rejected => issued'[o] = issued[o]]_vars
  <2>1. SUFFICES ASSUME serial, NEW o \in Offer, o \in rejected PROVE issued'[o] = issued[o]
    OBVIOUS
  <2>2. [Next]_vars
    BY <1>1 DEF MCNext
  <2>3. CASE \E r \in Request : IssueCredentials(r)
    <3>1. PICK r \in Request : IssueCredentials(r)
      BY <2>3
    <3>2. o \notin approve[r]
      BY <1>1, <2>1, <3>1 DEF IssueCredentials, SerialIInv, SerialInv, SerialState,
         OffersAreFresh
    <3>3. QED
      BY <3>1, <3>2 DEF IssueCredentials
  <2>4. CASE UNCHANGED issued
    BY <2>4
  <2>5. QED
    BY <2>2, <2>3, <2>4 DEF vars, Next, Begin, Step, Finished, CredentialOffers,
       FinalizeOffers, PostOffer, CompleteOffers, OffersRequested, VendorAnswersLater,
       VendorOffers, VendorOffersWithoutId, FindPreparedOffers, OffersSent,
       OffersWaitingOnVendor, ClaimingInProgress, RejectOffers, CheckOffersToBeApproved,
       ApproveOffer, OffersApproved, FinalizeExchange, InsertOffer, FindOffersOfExchange,
       OffersReceived, NoOffersReceived, CompleteExchange, OnError, Throws, Crash
<1>2. QED
  BY <1>1, SerialInit, SerialStep, PTL DEF MCSpec, SerialNotIssuedAfterRejection
=============================================================================
