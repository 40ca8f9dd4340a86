--------------------------- MODULE IssuingExchange ---------------------------
(***************************************************************************)
(* servers/credentialagent: one issuing exchange, from the wallet's        *)
(* request for offers to its last decision.                                *)
(*                                                                         *)
(* A request is one HTTP call of the wallet (credential-offers,            *)
(* finalize-offers) or of the vendor (offers, offers/complete).  Each      *)
(* loads the exchange once, when it begins, and works on that copy; every  *)
(* call to MongoDB, to the vendor and to velocity-issuing is an await      *)
(* between which other requests run.  An offer is identified by its _id;   *)
(* Hash is its contentHash.value.  The content of offers, the wallet's     *)
(* token and its proof are left out: a bad proof is one of the errors      *)
(* Throws stands for.  errorOnInvalidWebhookOffers is off, its default.    *)
(***************************************************************************)
EXTENDS Integers, FiniteSets

CONSTANTS
  Request,     \* HTTP requests on the exchange
  Handler,     \* which of the four handlers the requests may call
  Offer,       \* ids of offers
  Content,     \* contents of offers
  Hash,        \* Hash[o]: the content of an offer
  Preloaded,   \* offers in the database already, of no or another exchange
  OfferMode,   \* "preloaded", "webhook", "all" or "legacy"
  MaxInFlight, \* bound: requests at the same time
  MaxFaults    \* bound: errors and crashes

ASSUME OfferAssumption == /\ Hash \in [Offer -> Content]
                          /\ Preloaded \subseteq Offer
ASSUME ModeAssumption == OfferMode \in {"preloaded", "webhook", "all", "legacy"}
ASSUME HandlerAssumption == Handler \subseteq {"credential-offers",
         "finalize-offers", "offers", "offers/complete"}
ASSUME BoundsAssumption == MaxInFlight \in Nat /\ MaxFaults \in Nat

State == {"NEW", "OFFERS_REQUESTED", "OFFERS_SENT", "OFFERS_WAITING_ON_VENDOR",
          "OFFERS_RECEIVED", "NO_OFFERS_RECEIVED", "CLAIMING_IN_PROGRESS",
          "COMPLETE", "OFFER_ID_UNDEFINED_ERROR", "UNEXPECTED_ERROR"}

\* Where a request is: the await it has reached.
HolderStage == {"requesting", "vendor", "preparing", "sending", "waiting",
                "claiming", "rejecting", "approving", "issuing", "updating",
                "finalizing"}
OperatorStage == {"inserting", "finding", "receiving", "noOffers", "completing"}
Ended == {"done", "failed"}
Stage == {"idle", "error"} \cup HolderStage \cup OperatorStage \cup Ended

VARIABLES
  events,             \* exchange.events, its states
  offerIds,           \* exchange.offerIds
  finalizedOfferIds,  \* exchange.finalizedOfferIds
  offerHashes,        \* exchange.offerHashes
  stored,             \* offers in the database
  rejected,           \* those with rejectedAt
  consented,          \* those with consentedAt
  stage,
  loaded,             \* the request's copy of the exchange
  held,               \* body.offerHashes: contents the wallet has
  approve,            \* approvedOfferIds, filtered
  reject,             \* rejectedOfferIds, filtered
  found,              \* offers in hand
  jobs,               \* approveOffer promises in flight
  sent,               \* history: offers in some response
  issued,             \* history: offer -> credentials issued for it
  answered,           \* history: ids finalize-offers answered 200 to
  faults

exchangeVars == <<events, offerIds, finalizedOfferIds, offerHashes>>
offerVars == <<stored, rejected, consented>>
locals == <<loaded, held, approve, reject, found>>
history == <<sent, issued, answered>>
vars == <<exchangeVars, offerVars, stage, locals, jobs, history, faults>>

Exchange == [events |-> events, offerIds |-> offerIds,
             finalizedOfferIds |-> finalizedOfferIds, offerHashes |-> offerHashes]
NoExchange == [events |-> {}, offerIds |-> {}, finalizedOfferIds |-> {},
               offerHashes |-> {}]

Init ==
  /\ events = {"NEW"} /\ offerIds = {} /\ finalizedOfferIds = {} /\ offerHashes = {}
  /\ stored = Preloaded /\ rejected = {} /\ consented = {}
  /\ stage = [r \in Request |-> "idle"]
  /\ loaded = [r \in Request |-> NoExchange]
  /\ held = [r \in Request |-> {}]
  /\ approve = [r \in Request |-> {}]
  /\ reject = [r \in Request |-> {}]
  /\ found = [r \in Request |-> {}]
  /\ jobs = [r \in Request |-> {}]
  /\ sent = {}
  /\ issued = [o \in Offer |-> 0]
  /\ answered = {}
  /\ faults = 0

InFlight == {r \in Request : stage[r] \notin Ended \cup {"idle"} \/ jobs[r] # {}}

GoTo(r, s) == stage' = [stage EXCEPT ![r] = s]
Fault == faults < MaxFaults /\ faults' = faults + 1
AddState(s) == events' = events \cup {s}

\* A request that ends drops its local variables.
End(r, s) == /\ GoTo(r, s)
             /\ loaded' = [loaded EXCEPT ![r] = NoExchange]
             /\ held' = [held EXCEPT ![r] = {}]
             /\ approve' = [approve EXCEPT ![r] = {}]
             /\ reject' = [reject EXCEPT ![r] = {}]
             /\ found' = [found EXCEPT ![r] = {}]

\* exchangeLoaderPlugin
Load(r) == /\ stage[r] = "idle"
           /\ Cardinality(InFlight) < MaxInFlight
           /\ loaded' = [loaded EXCEPT ![r] = Exchange]

\* ensureExchangeStateValid, on the copy just loaded: the wallet's routes only.
EnterIfValid(r, s) == GoTo(r, IF "COMPLETE" \in events THEN "error" ELSE s)

-----------------------------------------------------------------------------
(***************************************************************************)
(* The wallet: credential-offers.                                          *)
(***************************************************************************)
CredentialOffers(r) ==
  /\ "credential-offers" \in Handler
  /\ Load(r)
  /\ \E hashes \in SUBSET Content : held' = [held EXCEPT ![r] = hashes]
  /\ EnterIfValid(r, "requesting")
  /\ UNCHANGED <<exchangeVars, offerVars, approve, reject, found, jobs, history, faults>>

SkipVendorOffers(r) ==
  \/ OfferMode = "preloaded"
  \/ OfferMode = "legacy" /\ "OFFERS_RECEIVED" \in loaded[r].events
  \/ /\ OfferMode = "all"
     /\ {"OFFERS_RECEIVED", "OFFERS_WAITING_ON_VENDOR"} \subseteq loaded[r].events

SkipPreparedOffers(r) ==
  OfferMode = "webhook" /\ "OFFERS_RECEIVED" \notin loaded[r].events

OffersRequested(r) ==
  /\ stage[r] = "requesting"
  /\ AddState("OFFERS_REQUESTED")
  /\ GoTo(r, IF SkipVendorOffers(r) THEN "preparing" ELSE "vendor")
  /\ UNCHANGED <<offerIds, finalizedOfferIds, offerHashes, offerVars, locals, jobs, history, faults>>

VendorOffersNotInserted(r) ==   \* mutant: no insertMany
  /\ stage[r] = "vendor"
  /\ \E ids \in SUBSET {o \in Offer \ stored : Hash[o] \notin held[r]} :
       found' = [found EXCEPT ![r] = ids]
  /\ GoTo(r, "preparing")
  /\ UNCHANGED <<exchangeVars, offerVars, loaded, held, approve, reject, jobs, history, faults>>

\* requestOffersFromVendor answers 202 and the vendor will post its offers,
\* or 200 with offers, of which the valid ones that the wallet does not have
\* are inserted, as new documents even if the contents are known, or with an
\* offer that has no offerId.
VendorAnswersLater(r) ==
  /\ stage[r] = "vendor"
  /\ GoTo(r, "waiting")
  /\ UNCHANGED <<exchangeVars, offerVars, locals, jobs, history, faults>>

VendorOffers(r) ==
  /\ stage[r] = "vendor"
  /\ \E ids \in SUBSET {o \in Offer \ stored : Hash[o] \notin held[r]} :
       /\ stored' = stored \cup ids
       /\ found' = [found EXCEPT ![r] = ids]
  /\ GoTo(r, "preparing")
  /\ UNCHANGED <<exchangeVars, rejected, consented, loaded, held, approve, reject, jobs, history, faults>>

VendorOffersWithoutId(r) ==
  /\ stage[r] = "vendor"
  /\ AddState("OFFER_ID_UNDEFINED_ERROR")
  /\ GoTo(r, "error")
  /\ UNCHANGED <<offerIds, finalizedOfferIds, offerHashes, offerVars, locals, jobs, history, faults>>

\* findUniquePreparedOffers: not decided, not in the wallet, not among the
\* vendor's new ones, and of each content one.
Prepared(r) ==
  {o \in stored \ (consented \cup rejected) :
     /\ Hash[o] \notin held[r] \cup {Hash[p] : p \in found[r]}
     /\ OfferMode = "legacy" => o \notin Preloaded}

UniquePrepared(r) ==
  {offers \in SUBSET Prepared(r) :
     /\ {Hash[o] : o \in offers} = {Hash[o] : o \in Prepared(r)}
     /\ \A o, p \in offers : Hash[o] = Hash[p] => o = p}

FindPreparedOffers(r) ==
  /\ stage[r] = "preparing"
  /\ IF SkipPreparedOffers(r)
       THEN UNCHANGED found
       ELSE \E offers \in UniquePrepared(r) :
              found' = [found EXCEPT ![r] = @ \cup offers]
  /\ GoTo(r, "sending")
  /\ UNCHANGED <<exchangeVars, offerVars, loaded, held, approve, reject, jobs, history, faults>>

OffersSent(r) ==
  /\ stage[r] = "sending"
  /\ AddState("OFFERS_SENT")
  /\ offerIds' = found[r]
  /\ sent' = sent \cup found[r]
  /\ End(r, "done")
  /\ UNCHANGED <<finalizedOfferIds, offerHashes, offerVars, jobs, issued, answered, faults>>

OffersWaitingOnVendor(r) ==
  /\ stage[r] = "waiting"
  /\ AddState("OFFERS_WAITING_ON_VENDOR")
  /\ offerHashes' = held[r]
  /\ End(r, "done")
  /\ UNCHANGED <<offerIds, finalizedOfferIds, offerVars, jobs, history, faults>>

-----------------------------------------------------------------------------
(***************************************************************************)
(* The wallet: finalize-offers.                                            *)
(***************************************************************************)

FinalizeOffersUnfiltered(r) ==   \* mutant: no filterObjectIds
  /\ "finalize-offers" \in Handler
  /\ Load(r)
  /\ \E approved, declined \in SUBSET stored :
       /\ approve' = [approve EXCEPT ![r] = approved]
       /\ reject' = [reject EXCEPT ![r] = declined]
  /\ EnterIfValid(r, "claiming")
  /\ UNCHANGED <<exchangeVars, offerVars, held, found, jobs, history, faults>>

\* filterObjectIds keeps the ids that exchange.offerIds has.
FinalizeOffers(r) ==
  /\ "finalize-offers" \in Handler
  /\ Load(r)
  /\ \E approved, declined \in SUBSET offerIds :
       /\ approve' = [approve EXCEPT ![r] = approved]
       /\ reject' = [reject EXCEPT ![r] = declined]
  /\ EnterIfValid(r, "claiming")
  /\ UNCHANGED <<exchangeVars, offerVars, held, found, jobs, history, faults>>

ClaimingInProgress(r) ==
  /\ stage[r] = "claiming"
  /\ AddState("CLAIMING_IN_PROGRESS")
  /\ GoTo(r, "rejecting")
  /\ UNCHANGED <<offerIds, finalizedOfferIds, offerHashes, offerVars, locals, jobs, history, faults>>

RejectOffers(r) ==
  /\ stage[r] = "rejecting"
  /\ rejected' = rejected \cup reject[r]
  /\ GoTo(r, "approving")
  /\ UNCHANGED <<exchangeVars, stored, consented, locals, jobs, history, faults>>

ApproveUnchecked(r) ==   \* mutant: no checkOffersToBeApproved
  /\ stage[r] = "approving"
  /\ GoTo(r, IF approve[r] = {} THEN "finalizing" ELSE "issuing")
  /\ UNCHANGED <<exchangeVars, offerVars, locals, jobs, history, faults>>

\* findUnexpiredOffersById and checkOffersToBeApproved
CheckOffersToBeApproved(r) ==
  /\ stage[r] = "approving"
  /\ GoTo(r, IF approve[r] = {} THEN "finalizing"
             ELSE IF approve[r] \cap rejected # {} THEN "error"
             ELSE "issuing")
  /\ UNCHANGED <<exchangeVars, offerVars, locals, jobs, history, faults>>

\* issueVelocityVerifiableCredentials returned; then one approveOffer each.
IssueCredentials(r) ==
  /\ stage[r] = "issuing"
  /\ issued' = [o \in Offer |-> IF o \in approve[r] THEN issued[o] + 1 ELSE issued[o]]
  /\ jobs' = [jobs EXCEPT ![r] = approve[r]]
  /\ GoTo(r, "updating")
  /\ UNCHANGED <<exchangeVars, offerVars, locals, sent, answered, faults>>

ApproveOffer(r, o) ==
  /\ o \in jobs[r]
  /\ consented' = consented \cup {o}
  /\ jobs' = [jobs EXCEPT ![r] = @ \ {o}]
  /\ UNCHANGED <<exchangeVars, stored, rejected, stage, locals, history, faults>>

OffersApprovedUnawaited(r) ==   \* mutant: approveOffer's promises not awaited
  /\ stage[r] = "updating"
  /\ GoTo(r, "finalizing")
  /\ UNCHANGED <<exchangeVars, offerVars, locals, jobs, history, faults>>

OffersApproved(r) ==
  /\ stage[r] = "updating"
  /\ jobs[r] = {}
  /\ GoTo(r, "finalizing")
  /\ UNCHANGED <<exchangeVars, offerVars, locals, jobs, history, faults>>

FinalizeForgetting(r) ==   \* mutant: earlier finalizedOfferIds not concatenated
  LET finalized == approve[r] \cup reject[r] IN
    /\ stage[r] = "finalizing"
    /\ finalizedOfferIds' = finalized
    /\ IF loaded[r].offerIds \subseteq finalized THEN AddState("COMPLETE")
                                                 ELSE UNCHANGED events
    /\ answered' = answered \cup approve[r] \cup reject[r]
    /\ End(r, "done")
    /\ UNCHANGED <<offerIds, offerHashes, offerVars, jobs, sent, issued, faults>>

\* finalizeExchange: what remains is what the copy's offerIds has and neither
\* the copy's finalizedOfferIds nor this request decided.
FinalizeExchange(r) ==
  LET finalized == loaded[r].finalizedOfferIds \cup approve[r] \cup reject[r] IN
    /\ stage[r] = "finalizing"
    /\ finalizedOfferIds' = finalized
    /\ IF loaded[r].offerIds \subseteq finalized THEN AddState("COMPLETE")
                                                 ELSE UNCHANGED events
    /\ answered' = answered \cup approve[r] \cup reject[r]
    /\ End(r, "done")
    /\ UNCHANGED <<offerIds, offerHashes, offerVars, jobs, sent, issued, faults>>

-----------------------------------------------------------------------------
(***************************************************************************)
(* The vendor: offers and offers/complete.                                 *)
(***************************************************************************)
PostOffer(r) ==
  /\ "offers" \in Handler
  /\ Load(r)
  /\ GoTo(r, "inserting")
  /\ UNCHANGED <<exchangeVars, offerVars, held, approve, reject, found, jobs, history, faults>>

\* An invalid offer, and one of a content the wallet said it has, is refused.
InsertOffer(r) ==
  /\ stage[r] = "inserting"
  /\ \/ UNCHANGED stored
     \/ \E o \in Offer \ stored : /\ Hash[o] \notin loaded[r].offerHashes
                                 /\ stored' = stored \cup {o}
  /\ End(r, "done")
  /\ UNCHANGED <<exchangeVars, rejected, consented, jobs, history, faults>>

CompleteOffers(r) ==
  /\ "offers/complete" \in Handler
  /\ Load(r)
  /\ GoTo(r, "finding")
  /\ UNCHANGED <<exchangeVars, offerVars, held, approve, reject, found, jobs, history, faults>>

FindOffersOfExchange(r) ==
  /\ stage[r] = "finding"
  /\ GoTo(r, IF stored \ Preloaded = {} THEN "noOffers" ELSE "receiving")
  /\ UNCHANGED <<exchangeVars, offerVars, locals, jobs, history, faults>>

OffersReceived(r) ==
  /\ stage[r] = "receiving"
  /\ AddState("OFFERS_RECEIVED")
  /\ End(r, "done")
  /\ UNCHANGED <<offerIds, finalizedOfferIds, offerHashes, offerVars, jobs, history, faults>>

NoOffersReceived(r) ==
  /\ stage[r] = "noOffers"
  /\ AddState("NO_OFFERS_RECEIVED")
  /\ GoTo(r, "completing")
  /\ UNCHANGED <<offerIds, finalizedOfferIds, offerHashes, offerVars, locals, jobs, history, faults>>

CompleteExchange(r) ==
  /\ stage[r] = "completing"
  /\ AddState("COMPLETE")
  /\ End(r, "done")
  /\ UNCHANGED <<offerIds, finalizedOfferIds, offerHashes, offerVars, jobs, history, faults>>

-----------------------------------------------------------------------------
(***************************************************************************)
(* Errors.  exchangeErrorHandlerPlugin is registered for the wallet's      *)
(* routes; its own error is only logged.                                   *)
(***************************************************************************)
Throws(r) ==
  /\ stage[r] \in HolderStage \cup OperatorStage
  /\ Fault
  /\ IF stage[r] \in HolderStage THEN GoTo(r, "error") /\ UNCHANGED locals
                                 ELSE End(r, "failed")
  /\ UNCHANGED <<exchangeVars, offerVars, jobs, history>>

OnError(r) ==
  /\ stage[r] = "error"
  /\ \/ AddState("UNEXPECTED_ERROR") /\ UNCHANGED faults
     \/ Fault /\ UNCHANGED events
  /\ End(r, "failed")
  /\ UNCHANGED <<offerIds, finalizedOfferIds, offerHashes, offerVars, jobs, history>>

Crash(r) ==
  /\ r \in InFlight
  /\ Fault
  /\ IF stage[r] \in Ended THEN UNCHANGED <<stage, locals>> ELSE End(r, "failed")
  /\ jobs' = [jobs EXCEPT ![r] = {}]
  /\ UNCHANGED <<exchangeVars, offerVars, history>>

Begin(r) == \/ CredentialOffers(r) \/ FinalizeOffers(r)
            \/ PostOffer(r) \/ CompleteOffers(r)

Step(r) == \/ OffersRequested(r) \/ VendorAnswersLater(r) \/ VendorOffers(r)
           \/ VendorOffersWithoutId(r)
           \/ FindPreparedOffers(r) \/ OffersSent(r) \/ OffersWaitingOnVendor(r)
           \/ ClaimingInProgress(r) \/ RejectOffers(r)
           \/ CheckOffersToBeApproved(r) \/ IssueCredentials(r)
           \/ (\E o \in Offer : ApproveOffer(r, o)) \/ OffersApproved(r)
           \/ FinalizeExchange(r)
           \/ InsertOffer(r) \/ FindOffersOfExchange(r) \/ OffersReceived(r)
           \/ NoOffersReceived(r) \/ CompleteExchange(r)
           \/ OnError(r)

Finished == /\ InFlight = {}
            /\ \A r \in Request : stage[r] \in Ended
            /\ UNCHANGED vars

Next == \/ \E r \in Request : Begin(r) \/ Step(r) \/ Throws(r) \/ Crash(r)
        \/ Finished

Spec == Init /\ [][Next]_vars
FairSpec == Spec /\ \A r \in Request : WF_vars(Step(r))

-----------------------------------------------------------------------------
(***************************************************************************)
(* Properties.                                                             *)
(***************************************************************************)

\* The documents and the handlers' local variables keep their shape, and
\* what a request has in hand exists.
TypeOK ==
  /\ events \subseteq State
  /\ offerIds \subseteq stored
  /\ finalizedOfferIds \subseteq Offer
  /\ offerHashes \subseteq Content
  /\ stored \subseteq Offer /\ rejected \subseteq Offer /\ consented \subseteq Offer
  /\ stage \in [Request -> Stage]
  /\ loaded \in [Request -> [events : SUBSET State, offerIds : SUBSET Offer,
                    finalizedOfferIds : SUBSET Offer, offerHashes : SUBSET Content]]
  /\ held \in [Request -> SUBSET Content]
  /\ approve \in [Request -> SUBSET Offer] /\ reject \in [Request -> SUBSET Offer]
  /\ found \in [Request -> SUBSET stored]
  /\ jobs \in [Request -> SUBSET Offer]
  /\ sent \subseteq stored
  /\ issued \in [Offer -> Nat]
  /\ answered \subseteq Offer
  /\ faults \in Nat

\* However requests overlap, fail and are retried, offers live as OfferLife
\* says: nothing is rejected or issued that was not sent to the wallet, and
\* consentedAt is only set on what was issued.
Life == INSTANCE OfferLife
ImplementsOfferLife == Life!Spec

\* An id in the exchange's finalizedOfferIds was decided: the exchange never
\* counts an offer whose rejection or approval failed or is still under way.
FinalizedAreDecided == finalizedOfferIds \subseteq consented \cup rejected

\* Of requests one at a time: once the wallet has got an answer to
\* its decision on every offer it was sent, the exchange is complete.
CompleteWhenAnswered ==
  (InFlight = {} /\ offerIds # {} /\ offerIds \subseteq answered)
    => "COMPLETE" \in events

\* Of requests one at a time: unless the vendor had no offers, an
\* exchange is complete only if every offer the wallet was last sent was decided.
CompleteIsJustified ==
  ("COMPLETE" \in events /\ "NO_OFFERS_RECEIVED" \notin events)
    => offerIds \subseteq consented \cup rejected
=============================================================================
