------------------------ MODULE PresentationExchange ------------------------
(***************************************************************************)
(* submit-presentation and submit-identification of a relying party's      *)
(* credential agent: one exchange, the presentations wallets submit to it, *)
(* and the checks of their credentials, among them whether the issuer's    *)
(* agent (CredentialRevocation) has revoked them on the ledger.            *)
(*                                                                         *)
(* A request loads the exchange before it starts and keeps that copy; the  *)
(* duplicate check alone is one atomic update.  Outside the model: the     *)
(* signatures, the issuer and holder checks and the expiry of credentials, *)
(* the user record, the feed, the access token and the wallet's push.      *)
(***************************************************************************)
EXTENDS Sequences, CredentialRevocation

CONSTANTS
  PresentationId,  \* ids of presentations
  Contains,        \* the credentials in each
  Submission,      \* submit requests
  SubmittedBy,     \* the presentation of each
  Endpoints,       \* vendorEndpoint of the exchange's disclosure, one of these
  NoId,            \* the exchange has no presentationId yet
  AutoIdentityCheck  \* config: identify by credentials that pass every check only

VendorEndpoint == {"RECEIVE_UNCHECKED_CREDENTIALS", "RECEIVE_CHECKED_CREDENTIALS",
                   "ISSUING_IDENTIFICATION", "INTEGRATED_ISSUING_IDENTIFICATION"}

ASSUME SubmissionAssumption ==
  /\ Contains \in [PresentationId -> SUBSET Credential]
  /\ SubmittedBy \in [Submission -> PresentationId]
  /\ NoId \notin PresentationId
  /\ Endpoints \subseteq VendorEndpoint
  /\ AutoIdentityCheck \in BOOLEAN

VARIABLES
  vendorEndpoint,  \* of the exchange's disclosure
  presentationId,  \* of the exchange: the last presentation received
  events,          \* of the exchange: the states that were added
  step,            \* how far each submission is
  statuses,        \* the credential statuses each has read, by credential
  keys,            \* what resolving the credentials' keys gave each
  received,        \* history: submissions that passed the duplicate check, in order
  delivered,       \* history: submissions whose credentials the vendor was sent,
                   \* or that identified a user
  answeredBefore,  \* history: the credentials whose revocation had been answered
                   \* when each was received
  stranded         \* history: received submissions that ended without a state

exchange == <<vendorEndpoint, presentationId, events, step, statuses, keys, received,
              delivered, answeredBefore, stranded>>

Presented(s) == Contains[SubmittedBy[s]]
IsIssuingDisclosure == vendorEndpoint \in {"ISSUING_IDENTIFICATION",
                                           "INTEGRATED_ISSUING_IDENTIFICATION"}
CompletionState == IF IsIssuingDisclosure THEN "IDENTIFIED" ELSE "COMPLETE"

ExchangeInit ==
  /\ vendorEndpoint \in Endpoints
  /\ presentationId = NoId
  /\ events = {"NEW"}
  /\ step = [s \in Submission |-> "new"]
  /\ statuses = [s \in Submission |-> [c \in Credential |-> "NONE"]]
  /\ keys = [s \in Submission |-> "NONE"]
  /\ received = <<>>
  /\ delivered = {}
  /\ answeredBefore = [s \in Submission |-> {}]
  /\ stranded = {}

Init == RevocationInit /\ ExchangeInit

\* What every step of this agent leaves alone in the issuer's.
IssuerUnchanged == UNCHANGED <<lists, revokedAt, notifiedOfRevocationAt, pushed, stage,
                               revoked, answered, cutShort>>

\* The submission goes on, and its state is added to the exchange.
Goes(s, to, states) ==
  /\ step' = [step EXCEPT ![s] = to]
  /\ events' = events \cup states

\* What only some steps change.
ReceiptUnchanged == UNCHANGED <<presentationId, received, answeredBefore>>
ChecksUnchanged == UNCHANGED <<statuses, keys>>

Received(s) == \E i \in DOMAIN received : received[i] = s

\* exchangeLoader and ensureExchangeStateValid, on the copy; 400 otherwise.
LoadExchange(s) ==
  /\ step[s] = "new"
  /\ Goes(s, IF "COMPLETE" \in events THEN "unexpectedError" ELSE "loaded", {})
  /\ NoFault
  /\ ReceiptUnchanged /\ ChecksUnchanged /\ IssuerUnchanged
  /\ UNCHANGED <<vendorEndpoint, delivered, stranded>>

Receive(s) ==
  /\ presentationId' = SubmittedBy[s]
  /\ Goes(s, "received", {"DISCLOSURE_RECEIVED"})
  /\ received' = Append(received, s)
  /\ answeredBefore' = [answeredBefore EXCEPT ![s] = answered]

AlwaysReceive(s) ==   \* mutant: an update without the presentationId in its filter
  /\ step[s] = "loaded"
  /\ NoFault
  /\ Receive(s)
  /\ ChecksUnchanged /\ IssuerUnchanged
  /\ UNCHANGED <<vendorEndpoint, delivered, stranded>>

\* deduplicateDisclosureExchange: one updateOne; 409 adds no state.
Deduplicate(s) ==
  /\ step[s] = "loaded"
  /\ NoFault
  /\ IF presentationId # SubmittedBy[s]
     THEN Receive(s)
     ELSE Goes(s, "refused", {}) /\ ReceiptUnchanged
  /\ ChecksUnchanged /\ IssuerUnchanged
  /\ UNCHANGED <<vendorEndpoint, delivered, stranded>>

\* The vendor gets the credentials as they are.
AddUnchecked(s) ==
  /\ step[s] = "received"
  /\ vendorEndpoint = "RECEIVE_UNCHECKED_CREDENTIALS"
  /\ Goes(s, "send", {"DISCLOSURE_UNCHECKED"})
  /\ NoFault
  /\ ReceiptUnchanged /\ ChecksUnchanged /\ IssuerUnchanged
  /\ UNCHANGED <<vendorEndpoint, delivered, stranded>>

\* verifyCredentials reads the keys and each status at a time of its own; an error of
\* either is a result, not a failure (no vouchers left, no document, no ledger).
ResolveKeys(s) ==
  /\ step[s] = "received"
  /\ vendorEndpoint # "RECEIVE_UNCHECKED_CREDENTIALS"
  /\ keys[s] = "NONE"
  /\ \/ keys' = [keys EXCEPT ![s] = "RESOLVED"] /\ NoFault
     \/ keys' = [keys EXCEPT ![s] = "ERROR"] /\ Fault
  /\ ReceiptUnchanged /\ IssuerUnchanged
  /\ UNCHANGED <<vendorEndpoint, events, step, statuses, delivered, stranded>>

ResolveStatus(s, c) ==
  /\ step[s] = "received"
  /\ vendorEndpoint # "RECEIVE_UNCHECKED_CREDENTIALS"
  /\ c \in Presented(s)
  /\ statuses[s][c] = "NONE"
  /\ \/ /\ statuses' = [statuses EXCEPT ![s][c] =
                          IF RevokedStatus(c) THEN "REVOKED" ELSE "UNREVOKED"]
        /\ NoFault
     \/ statuses' = [statuses EXCEPT ![s][c] = "DEPENDENCY_RESOLUTION_ERROR"] /\ Fault
  /\ ReceiptUnchanged /\ IssuerUnchanged
  /\ UNCHANGED <<vendorEndpoint, events, step, keys, delivered, stranded>>

\* The credentials whose UNREVOKED check is PASS: runTamperingCheck comes first.
Passed(s) == {c \in Presented(s) : keys[s] = "RESOLVED" /\ statuses[s][c] = "UNREVOKED"}

\* Inspection sends what was checked to the vendor, issuing identifies the user.
AddChecked(s) ==
  /\ step[s] = "received"
  /\ vendorEndpoint # "RECEIVE_UNCHECKED_CREDENTIALS"
  /\ keys[s] # "NONE"
  /\ \A c \in Presented(s) : statuses[s][c] # "NONE"
  /\ Goes(s, IF IsIssuingDisclosure THEN "identify" ELSE "send", {"DISCLOSURE_CHECKED"})
  /\ NoFault
  /\ ReceiptUnchanged /\ ChecksUnchanged /\ IssuerUnchanged
  /\ UNCHANGED <<vendorEndpoint, delivered, stranded>>

\* sendCredentials; when its answer is lost the vendor has them all the same.
SendCredentials(s) ==
  /\ step[s] = "send"
  /\ \/ NoFault /\ Goes(s, "complete", {})
     \/ Fault /\ Goes(s, "unexpectedError", {})
  /\ delivered' = delivered \cup {s}
  /\ ReceiptUnchanged /\ ChecksUnchanged /\ IssuerUnchanged
  /\ UNCHANGED <<vendorEndpoint, stranded>>

\* shareIdentificationCredentials: the vendor, or the values stored with an exchange,
\* know the user or do not; 401 otherwise.
Identify(s) ==
  /\ step[s] = "identify"
  /\ NoFault
  /\ \/ /\ AutoIdentityCheck => Passed(s) = Presented(s)
        /\ delivered' = delivered \cup {s}
        /\ Goes(s, "complete", {})
     \/ /\ delivered' = delivered
        /\ Goes(s, "notIdentified", {})
  /\ ReceiptUnchanged /\ ChecksUnchanged /\ IssuerUnchanged
  /\ UNCHANGED <<vendorEndpoint, stranded>>

\* The user's record is found or inserted, and the last state added.
Complete(s) ==
  /\ step[s] = "complete"
  /\ NoFault
  /\ Goes(s, "done", {CompletionState})
  /\ ReceiptUnchanged /\ ChecksUnchanged /\ IssuerUnchanged
  /\ UNCHANGED <<vendorEndpoint, delivered, stranded>>

ErrorState(s) == IF step[s] = "notIdentified" THEN "NOT_IDENTIFIED" ELSE "UNEXPECTED_ERROR"
Strand(failed) == stranded' = stranded \cup {s \in failed : Received(s)}

UnauthorizedIsNoError(s) ==   \* mutant: 401 is left out like 409
  /\ step[s] \in {"unexpectedError", "notIdentified"}
  /\ NoFault
  /\ Goes(s, "failed", IF step[s] = "notIdentified" THEN {} ELSE {ErrorState(s)})
  /\ ReceiptUnchanged /\ ChecksUnchanged /\ IssuerUnchanged
  /\ UNCHANGED <<vendorEndpoint, delivered, stranded>>

\* exchangeErrorHandlerPlugin: an error of its own is only logged.
HandleError(s) ==
  /\ step[s] \in {"unexpectedError", "notIdentified"}
  /\ \/ NoFault /\ Goes(s, "failed", {ErrorState(s)}) /\ UNCHANGED stranded
     \/ Fault /\ Goes(s, "failed", {}) /\ Strand({s})
  /\ ReceiptUnchanged /\ ChecksUnchanged /\ IssuerUnchanged
  /\ UNCHANGED <<vendorEndpoint, delivered>>

\* MongoDB or the vendor fails one request.
SubmissionFails(s) ==
  /\ step[s] \in {"loaded", "received", "send", "identify", "complete"}
  /\ Fault
  /\ Goes(s, "unexpectedError", {})
  /\ ReceiptUnchanged /\ ChecksUnchanged /\ IssuerUnchanged
  /\ UNCHANGED <<vendorEndpoint, delivered, stranded>>

Ended == {"new", "refused", "done", "failed"}

\* The relying party's agent stops; nothing resumes a request.
AgentCrash ==
  LET inFlight == {s \in Submission : step[s] \notin Ended} IN
  /\ inFlight # {}
  /\ Fault
  /\ step' = [s \in Submission |-> IF s \in inFlight THEN "failed" ELSE step[s]]
  /\ Strand(inFlight)
  /\ ReceiptUnchanged /\ ChecksUnchanged /\ IssuerUnchanged
  /\ UNCHANGED <<vendorEndpoint, events, delivered>>

Submit(s) ==
  \/ LoadExchange(s) \/ Deduplicate(s) \/ AddUnchecked(s)
  \/ ResolveKeys(s) \/ (\E c \in Credential : ResolveStatus(s, c)) \/ AddChecked(s)
  \/ SendCredentials(s) \/ Identify(s) \/ Complete(s) \/ HandleError(s)

ExchangeNext == (\E s \in Submission : Submit(s) \/ SubmissionFails(s)) \/ AgentCrash

vars == <<revocation, exchange>>

\* Every request is over.
Finished ==
  /\ \A r \in Revocation : stage[r] \in {"done", "failed"}
  /\ \A s \in Submission : step[s] \in Ended \ {"new"}
  /\ UNCHANGED vars

Next == ExchangeNext \/ (RevocationNext /\ UNCHANGED exchange) \/ Finished

Spec == Init /\ [][Next]_vars

\* Every variable has values of its type.
TypeOK ==
  /\ RevocationTypeOK
  /\ vendorEndpoint \in Endpoints
  /\ presentationId \in PresentationId \cup {NoId}
  /\ events \subseteq {"NEW", "DISCLOSURE_RECEIVED", "DISCLOSURE_CHECKED",
                       "DISCLOSURE_UNCHECKED", "COMPLETE", "IDENTIFIED",
                       "NOT_IDENTIFIED", "UNEXPECTED_ERROR"}
  /\ step \in [Submission -> Ended \cup {"loaded", "received", "send", "identify", "complete",
                                         "unexpectedError", "notIdentified"}]
  /\ statuses \in [Submission -> [Credential -> {"NONE", "REVOKED", "UNREVOKED",
                                                 "DEPENDENCY_RESOLUTION_ERROR"}]]
  /\ keys \in [Submission -> {"NONE", "RESOLVED", "ERROR"}]
  /\ received \in Seq(Submission)
  /\ delivered \subseteq Submission
  /\ answeredBefore \in [Submission -> SUBSET Credential]
  /\ stranded \subseteq Submission

\* Once a revoke request was answered 200, a presentation received later never reaches
\* the vendor with that credential's UNREVOKED check passed, and identifies nobody
\* when all checks must pass.  It takes two agents, the ledger, the copy of the offer
\* revoke looks at, and any failures and retries of it in between.
RevocationsAreSeen ==
  \A s \in delivered :
    /\ vendorEndpoint # "RECEIVE_UNCHECKED_CREDENTIALS" =>
         Passed(s) \cap answeredBefore[s] = {}
    /\ IsIssuingDisclosure /\ AutoIdentityCheck =>
         Presented(s) \cap answeredBefore[s] = {}

\* The vendor is sent a presentation twice only if the exchange received another one
\* in between, whatever submissions of it overlap: deduplication compares with the
\* last presentation, in the update that replaces it.
RepeatsAreApart ==
  \A i, j \in DOMAIN received :
    (i < j /\ SubmittedBy[received[i]] = SubmittedBy[received[j]]) =>
      \E k \in (i + 1)..(j - 1) : SubmittedBy[received[k]] # SubmittedBy[received[i]]

\* The wallet that asks for the exchange's progress sees an end: a received submission
\* that is over has left a completion or an error state, unless the agent stopped or
\* the error state could not be written.
SubmissionsLeaveAnEnd ==
  \A s \in Submission : (Received(s) /\ step[s] \in {"done", "failed"}) =>
    s \in stranded \/ events \cap {"COMPLETE", "IDENTIFIED", "NOT_IDENTIFIED",
                                   "UNEXPECTED_ERROR"} # {}

\* An exchange is complete, or its user identified, only if the vendor was sent the
\* credentials of, or the user was identified by, a submission that was received.
CompleteIsDelivered ==
  events \cap {"COMPLETE", "IDENTIFIED"} # {} =>
    \E s \in delivered : Received(s) /\ step[s] = "done"
=============================================================================
