-------------------------- MODULE CredentialIssuing --------------------------
(***************************************************************************)
(* packages/velocity-issuing: issueVelocityVerifiableCredentials and what  *)
(* it calls.  Every request takes one entry of a revocation list and one   *)
(* entry of a metadata list for each of its offers out of MongoDB, builds  *)
(* the credentials, then creates on the ledger the lists it was the first  *)
(* to allocate from, then anchors the metadata entries, and only then      *)
(* returns the credentials.                                                *)
(*                                                                         *)
(* All the requests belong to one issuer (one tenant, one operator, one    *)
(* primary), the unit the allocation documents and the ledger's lists are  *)
(* keyed by.  They run concurrently, in one agent process or in several;   *)
(* every MongoDB command and every transaction is one step.                *)
(***************************************************************************)
EXTENDS Naturals, Sequences, FiniteSets

CONSTANTS
  Request,            \* calls of issueVelocityVerifiableCredentials
  ListId,             \* the random list ids the requests draw, all different
  NOffers,            \* offers per request
  RevocationListSize, \* REVOCATION_LIST_SIZE, 10240 in the code
  MetadataListSize,   \* METADATA_LIST_SIZE, 10000 in the code
  MaxInFlight,        \* bound: requests running at the same time
  MaxFaults           \* bound: errors and crashes of the environment

ASSUME NOffersAssumption == NOffers \in Nat \ {0}
ASSUME ListSizeAssumption == /\ RevocationListSize \in Nat \ {0}
                             /\ MetadataListSize \in Nat \ {0}
ASSUME BoundsAssumption == MaxInFlight \in Nat /\ MaxFaults \in Nat

Revocation == "revocationListAllocations"
Metadata == "metadataListAllocations"
Entity == {Revocation, Metadata}

Index(e) == IF e = Revocation THEN 0 .. RevocationListSize - 1
                              ELSE 0 .. MetadataListSize - 1
AnyIndex == Index(Revocation) \cup Index(Metadata)
Entry == [listId : ListId, index : AnyIndex, isNewList : BOOLEAN]

Offer == 1 .. NOffers
Credential == Request \X Offer
NoCredential == <<>>

(***************************************************************************)
(* A job is a promise of one of the request's Promise.all calls: the       *)
(* creation of a list, or the anchoring of one credential.                 *)
(***************************************************************************)
JobStep == {"addRevocationList", "addWallet", "addRevocationListAgain",
            "newMetadataList", "isExistMetadataList"}
ListJob == [step : JobStep, listId : ListId]
EntryJob == [step : {"setEntry"}, offer : Offer]
Job == ListJob \cup EntryJob

Stage == {"idle", "allocating", "creating", "building", "revocationLists",
          "metadataLists", "anchoring", "returned", "failed", "crashed"}
Settled == {"returned", "failed", "crashed"}

VARIABLES
  \* MongoDB
  allocationLists,  \* entity -> list ids that have a document
  freeIndexes,      \* entity -> list id -> the document's freeIndexes
  \* the ledger, for the issuer's primary
  walletInRegistry, \* RevocationRegistry: registry[primary].walletInRegistry
  listIdUsage,      \* RevocationRegistry: ids of the existing lists
  lists,            \* MetadataRegistry: ids of the used lists
  indexUsed,        \* MetadataRegistry: list id -> index -> whose metadata
  \* the requests
  stage,
  entries,          \* entity -> request -> the entries allocated so far
  jobs,             \* promises started and not yet settled
  faults            \* faults of the environment so far

mongoVars == <<allocationLists, freeIndexes>>
ledgerVars == <<walletInRegistry, listIdUsage, lists, indexUsed>>
requestVars == <<stage, entries, jobs>>
vars == <<mongoVars, ledgerVars, requestVars, faults>>

Init ==
  /\ allocationLists = [e \in Entity |-> {}]
  /\ freeIndexes = [e \in Entity |-> [l \in ListId |-> {}]]
  /\ walletInRegistry = FALSE
  /\ listIdUsage = {}
  /\ lists = {}
  /\ indexUsed = [l \in ListId |-> [i \in Index(Metadata) |-> NoCredential]]
  /\ stage = [r \in Request |-> "idle"]
  /\ entries = [e \in Entity |-> [r \in Request |-> <<>>]]
  /\ jobs = [r \in Request |-> {}]
  /\ faults = 0

InFlight == {r \in Request : stage[r] \notin Settled \cup {"idle"}}

GoTo(r, s) == stage' = [stage EXCEPT ![r] = s]

Fault == faults < MaxFaults /\ faults' = faults + 1

-----------------------------------------------------------------------------
(***************************************************************************)
(* Allocation: one loop over the offers for revocation entries, then one   *)
(* for metadata entries.                                                   *)
(***************************************************************************)

\* The list the request's next entry is for: the first loop runs to its end
\* before the second starts.
NextEntityOffByOne(r) ==   \* mutant: i <= total
  IF Len(entries[Revocation][r]) <= NOffers THEN Revocation ELSE Metadata

NextEntity(r) == IF Len(entries[Revocation][r]) < NOffers THEN Revocation
                                                           ELSE Metadata

AllocatedAll(r) == /\ Len(entries[Revocation][r]) = NOffers
                   /\ Len(entries[Metadata][r]) = NOffers

TakeEntry(r, e, l, i, isNew) ==
  entries' = [entries EXCEPT ![e][r] =
                Append(@, [listId |-> l, index |-> i, isNewList |-> isNew])]

Begin(r) ==
  /\ stage[r] = "idle"
  /\ Cardinality(InFlight) < MaxInFlight
  /\ GoTo(r, "allocating")
  /\ UNCHANGED <<mongoVars, ledgerVars, entries, jobs, faults>>

\* findOneAndUpdate matches a document that has a free index, pops the first
\* one and returns the document as it was: the index returned is the one
\* popped.  The documents are filled in a random order, so any index may be
\* the first.
PopIndex(e, l, i) ==
  /\ i \in freeIndexes[e][l]
  /\ freeIndexes' = [freeIndexes EXCEPT ![e][l] = @ \ {i}]

AllocateNextEntry(r) ==
  /\ stage[r] = "allocating"
  /\ ~ AllocatedAll(r)
  /\ LET e == NextEntity(r) IN
       \E l \in allocationLists[e], i \in Index(e) :
         /\ PopIndex(e, l, i)
         /\ TakeEntry(r, e, l, i, FALSE)
  /\ UNCHANGED <<allocationLists, ledgerVars, stage, jobs, faults>>

\* Any error makes allocateListEntry create a list.  No document matched:
\* result.value is null and reading currentListId throws.
NoFreeIndex(r) ==
  /\ stage[r] = "allocating"
  /\ ~ AllocatedAll(r)
  /\ \A l \in allocationLists[NextEntity(r)] :
       freeIndexes[NextEntity(r)][l] = {}
  /\ GoTo(r, "creating")
  /\ UNCHANGED <<mongoVars, ledgerVars, entries, jobs, faults>>

\* The command fails, or its answer is lost after the index was popped.
AllocateNextEntryFails(r) ==
  /\ stage[r] = "allocating"
  /\ ~ AllocatedAll(r)
  /\ Fault
  /\ \/ UNCHANGED freeIndexes
     \/ LET e == NextEntity(r) IN
          \E l \in allocationLists[e], i \in Index(e) : PopIndex(e, l, i)
  /\ GoTo(r, "creating")
  /\ UNCHANGED <<allocationLists, ledgerVars, entries, jobs>>

InsertListWhole(e, l, i) ==   \* mutant: allocations, without slice(1)
  /\ l \notin allocationLists[e]
  /\ allocationLists' = [allocationLists EXCEPT ![e] = @ \cup {l}]
  /\ freeIndexes' = [freeIndexes EXCEPT ![e][l] = Index(e)]

InsertListSlicesTwo(e, l, i) ==   \* mutant: allocations.slice(2)
  /\ l \notin allocationLists[e]
  /\ allocationLists' = [allocationLists EXCEPT ![e] = @ \cup {l}]
  /\ \E j \in Index(e) :
       freeIndexes' = [freeIndexes EXCEPT ![e][l] = Index(e) \ {i, j}]

InsertList(e, l, i) ==
  /\ l \notin allocationLists[e]
  /\ allocationLists' = [allocationLists EXCEPT ![e] = @ \cup {l}]
  /\ freeIndexes' = [freeIndexes EXCEPT ![e][l] = Index(e) \ {i}]

CreateNewAllocationList(r) ==
  /\ stage[r] = "creating"
  /\ LET e == NextEntity(r) IN
       \E l \in ListId, i \in Index(e) :
         /\ InsertList(e, l, i)
         /\ TakeEntry(r, e, l, i, TRUE)
  /\ GoTo(r, "allocating")
  /\ UNCHANGED <<ledgerVars, jobs, faults>>

\* insertOne throws out of the whole call, the document inserted or not.
CreateNewAllocationListFails(r) ==
  /\ stage[r] = "creating"
  /\ Fault
  /\ \/ UNCHANGED mongoVars
     \/ LET e == NextEntity(r) IN
          \E l \in ListId, i \in Index(e) : InsertList(e, l, i)
  /\ GoTo(r, "failed")
  /\ UNCHANGED <<ledgerVars, entries, jobs>>

Allocated(r) ==
  /\ stage[r] = "allocating"
  /\ AllocatedAll(r)
  /\ GoTo(r, "building")
  /\ UNCHANGED <<mongoVars, ledgerVars, entries, jobs, faults>>

-----------------------------------------------------------------------------
(***************************************************************************)
(* The three Promise.all calls.  A stage ends when all its jobs have       *)
(* succeeded; the first that is rejected fails the request, while the      *)
(* others go on.                                                           *)
(***************************************************************************)

NewLists(e, r) == {entries[e][r][k].listId :
                     k \in {j \in DOMAIN entries[e][r] : entries[e][r][j].isNewList}}

ListJobs(s, ids) == {[step |-> s, listId |-> l] : l \in ids}

BuildWithoutLists(r) ==   \* mutant: isNewList ignored
  /\ stage[r] = "building"
  /\ GoTo(r, "revocationLists")
  /\ UNCHANGED <<mongoVars, ledgerVars, entries, jobs, faults>>

\* buildVerifiableCredentials writes nothing; then createRevocationList is
\* called for the entries that opened a list.
BuildVerifiableCredentials(r) ==
  /\ stage[r] = "building"
  /\ GoTo(r, "revocationLists")
  /\ jobs' = [jobs EXCEPT ![r] =
                ListJobs("addRevocationList", NewLists(Revocation, r))]
  /\ UNCHANGED <<mongoVars, ledgerVars, entries, faults>>

RevocationListsCreated(r) ==
  /\ stage[r] = "revocationLists"
  /\ jobs[r] = {}
  /\ GoTo(r, "metadataLists")
  /\ jobs' = [jobs EXCEPT ![r] =
                ListJobs("newMetadataList", NewLists(Metadata, r))]
  /\ UNCHANGED <<mongoVars, ledgerVars, entries, faults>>

MetadataListsCreated(r) ==
  /\ stage[r] = "metadataLists"
  /\ jobs[r] = {}
  /\ GoTo(r, "anchoring")
  /\ jobs' = [jobs EXCEPT ![r] =
                {[step |-> "setEntry", offer |-> k] : k \in Offer}]
  /\ UNCHANGED <<mongoVars, ledgerVars, entries, faults>>

ReturnUnawaited(r) ==   \* mutant: addEntry's promises not awaited
  /\ stage[r] = "anchoring"
  /\ GoTo(r, "returned")
  /\ UNCHANGED <<mongoVars, ledgerVars, entries, jobs, faults>>

Return(r) ==
  /\ stage[r] = "anchoring"
  /\ jobs[r] = {}
  /\ GoTo(r, "returned")
  /\ UNCHANGED <<mongoVars, ledgerVars, entries, jobs, faults>>

\* Between two ledger stages the code signs with the KMS and builds clients,
\* which may throw.
Throws(r) ==
  /\ \/ stage[r] = "building"
     \/ stage[r] = "revocationLists" /\ jobs[r] = {}
  /\ Fault
  /\ GoTo(r, "failed")
  /\ UNCHANGED <<mongoVars, ledgerVars, entries, jobs>>

\* The process that serves the request stops: its promises go with it, what
\* MongoDB and the ledger hold stays.
Crash(r) ==
  /\ r \in InFlight \/ jobs[r] # {}
  /\ Fault
  /\ GoTo(r, IF r \in InFlight THEN "crashed" ELSE stage[r])
  /\ jobs' = [jobs EXCEPT ![r] = {}]
  /\ UNCHANGED <<mongoVars, ledgerVars, entries>>

-----------------------------------------------------------------------------
(***************************************************************************)
(* Transactions.  One whose requirements hold is mined, one whose          *)
(* requirements fail is reverted, and either may end in an error of the    *)
(* RPC node instead: before it was sent ("lost") or after it was mined     *)
(* ("unconfirmed").                                                        *)
(***************************************************************************)
Outcomes(required) ==
  (IF required THEN {"mined"} ELSE {"reverted"})
    \cup (IF faults < MaxFaults THEN {"lost"} ELSE {})
    \cup (IF faults < MaxFaults /\ required THEN {"unconfirmed"} ELSE {})

Applied(outcome) == outcome \in {"mined", "unconfirmed"}
CountFault(outcome) ==
  faults' = IF outcome \in {"lost", "unconfirmed"} THEN faults + 1 ELSE faults

Resolve(r, job) == /\ jobs' = [jobs EXCEPT ![r] = @ \ {job}]
                   /\ UNCHANGED stage

Reject(r, job) == /\ jobs' = [jobs EXCEPT ![r] = @ \ {job}]
                  /\ GoTo(r, "failed")

Continue(r, job, s) ==
  /\ jobs' = [jobs EXCEPT ![r] = (@ \ {job}) \cup {[job EXCEPT !.step = s]}]
  /\ UNCHANGED stage

SettleRetries(r, job, outcome) ==   \* mutant: retried until it is mined
  IF outcome = "mined" THEN Resolve(r, job) ELSE UNCHANGED <<jobs, stage>>

Settle(r, job, outcome) == IF outcome = "mined" THEN Resolve(r, job)
                                                ELSE Reject(r, job)

AddRevocationListOnce(r, job) ==   \* mutant: no addWallet when it throws
  /\ job.step \in {"addRevocationList", "addRevocationListAgain"}
  /\ \E outcome \in Outcomes(walletInRegistry /\ job.listId \notin listIdUsage) :
       /\ listIdUsage' = IF Applied(outcome) THEN listIdUsage \cup {job.listId}
                                             ELSE listIdUsage
       /\ CountFault(outcome)
       /\ Settle(r, job, outcome)
  /\ UNCHANGED <<mongoVars, walletInRegistry, lists, indexUsed, entries>>

\* createRevocationList: when addRevocationListSigned throws, for whatever
\* reason, addWalletToRegistrySigned and addRevocationListSigned again.
AddRevocationList(r, job) ==
  /\ job.step \in {"addRevocationList", "addRevocationListAgain"}
  /\ \E outcome \in Outcomes(walletInRegistry /\ job.listId \notin listIdUsage) :
       /\ listIdUsage' = IF Applied(outcome) THEN listIdUsage \cup {job.listId}
                                             ELSE listIdUsage
       /\ CountFault(outcome)
       /\ IF outcome # "mined" /\ job.step = "addRevocationList"
            THEN Continue(r, job, "addWallet")
            ELSE Settle(r, job, outcome)
  /\ UNCHANGED <<mongoVars, walletInRegistry, lists, indexUsed, entries>>

AddWallet(r, job) ==
  /\ job.step = "addWallet"
  /\ \E outcome \in Outcomes(~ walletInRegistry) :
       /\ walletInRegistry' = (walletInRegistry \/ Applied(outcome))
       /\ CountFault(outcome)
       /\ IF outcome = "mined" THEN Continue(r, job, "addRevocationListAgain")
                               ELSE Reject(r, job)
  /\ UNCHANGED <<mongoVars, listIdUsage, lists, indexUsed, entries>>

\* createCredentialMetadataList: an error is swallowed when the list is there.
NewMetadataList(r, job) ==
  /\ job.step = "newMetadataList"
  /\ \E outcome \in Outcomes(job.listId \notin lists) :
       /\ lists' = IF Applied(outcome) THEN lists \cup {job.listId} ELSE lists
       /\ CountFault(outcome)
       /\ IF outcome = "mined" THEN Resolve(r, job)
                               ELSE Continue(r, job, "isExistMetadataList")
  /\ UNCHANGED <<mongoVars, walletInRegistry, listIdUsage, indexUsed, entries>>

IsExistMetadataList(r, job) ==
  /\ job.step = "isExistMetadataList"
  /\ \/ job.listId \in lists /\ Resolve(r, job) /\ UNCHANGED faults
     \/ job.listId \notin lists /\ Reject(r, job) /\ UNCHANGED faults
     \/ Fault /\ Reject(r, job)
  /\ UNCHANGED <<mongoVars, ledgerVars, entries>>

\* addCredentialMetadataEntry: the entry must be unused and its list there.
SetEntry(r, job) ==
  /\ job.step = "setEntry"
  /\ LET entry == entries[Metadata][r][job.offer]
         l == entry.listId
         i == entry.index
     IN \E outcome \in Outcomes(indexUsed[l][i] = NoCredential /\ l \in lists) :
          /\ indexUsed' = IF Applied(outcome)
                            THEN [indexUsed EXCEPT ![l][i] = <<r, job.offer>>]
                            ELSE indexUsed
          /\ CountFault(outcome)
          /\ Settle(r, job, outcome)
  /\ UNCHANGED <<mongoVars, walletInRegistry, listIdUsage, lists, entries>>

-----------------------------------------------------------------------------
RunJob(r) == \E job \in jobs[r] : \/ AddRevocationList(r, job)
                                  \/ AddWallet(r, job)
                                  \/ NewMetadataList(r, job)
                                  \/ IsExistMetadataList(r, job)
                                  \/ SetEntry(r, job)

Step(r) == \/ AllocateNextEntry(r)
           \/ NoFreeIndex(r)
           \/ CreateNewAllocationList(r)
           \/ Allocated(r)
           \/ BuildVerifiableCredentials(r)
           \/ RevocationListsCreated(r)
           \/ MetadataListsCreated(r)
           \/ Return(r)
           \/ RunJob(r)

Environment(r) == \/ AllocateNextEntryFails(r)
                  \/ CreateNewAllocationListFails(r)
                  \/ Throws(r)
                  \/ Crash(r)

\* Every request has settled and left no promise running.
Finished == /\ \A r \in Request : stage[r] \in Settled /\ jobs[r] = {}
            /\ UNCHANGED vars

Next == (\E r \in Request : Begin(r) \/ Step(r) \/ Environment(r)) \/ Finished

Spec == Init /\ [][Next]_vars

\* The Node.js event loop runs every continuation that is ready, MongoDB and
\* the RPC node answer or fail; whether a request comes is up to the holder.
FairSpec == Spec /\ \A r \in Request : WF_vars(Step(r))

-----------------------------------------------------------------------------
(***************************************************************************)
(* Properties.                                                             *)
(***************************************************************************)

\* The variables keep the shape of the documents, the contracts' mappings
\* and the local variables of the code.
TypeOK ==
  /\ allocationLists \in [Entity -> SUBSET ListId]
  /\ freeIndexes \in [Entity -> [ListId -> SUBSET AnyIndex]]
  /\ \A e \in Entity, l \in ListId : freeIndexes[e][l] \subseteq Index(e)
  /\ walletInRegistry \in BOOLEAN
  /\ listIdUsage \in SUBSET ListId
  /\ lists \in SUBSET ListId
  /\ indexUsed \in [ListId -> [Index(Metadata) -> Credential \cup {NoCredential}]]
  /\ stage \in [Request -> Stage]
  /\ entries \in [Entity -> [Request -> Seq(Entry)]]
  /\ \A e \in Entity, r \in Request :
       /\ Len(entries[e][r]) <= NOffers
       /\ \A k \in 1 .. Len(entries[e][r]) : entries[e][r][k].index \in Index(e)
  /\ jobs \in [Request -> SUBSET Job]
  /\ faults \in Nat

\* The position of an offer's entry in a list of the entity.
SlotOf(e, r, k) == <<entries[e][r][k].listId, entries[e][r][k].index>>

\* Two offers, of one request or of two running at once, never hold the same
\* index of the same list: allocateNextEntry's pop and returned pre-image,
\* and the first index createNewAllocationList keeps back, never overlap.
UniqueAllocation ==
  \A e \in Entity, r, q \in Request :
    \A k \in 1 .. Len(entries[e][r]), m \in 1 .. Len(entries[e][q]) :
      SlotOf(e, r, k) = SlotOf(e, q, m) => r = q /\ k = m

\* Why: an index an offer holds left its document for good, and documents are
\* inserted once.
AllocationInv ==
  /\ UniqueAllocation
  /\ \A e \in Entity, r \in Request : \A k \in 1 .. Len(entries[e][r]) :
       LET entry == entries[e][r][k] IN
         /\ entry.listId \in allocationLists[e]
         /\ entry.index \notin freeIndexes[e][entry.listId]

\* While MongoDB answers every command, every index of a list is either free
\* or held by the offer it was allocated to: no index is lost.
NoIndexLost ==
  faults = 0 =>
    \A e \in Entity : \A l \in allocationLists[e], i \in Index(e) :
      \/ i \in freeIndexes[e][l]
      \/ \E r \in Request : \E k \in 1 .. Len(entries[e][r]) :
           SlotOf(e, r, k) = <<l, i>>

\* The offer has its metadata, and no other, in its entry on the ledger.
AnchoredFor(r, k) ==
  LET entry == entries[Metadata][r][k] IN
    entry.listId \in lists /\ indexUsed[entry.listId][entry.index] = <<r, k>>

\* A request returns its credentials only when each one's own metadata is in
\* its own entry on the ledger, whatever else failed or was swallowed
\* (createCredentialMetadataList's catch) on the way.
IssuedIsAnchored ==
  \A r \in Request : stage[r] = "returned" =>
    \A k \in Offer : AnchoredFor(r, k)

\* Why: the stages follow the code, ...
StageInv == \A r \in Request :
  /\ stage[r] = "creating" => ~ AllocatedAll(r)
  /\ stage[r] \in {"building", "revocationLists", "metadataLists", "anchoring",
                   "returned"} => AllocatedAll(r)
  /\ \A job \in jobs[r] : job.step = "setEntry" => AllocatedAll(r)
  /\ stage[r] \in {"idle", "allocating", "creating", "building", "returned"}
       => jobs[r] = {}

\* ... the ledger's entries are written by the offers that hold them, and the
\* last stage keeps, for every offer, its job or its entry.
AnchorInv ==
  /\ \A l \in ListId, i \in Index(Metadata), r \in Request, k \in Offer :
       indexUsed[l][i] = <<r, k>> =>
         k <= Len(entries[Metadata][r]) /\ SlotOf(Metadata, r, k) = <<l, i>>
  /\ \A r \in Request, k \in Offer :
       /\ stage[r] = "anchoring" =>
            [step |-> "setEntry", offer |-> k] \in jobs[r] \/ AnchoredFor(r, k)
       /\ stage[r] = "returned" => AnchoredFor(r, k)

IInv == TypeOK /\ StageInv /\ AllocationInv /\ AnchorInv

\* While nothing fails, the credentials a request returned can be looked up and
\* revoked: their revocation lists exist on the ledger.  The code creates a
\* list in the request that first allocated from it; one that shares the list
\* does not wait for that.
IssuedHasRevocationList ==
  faults = 0 =>
    \A r \in Request : stage[r] = "returned" =>
      \A k \in Offer : entries[Revocation][r][k].listId \in listIdUsage

\* A request that meets no fault of its environment returns its credentials
\* (this is what running one request at a time gives).
NeverFailsUnprovoked ==
  faults = 0 => \A r \in Request : stage[r] # "failed"

\* Every request that begins returns, fails or dies with its process.
RequestsSettle ==
  \A r \in Request : stage[r] # "idle" ~> stage[r] \in Settled

\* The abstract ledger, read off the metadata entries and the contract.
MetadataSlot == ListId \X Index(Metadata)

ReservedSlots ==
  [c \in Credential |-> IF c[2] <= Len(entries[Metadata][c[1]])
                          THEN {SlotOf(Metadata, c[1], c[2])} ELSE {}]

AnchoredSlots == [s \in MetadataSlot |-> indexUsed[s[1]][s[2]]]

Delivered == {r \in Request : stage[r] = "returned"}

Ledger == INSTANCE CredentialLedger WITH
  Slot <- MetadataSlot, reserved <- ReservedSlots,
  anchored <- AnchoredSlots, delivered <- Delivered

\* Issuing implements the abstract ledger: one slot per credential, written
\* once, and delivered only when written.
ImplementsLedger == Ledger!Spec
=============================================================================
