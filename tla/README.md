# Velocity Core: TLA+ verification

Velocity Core is the JavaScript monorepo of the Velocity Network: the contracts,
the registrar of organizations, the credential agent that issues and verifies
credentials for a tenant, the packages they share and the clients they use.
This directory holds TLA+ modules of the parts whose correctness depends on the
order in which things happen, the TLC configurations that check them on small
instances, and proofs that TLAPS checks.

## 1. The system

| Part | State | Operations | Talks to |
|---|---|---|---|
| `packages/velocity-issuing` | `allocations` collection: free indexes of each revocation and metadata list | `issueVelocityVerifiableCredentials` | MongoDB, the KMS, the two registries on the ledger |
| `packages/metadata-registration` | none | client of `MetadataRegistry` and `RevocationRegistry` | RPC node |
| `packages/base-contract-io` | none | contract client, signatures, reading events by block range | RPC node |
| `contracts/metadata-registry` | lists and entries by account, free credential types | new list, set entry, paid and free reads | coupon, permissions |
| `contracts/revocation-list` | wallets, list usage, revocation bits | add wallet, add list, set and get status | permissions |
| `contracts/permissions` | primary -> permissioning, operator -> primary, primary -> scopes | add/rotate/remove keys, scopes, the `check...` views | called by the other contracts |
| `contracts/verification-coupon` | ERC1155 balances, an owner's token ids, expiry of each | mint, burn, burn expired | permissions |
| `packages/endpoints-event-processing` | last block of each task (DynamoDB), purchases and burned coupons (MongoDB) | five handlers, triggered over HTTP | RPC node, Fineract, registrar's database |
| `servers/credentialagent`, issuing | exchanges with their state events, offers | credential offers, finalize offers, progress, operator offers | wallet, vendor, velocity-issuing |
| `servers/credentialagent`, inspection | exchanges, presentations, disclosures | share presentation, verify, send to vendor | wallet, vendor, vc-checks |
| `servers/credentialagent`, operator | tenants, keys, groups, users, tokens, feeds, issued credentials | CRUD, revocation | vendor, ledger, push gateway |
| `packages/endpoints-organizations-registrar` | organizations with services, keys, invitations, signatories, groups | create/update organization, services, keys, invitations, signatories | ledger, Auth0, Fineract, mail, KMS |
| `packages/endpoints-credential-types-registrar` | schemas, wallets | CRUD | -- |
| `packages/vc-checks`, `verifiable-credentials` | none | checks of a credential | registries |
| the rest | none of their own | HTTP, logging, configuration, cryptography, user interface, tools, samples | -- |

How they interact. Node processes call each other over HTTP and share state only
through MongoDB, DynamoDB and the ledger. There are no locks and no multi-document
transactions: every `await` is a point where another request of the same process, or
of another replica, may run. The ledger serializes its transactions, each of
which is all or nothing; a client sees a transaction mined, reverted, or an error
of the RPC node, which says neither.

Hard behaviours, by part (each is a row of `hazards` in `PROJECT.json`, at its line):

* issuing: two calls that pop from, exhaust and open the same lists; an error
  that is answered by opening a new list; `Promise.all` that fails while its
  other promises go on; a process that stops between MongoDB and the ledger; a
  retry after an answer that was lost;
* event processing: a second trigger while the first runs; effects before the
  cursor; a node that lags; the arithmetic of block ranges;
* exchanges: two `finalize-offers` of one exchange; state checked when a request
  begins and used when it ends; an error event after completion;
* contracts: keys moved between primaries; tokens that were transferred, burned or
  expired; free entries that were made paid between two calls;
* registrar: whole arrays written back from an earlier read; many services changed
  in turn with nothing undone on failure; reminders, answers and the deletion of
  an organization at once;
* revocation and inspection: a ledger, a database and a wallet told in turn; a
  presentation submitted again while its first submission is checked.

What makes each part correct:

* issuing: no index of a list is handed out twice; no index is lost unless
  something failed; what is returned is anchored, each credential in an entry of
  its own; its revocation list exists; a call ends;
* event processing: the cursor passes only events that were dealt with; an
  event is dealt with once unless something failed; a run ends;
* exchange: an offer is approved or rejected, not both, and issued once; an
  exchange is complete when, and only when, every offer was decided;
* contracts: an operator acts only for a primary the VNF added; a coupon is burned
  before it expires, and the lists of bundles agree with the balances; a read that
  is not free costs one coupon;
* registrar: services, DID document, activated services, categories and on-chain
  scopes agree, and so do keys, DID document and operators; the signatory is asked
  a bounded number of times, with a code that works, and one answer counts;
* revocation and inspection: the ledger says revoked for exactly what was revoked,
  the holder is told, and no presentation that comes later passes; one presentation
  is not handled twice in a row, and the wallet sees an end.

## 2. Modules

| Module | Models |
|---|---|
| `CredentialLedger` | abstract: an offer of a call reserves a slot of its own, the slot is written once, and the offer is delivered only when written |
| `CredentialIssuing` | `velocity-issuing` with the part of `metadata-registration` and of the two registries it calls |
| `EventProcessing` | `endpoints-event-processing` with `initPullLogEntries` |
| `OfferLife` | abstract: an offer is stored, sent, and then rejected or issued; `consentedAt` is only set on an issued one |
| `IssuingExchange` | the credential agent's issuing exchange: `credential-offers`, `finalize-offers`, the vendor's `offers` and `offers/complete` |
| `Permissions` | the contract of that name |
| `VerificationCoupon` | the contract of that name, over `Permissions` |
| `MetadataRegistry` | the contract of that name over both, and `resolveContractEntries`, which reads it |
| `Organization` | the registrar's organization, services and keys, over `Permissions` |
| `Signatory` | the registrar's approval of an organization by its signatory |
| `CredentialRevocation` | revoking an issued credential, with `RevocationRegistry`'s bits |
| `PresentationExchange` | `submit-presentation` and `submit-identification` of the relying party's agent, over `CredentialRevocation` |
| `MC...` | instances of each of these for TLC |
| `...Proofs` | theorems about each but `VerificationCoupon` and `CredentialRevocation`, which are proved about where they are composed |

Three modules compose others, as the code does: `MetadataRegistry` EXTENDS
`VerificationCoupon`, which EXTENDS `Permissions`, because `getPaidEntries` calls `burn`
and both ask `checkOperator`; `Organization` EXTENDS `Permissions`, whose functions are its
transactions; `PresentationExchange` EXTENDS `CredentialRevocation`, whose ledger its
checks read.

### CredentialIssuing

One request is one call of `issueVelocityVerifiableCredentials`, all of the same
tenant and operator (calls of different ones share nothing but the ledger's
addresses). `stage` is where the call is, `entries` the two arrays
`allocateListEntries` returns, `jobs` the promises in flight. `allocationLists` and
`freeIndexes` are the MongoDB documents; `walletInRegistry`, `listIdUsage`,
`lists` and `indexUsed` the state of the registries.

* An allocation is one `findOneAndUpdate`, atomic in MongoDB, so one action;
  `NoFreeIndex` is the `null` that makes reading `currentListId` throw, and every
  other error takes the same path. The random order of `allocateArray` is a
  nondeterministic choice of index.
* `generateListIndex` draws 48 random bits; the model draws an id not
  yet in the collection. A collision is outside the model.
* Each transaction is one action: mined, reverted when its requirement fails, or
  one of two faults, an error before it was sent or after it was mined.
* `Throws`, `Crash` and the failing MongoDB commands are faults too; `MaxFaults` bounds
  their number.

### EventProcessing

A run is one trigger of one of `Tasks`, chosen at the start of a behaviour as `task`; the
three logging handlers differ in the text they write and are one task. `currBlock`,
`latestBlock` and `events` are the handler's local variables, `blockNumber` the task's
DynamoDB item. `handled` counts, for each sink and block, how often the block's event
was written there: it is what the properties compare. Every block holds one event,
the least favourable case, since a block without one cannot be lost.
`Unregistered` are the events whose organization the database does not know, or, for
rewards, has no token account; every event is taken as one that earns a reward. In
`writeBurnsToDatabase` each burner's promise does three calls, and the purchase has a
`Quantity`: the lookup for `used < quantity` is a step apart from the increment.
A burn that Fineract refuses is logged and passed by, and so counts as dealt with.

### IssuingExchange

A request is one HTTP call. It loads the exchange once (`loaded`), when it
begins, checks its state on that copy, and works on it to the end; `stage` is
the `await` it has reached. `events`, `offerIds`, `finalizedOfferIds` and
`offerHashes` are the fields of the exchange document, `stored`, `rejected` and
`consented` the offers with their `rejectedAt` and `consentedAt`. `sent`, `issued` and
`answered` are history: what a response listed, how many credentials were
issued for an offer, which decisions were answered 200.

* `Hash` is `contentHash.value`: two offers of one content are different documents,
  of which `filterDuplicates` keeps one, whichever MongoDB returns first.
* `Preloaded` offers are in the database from the start and carry no exchange
  id, so the legacy mode and `offers/complete` do not see them.
* The vendor answers with any set of valid, unknown offers, with 202, or with an
  offer that has no id. `errorOnInvalidWebhookOffers` is off, its default.
* `findUnexpiredOffersById` has no condition on a date: it reads what exists, and
  the offers of `offerIds` exist (`TypeOK`), so it filters nothing.
* Issuing is one step: `CredentialIssuing` has what happens in it. Its result is
  written by one `approveOffer` per offer (`jobs`), which go on when one fails.
* The wallet's token and its proof are outside: a bad proof is one of the
  errors `Throws` stands for. The error handler is registered for the wallet's
  routes only; the push notification of `offers/complete` changes no state.

### Permissions, VerificationCoupon, MetadataRegistry

The variables are the contracts' mappings, an absent entry being `Zero` or empty, and each
external function is one action whose guard is its `require`s and whose
parameters start with `msg.sender`. A call that reverts changes nothing and is left
out, except where a caller sees it (`ReadReverts`, `Organization`'s transactions).

* `Permissions` keeps the three tables of keys and `addressToPermissions`; any address
  of `Address` may call anything.
* `VerificationCoupon` has ERC1155's balances with `ownerTokens` and `expirationTime`
  beside them, which a transfer does not touch. `burn` sweeps expired bundles by the
  contract's own loop (`BurnExpiredTokens`, a recursive function), in which the last id takes the
  place of the removed one and the index stays. `bundles`, `transferred` and
  `spendings` are history. Time passes by `Tick`.
* `MetadataRegistry` adds lists and entries by primary and the free types.
  `Reader` is a call of `resolveContractEntries`: `CheckFree` is its first call,
  `ReadEntries` or `ReadReverts` the second, with everything else in between.

### Organization

One organization and ten handlers: creation, five on services, the profile, the deletion,
and a key added and deleted. `organization` is its MongoDB document with the DID document's
services and keys, `organizationKeys` the keys' collection; scopes and
operators are `Permissions`' tables. A request loads the document once (`loaded`),
computes what it writes from that copy, and writes whole fields, one `await` after
another; `updated` is what its last update returned, which later steps go on from.

* `$push` of a service is an increment, a whole-array write an assignment:
  `services` counts how often an id is in the array.
* A transaction is mined, refused by the contract, or fails with its effect kept or
  not. `Throws` and `Crash` are faults like it.
* A behaviour starts without the organization or with one as a complete creation
  leaves it; a creation repeats what `createOrganization` does, keys included.
* The `DELETE` handler answers before its last write is awaited; the
  model counts the request as in flight until that write.
* `overlaps` remembers what kinds of requests were in flight together, which is what the
  properties exclude.

### Signatory

`events` and `size` are the `signatoryStatus` document's states and their number, which is
compared with `signatoryMaxReminderCount`; `authCodes` and `latest` its codes. The
timestamps are two flags, `due` and `expired`, raised by `ResendTimePasses`
and `LinkExpires` and cleared by a push. A `Run` is a slot in which `sendReminders` may run
again and again; `copy` is the document a run read, whose number of events it
compares and whatever happened since does not change. The organization may be deleted, and so
may the one whose invitation it accepted, which the mails name: without it
`findOneByDid` throws and nothing is mailed (`InviterNotFound`). A response of the signatory is validated,
mails the support when it must, and decides, each a step. `reminders` and
`mailed` are history.

### CredentialRevocation and PresentationExchange

A revoke request has three effects in order: the bit on the ledger, `revokedAt` in the
database, the push and `notifiedOfRevocationAt`. It reads `revokedAt` when it begins.
`lists` are the contract's arrays of words; `PositionOf` and `OffsetOf` are its
packing. A `Pushable` credential is one whose exchange has a `pushDelegate` and
`finalizedOfferIds` with its offer. `answered` and `cutShort` are history.

A submission loads the exchange (`LoadExchange`), passes the duplicate check (one
update whose filter has the presentation's id), checks its credentials if the
disclosure asks for it, sends them to the vendor or identifies the user, and completes;
an error becomes an `UNEXPECTED_ERROR` state. Each status is read at a time of its own. The
agents share the ledger only.

## 3. Runs

| Run | Question | Bounds |
|---|---|---|
| `IssuingFaults` | safety and refinement of `CredentialLedger`, with failures and crashes | 2 calls of 1 offer at once, lists of 2, 3 lists, 2 faults |
| `IssuingTurns` | every call ends; one without a fault succeeds, and its revocation lists exist | 2 calls of 2 offers, one at a time, lists of 2, 3 lists, 1 fault |
| `IssuingSharedList` | finding: a revocation list another call should have created | 2 calls, no fault |
| `EventRuns` | what a run may skip or write again, and that it ends | 2 runs, 2 at once, three tasks, ranges of 3, blocks 0 to 5 of which two have unknown organizations, a purchase of 2, 2 faults |
| `EventQuietChain` | finding: the latest block is skipped | 3 runs, one at a time, ranges of 2, 4 blocks, no fault |
| `ExchangeRequests` | refinement of `OfferLife`, what counts as decided, when an exchange is complete | 4 requests one at a time or 3 two at a time, 4 routes, 3 offers of 2 contents, 1 fault |
| `ExchangeLostDecision` | finding: a decision is overwritten and the exchange never completes | 3 wallet requests, 2 at once, no fault |
| `OrganizationChanges` | do the copies of services and keys agree | 3 requests of ten handlers, 2 at once, 2 services, 5 keys, 1 fault |
| `OrganizationMetadataKey` | finding: a metadata key is deleted | 2 requests, one at a time, no fault |
| `PaidReads` | what a read costs, and the coupons' bookkeeping | 3 bundles of at most 2 coupons, time 0 to 2, 2 readers, 1 change of permissions |
| `RevokedPresentations` | revocation seen by another agent, duplicates, what the wallet sees | 2 revocations of one credential, 3 submissions of 2 presentations, 4 bits in words of 2, 1 fault |
| `SignatoryReminders` | how often the signatory is asked, with which code, and that it ends | 2 slots of runs and 2 responses, 2 at once or one at a time, 3 reminders; 1 fault and the organization deleted, or its inviter deleted |

Why the bounds are enough for the interesting cases to happen: a list of two indexes
is shared by two calls, runs out and is followed by another; two faults are a lost
answer and the failure of its retry, or a crash after one; two ranges of
blocks are needed for a boundary between them, and a run after another to
see what the cursor left; the unknown organizations are those of blocks 3 and 4, so that a
run meets none of them, one or both among others, or nothing else; two offers of one content are needed for a duplicate. Three
requests of an organization are a creation and two changes that overlap, or a change that
fails, one that repairs it and one that sees it. Three bundles are the least with
which the sweep's last id takes a place the loop has yet to visit; time 2 lets bundles
expire apart. Three submissions are the least in which a presentation comes again after
another one, and two credentials at the same offset of two words tell a wrong word from a wrong
bit. Three reminders let runs at once meet below, at and above the maximum.

`CHECK_DEADLOCK FALSE` is in two configurations. The contracts of `PaidReads` rest
when the bounded bundles, changes and time are used up; the signatory of
`SignatoryReminders` rests when its document is completed or the organization deleted.
In the other modules `Finished` is the only rest, so the check for deadlocks shows that
no request waits for ever.

Fairness. `FairSpec` of `CredentialIssuing` and `MCFairSpec` of `MCEventProcessing` ask weak
fairness of a request's own steps: Node's event loop runs what is ready, and a
driver's call ends with an answer or an error. Nothing is asked of triggers,
new blocks, faults or crashes. `Fairness` of `Signatory` asks as much of the
subscriber, of runs and of responses, and two things of their environment: that time passes, and
that whoever triggers `send-reminder` goes on doing so. The first of these is no assumption,
the second the deployment's schedule, without which nobody would
remind the signatory and nothing in the code would.

Properties of requests one at a time. Some things hold only while calls do not
overlap, and the code does nothing against the overlap; their names begin with
`Serial`, or their run has one call at a time:

* `SerialRewritesNeedFaults`: overlapping runs read the same cursor and act on the same
  events. The controller answers before the handler runs; the
  scheduler's interval is the only guard.
* `NeverFailsUnprovoked`: two first issuances of one operator both answer the missing wallet
  by adding it, and the second `addWallet` reverts.
* `SerialCompleteIsExact` and `SerialNotIssuedAfterRejection`: two `finalize-offers` at once
  lose a decision (`ExchangeLostDecision`), and `checkOffersToBeApproved` looks at
  `rejectedAt` before the issuing is awaited, so an offer rejected meanwhile is
  issued all the same.
* `SerialOneOutcome`: overlapping answers approve and reject both, and a run that overlaps
  with an answer adds `MAX_REACHED` to it.
* `SettledAgrees`, `OperatorsAreKeys`, `KeysInDidDoc` and `CompletedChangeAgrees` are stated of
  behaviours without the overlaps that break them: two service requests overwrite
  each other's arrays, two key requests remove the operator the other adds.

Approving an offer twice is not checked by the code (`checkOffersToBeApproved` looks at
`rejectedAt` alone), so `OfferLife` lets an offer be issued more than once. A
vendor that answers 200 with no offer and then calls `offers/complete` completes an
exchange whose wallet was sent preloaded offers; `CompleteIsJustified` excludes it by its state
`NO_OFFERS_RECEIVED`.

What the models show beside the properties, each a consequence of the code at the lines
the map gives:

* An unknown burner's burn increments the purchase and then fails the run, so every later
  trigger increments `used` again and the cursor never passes it; `used` may exceed the
  quantity when two runs look it up before either increments it.
* Rewards of which no organization is known make an empty batch, which Fineract answers with an
  empty list and `batchOperations` with a `TypeError`: the run fails, and so does every
  later one until the blocks since the cursor hold a reward it can pay.
* `getPushDelegate` looks for the credential in `finalizedOfferIds`: a holder whose decision
  was overwritten is not told of a revocation.
* A `PERMISSIONING` key added by `addKey` may be the one `findOne` returns later, and the contract
  refuses it; deleting the generated one makes later DLT key operations fail.
* Retries: a creation that failed cannot be repeated (the website is taken), a repeated
  deletion of a service gets 404 and leaves its scopes, and a repeated activation
  answers `{}` and leaves scopes missing. `CompletedChangeAgrees` is what repairs them: the next
  change that reaches the ledger.
* The profile's update writes back the categories of the copy it loaded. The checks for a
  duplicate website and a duplicate key precede the inserts.
* A submission refused with 400 on a complete exchange adds `UNEXPECTED_ERROR` after
  `COMPLETE`; the wallet's progress looks at the completion first.
* A subscriber whose insert failed is not called again, and its signatory is never
  asked. An approval whose consent failed is not retried, since its document is complete. The
  signatory status of a deleted organization gets a `REMINDER_ERROR` per run for ever,
  because the organization is looked up before the maximum is compared. When the inviting
  organization is deleted no link and no reminder is mailed; each run adds a
  `REMINDER_ERROR`, until these make the maximum. A reminder
  whose code could not be written after it was mailed leads to a link that is refused.

## 4. Proofs

All theorems hold for every value of the constants the modules' `ASSUME`s admit: any number
of requests, offers, lists, blocks, services, keys, credentials, reminders and faults.

`CredentialIssuingProofs`: `TypeCorrect`, `Invariance` (`IInv`), `AllocationIsUnique`,
`ReturnedIsAnchored`, `IssuingImplementsLedger` (`Spec` implements `CredentialLedger`'s).
`UniqueAllocation` is not inductive: that no two entries hold the same
index depends on the free indexes of a list being disjoint from those handed
out, which depends on a new list's id being fresh. `IInv` says so, and relates a
request's stage and jobs to what the ledger holds: an entry that is neither a
pending job nor failed is written, and only its own request writes it. The proof
has one step per action and one below it per conjunct that the action touches.
`IndexesAreKept` (`NoIndexLost`) needs only the types and stages of `IInv` beside itself: a command
that takes an index from a list gives it to an offer in the same step.
`TurnsNeverFail` and `TurnsHaveRevocationLists` assume `MaxInFlight = 1` and
`NOffers <= RevocationListSize`. Their invariant `CalmInv` says that one request is in
flight and, while nothing has failed, that its jobs are those of its stage, that every list
is on the ledger or about to be created by the one job that will, before any entry of
it is written, and that the lists of other sizes are full. The second hypothesis is needed:
with two offers and lists of one index the first call of an operator creates two lists at
once, both jobs miss the wallet and add it, and the second `addWallet` reverts (TLC shows it).
The code's lists have 10240 indexes, so a call would need more offers than that.

`EventProcessingProofs`: `TypeCorrect`, `CursorCoversEvents` (`OnlyRangeEndsAreSkipped`), for each
task and every size of the ranges. The cursor is what a run writes last, so the property
depends on what the run has read: `CoverInv` says that every block below a run's next
range that its latest block covers was dealt with, is the end of some run's ranges, or
is among the events the run holds; and that a run about to write the cursor has
dealt with its events. Two lemmas carry it across the steps of other runs:
what was dealt with stays so (`DealtWithStays`), and a run whose next range would begin at
its latest block has no step left that moves either (`SkippedStays`).
`OneAtATimeRewritesNeedFaults` is of `MCSpec`, whose `overlapped` remembers two runs at once. What
a store holds beyond one write of each event is bounded by `Allowance`, the faults and the runs
an unknown burner stopped (a run of rewards that pays nobody fails before it wrote anything, and
needs none); a run that holds events its predecessor wrote must have one of
these to spare (`WithinAllowance`), and without any the events in hand are new (`HandIsNew`).

`IssuingExchangeProofs`: `TypeCorrect`, `Invariance`, `OnlyDecidedAreFinalized`,
`ExchangeImplementsOfferLife` (`Spec` implements `OfferLife`'s). `IInv` adds what requests carry:
`HandInv`, that ids in hand were sent and that an `approveOffer` under way is of an
issued offer, and `DecidedInv`, that by the stage where a request counts its ids they
are rejected or approved, and that the copies requests loaded hold only decided ids.
`OneAtATimeCompletesExactly` and `OneAtATimeIssuesNoRejected` are of the behaviours of `MCSpec` that
are `serial`: with one request in flight the copy it loaded is the document's (`CopyIsFresh`), so
its decisions add to those stored instead of replacing them, and the offers it found are neither
rejected nor issued behind its back (`OffersAreFresh`).

`PermissionsProofs`: `PermissionsTypeCorrect` and `OperatorsActForPrimaries`, for any calls by any
senders. One lemma says that each function keeps `PermissionsInv`;
`MetadataRegistryProofs` and `OrganizationProofs` cite it for the compositions.

`MetadataRegistryProofs`: `OperatorsActForPrimariesHere`, the same property in the composition;
`ReadersAgree`, from `AnswersInv`: an answer holds entries that are written once; and
`EveryReadIsPaid`, an action property: a read takes one coupon of one bundle, whatever
the caller found when it asked, because the contract looks at the free types again.
`RegistryTypes`, `ListsAgreeWithBalances`, `CouponsAreSpentInTime` and `BurnsSweep` rest on what the loop
of `burnExpiredTokens` computes. `VerificationCoupon` writes a turn of the loop as an operator,
`Turn`, and the sweep as as many turns as the list has ids. The proof first shows that the
recursive function of the turns exists (`Induction`, from the least-number principle;
`Iterates`), then follows them: after n turns the ids kept before the loop's place are
unexpired, those from there on are yet to be looked at, and none is twice on the list.
So the sweep takes the expired ids off and no other (`SweepIsExact`), for lists of any length.
`CouponsInv` adds to the listed properties that ids not minted yet are fresh and that balances and
spendings add up to what was minted.

`OrganizationProofs`: `TypeCorrect` and `RegistrarKeepsPrimaries` from `TypeInv`; `OperatorsAreHeld`
from `ShapeInv` and `OperatorsKept`, which says of every request that adds or removes an
operator what it holds at that point; `HeldKeysResolve` from `DidInv`, which relates the
copy a key request works on to the document while no other request has been in flight.
`CompletedChangesAgree`, an action property, from `ChangesKept`: until it is done, a change of services
finds the services and categories it loaded, and the ones it wrote, still in the document.
The scopes on the ledger are among those the registrar gives (`KnownScopes`), so its last
call leaves exactly the document's. `SerialRequestsAgree` from `SettledKept`, which says of each handler
at each of its stages what already agrees and what its remaining steps will bring in line;
its lemmas have one step per action. A creation must get past `addOperators` to its scopes:
the contract does not refuse it because the only permissioning key it has
inserted is the generated one. `KeysAssumption` therefore states that the DID document's keys
are generated with other purposes, as in `build-custodied-organization.js`.

`PresentationExchangeProofs`: `TypeCorrect`, `RevocationIsExact`, `RevokedHoldersAreTold`,
`AnsweredRevocationsAreSeen`, `DuplicatesAreRefused`, `ReceivedSubmissionsEnd`,
`CompletionFollowsDelivery`. `RevocationInv` says that the bits are those of mined
revocations (words and offsets determine an index, a fact of division proved as a
lemma) and that what was answered was mined; `ReadAfterwards` that a status read by a
submission is at least as new as the revocations answered when it was received, and
`DeliveredAfterwards` that what was delivered was read so. `DuplicatesAreRefused`
follows from the last of `received` being the exchange's `presentationId`.

`SignatoryProofs`: `TypeCorrect`; `SignatoryIsNotFlooded`, from `BoundInv`, which counts the
reminders mailed against the events of the document, the runs under way and the faults;
`SignatoryIsNotLockedOut`, from `CodeInv`: a code is mailed before it is pushed;
`ConsentsAreApprovals`, from `ConsentInv`; `OneAtATimeSettlesOnce`, of the `serial` behaviours of `MCSpec`,
from `SerialInv`: while a run or a response is between its check of `COMPLETED` and its outcome,
the document is not completed.

Three of the proof modules extend the MC module of their component and not the component
itself, because what tells serial behaviours apart (`serial`, `overlapped`) is declared
there; their theorems of `Spec` do not mention it.

Every safety invariant and every action property the passing runs check is a theorem. Only
model-checked are the three liveness properties, `RequestsSettle`, `RunsEnd` and
`SignatoryIsSettled`, out of the prover's reach.

## 5. Not modelled

* Single documents. The agent's tenants, groups, users, tokens, disclosures, feeds and deep
  links, the credential types registrar, and the registrar's invitations, users and groups are
  operations on one document each, whose order no other modelled operation depends on.
  Of invitations one thing is of note: `acceptInvitation` does not look at `acceptedAt`, so an
  invitation can be accepted again until it expires.
* Formats and cryptography. Signatures, JWTs, DID documents' encoding, key management, hashes
  and the content of credentials have no order of steps to get wrong. A failing
  signature is one of the errors a step may end with.
* Read-only code: registry lookups, searches, the wallet's progress, the SDK's requests.
* Plumbing: HTTP servers, plugins, AWS, configuration, logging, mails' text, push transport.
* Interfaces and tools: the registrar's React application, the mock vendor, command line tools, samples.
  They are most of the repository's lines.
* In the modelled parts: did:web organizations and the KMS (`Organization`); Auth0 clients,
  Fineract accounts and monitors made at creation; the identification that precedes an issuing
  exchange beyond what `PresentationExchange` has; expiry, issuer and holder checks of
  credentials, which are functions of the credential and the clock; the unsigned
  forms of the registries' functions; support mails other than that they may fail.
  Of the chain's nodes only the one that events are read from may lag: the node
  a submission reads credential statuses from answers with the current ledger.
  Overlapping pushes to one document are taken in the order of their writes, not of their timestamps.

What could come next: invitations with the creation of an organization from one,
and the tenant's keys beside the registrar's.
