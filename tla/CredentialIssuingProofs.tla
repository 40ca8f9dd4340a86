----------------------- MODULE CredentialIssuingProofs -----------------------
(***************************************************************************)
(* Proofs about CredentialIssuing for any number of requests, offers, list *)
(* ids and faults and any list sizes.                                      *)
(***************************************************************************)
EXTENDS CredentialIssuing, FiniteSetTheorems, TLAPS

USE NOffersAssumption, ListSizeAssumption, BoundsAssumption

-----------------------------------------------------------------------------
(***************************************************************************)
(* Type correctness.                                                       *)
(***************************************************************************)

\* The entries part of TypeOK, which only TakeEntry changes.
EntriesOK ==
  /\ entries \in [Entity -> [Request -> Seq(Entry)]]
  /\ \A e \in Entity, r \in Request :
       /\ Len(entries[e][r]) <= NOffers
       /\ \A k \in 1 .. Len(entries[e][r]) : entries[e][r][k].index \in Index(e)

LEMMA EntityFacts == /\ Revocation \in Entity
                     /\ Metadata \in Entity
                     /\ Revocation # Metadata
                     /\ \A e \in Entity : Index(e) \subseteq AnyIndex
  BY DEF Entity, Revocation, Metadata, Index, AnyIndex

\* The request a taken entry belongs to has room for it.
LEMMA NextEntityFacts ==
  ASSUME TypeOK, NEW r \in Request, ~ AllocatedAll(r)
  PROVE  /\ NextEntity(r) \in Entity
         /\ Len(entries[NextEntity(r)][r]) < NOffers
<1>1. /\ Len(entries[Revocation][r]) \in Nat /\ Len(entries[Revocation][r]) <= NOffers
      /\ Len(entries[Metadata][r]) \in Nat /\ Len(entries[Metadata][r]) <= NOffers
  BY EntityFacts DEF TypeOK
<1>. QED  BY <1>1, EntityFacts DEF NextEntity, AllocatedAll

\* What TakeEntry does: one sequence grows by one entry.
TookEntry(r, e, x) ==
  /\ entries' \in [Entity -> [Request -> Seq(Entry)]]
  /\ \A d \in Entity, q \in Request :
       d # e \/ q # r => entries'[d][q] = entries[d][q]
  /\ Len(entries'[e][r]) = Len(entries[e][r]) + 1
  /\ \A k \in 1 .. Len(entries[e][r]) : entries'[e][r][k] = entries[e][r][k]
  /\ entries'[e][r][Len(entries[e][r]) + 1] = x

LEMMA TakeEntryFacts ==
  ASSUME TypeOK, NEW r \in Request, NEW e \in Entity, NEW l \in ListId,
         NEW i \in Index(e), NEW b \in BOOLEAN, TakeEntry(r, e, l, i, b)
  PROVE  TookEntry(r, e, [listId |-> l, index |-> i, isNewList |-> b])
<1> DEFINE x == [listId |-> l, index |-> i, isNewList |-> b]
           s == entries[e][r]
<1>1. x \in Entry
  BY EntityFacts DEF Entry
<1>2. s \in Seq(Entry)
  BY DEF TypeOK
<1>3. /\ Append(s, x) \in Seq(Entry)
      /\ Len(Append(s, x)) = Len(s) + 1
      /\ \A k \in 1 .. Len(s) : Append(s, x)[k] = s[k]
      /\ Append(s, x)[Len(s) + 1] = x
  BY <1>1, <1>2
<1>4. entries' = [entries EXCEPT ![e][r] = Append(s, x)]
  BY DEF TakeEntry, TypeOK
<1>5. entries'[e][r] = Append(s, x)
  BY <1>4 DEF TypeOK
<1>6. entries' \in [Entity -> [Request -> Seq(Entry)]]
  BY <1>3, <1>4 DEF TypeOK
<1>7. \A d \in Entity, q \in Request :
        d # e \/ q # r => entries'[d][q] = entries[d][q]
  BY <1>4 DEF TypeOK
<1>. QED  BY <1>3, <1>5, <1>6, <1>7 DEF TookEntry

LEMMA TakeEntryOK ==
  ASSUME TypeOK, NEW r \in Request, NEW e \in Entity, NEW l \in ListId,
         NEW i \in Index(e), NEW b \in BOOLEAN, TakeEntry(r, e, l, i, b),
         Len(entries[e][r]) < NOffers
  PROVE  EntriesOK'
<1> DEFINE x == [listId |-> l, index |-> i, isNewList |-> b]
           n == Len(entries[e][r])
<1>1. n \in Nat
  BY DEF TypeOK
<1>2. TookEntry(r, e, x)
  BY TakeEntryFacts
<1>3. ASSUME NEW d \in Entity, NEW q \in Request
      PROVE  /\ Len(entries'[d][q]) <= NOffers
             /\ \A k \in 1 .. Len(entries'[d][q]) :
                  entries'[d][q][k].index \in Index(d)
  <2>1. CASE d = e /\ q = r
    <3>1. \A k \in 1 .. n : entries'[e][r][k].index \in Index(e)
      BY <1>2 DEF TypeOK, TookEntry
    <3>2. entries'[e][r][n + 1].index \in Index(e)
      BY <1>2 DEF TookEntry
    <3>3. Len(entries'[e][r]) = n + 1
      BY <1>2 DEF TookEntry
    <3>4. \A k \in 1 .. n + 1 : k \in 1 .. n \/ k = n + 1
      BY <1>1
    <3>. QED  BY <1>1, <2>1, <3>1, <3>2, <3>3, <3>4
  <2>2. CASE d # e \/ q # r
    BY <1>2, <2>2 DEF TypeOK, TookEntry
  <2>. QED  BY <2>1, <2>2
<1>. QED  BY <1>2, <1>3 DEF EntriesOK, TookEntry

LEMMA InitTypeOK == Init => TypeOK
<1> SUFFICES ASSUME Init PROVE TypeOK
  OBVIOUS
<1>1. entries \in [Entity -> [Request -> Seq(Entry)]]
  BY DEF Init
<1>2. \A e \in Entity, r \in Request : Len(entries[e][r]) = 0
  BY DEF Init
<1>3. /\ allocationLists \in [Entity -> SUBSET ListId]
      /\ freeIndexes \in [Entity -> [ListId -> SUBSET AnyIndex]]
      /\ \A e \in Entity, l \in ListId : freeIndexes[e][l] = {}
      /\ walletInRegistry \in BOOLEAN
      /\ listIdUsage \in SUBSET ListId
      /\ lists \in SUBSET ListId
  BY DEF Init
<1>4. /\ indexUsed \in [ListId -> [Index(Metadata) -> Credential \cup {NoCredential}]]
      /\ stage \in [Request -> Stage]
      /\ jobs \in [Request -> SUBSET Job]
      /\ faults \in Nat
  BY DEF Init, Stage
<1>. QED  BY <1>1, <1>2, <1>3, <1>4 DEF TypeOK

\* A step of one request that leaves the entries alone keeps their type.
LEMMA SameEntries == ASSUME TypeOK, UNCHANGED entries PROVE EntriesOK'
  BY DEF TypeOK, EntriesOK

LEMMA TakeNextEntryOK ==
  ASSUME TypeOK, NEW r \in Request, ~ AllocatedAll(r), NEW l \in ListId,
         NEW i \in Index(NextEntity(r)), NEW b \in BOOLEAN,
         TakeEntry(r, NextEntity(r), l, i, b)
  PROVE  EntriesOK'
  BY NextEntityFacts, TakeEntryOK

\* The MongoDB documents keep their type when one index is popped or one
\* document inserted.
MongoOK ==
  /\ allocationLists \in [Entity -> SUBSET ListId]
  /\ freeIndexes \in [Entity -> [ListId -> SUBSET AnyIndex]]
  /\ \A e \in Entity, l \in ListId : freeIndexes[e][l] \subseteq Index(e)

LEMMA PopIndexOK ==
  ASSUME TypeOK, NEW e \in Entity, NEW l \in allocationLists[e], NEW i \in Index(e),
         PopIndex(e, l, i), UNCHANGED allocationLists
  PROVE  MongoOK'
  BY EntityFacts DEF TypeOK, MongoOK, PopIndex

LEMMA InsertListOK ==
  ASSUME TypeOK, NEW e \in Entity, NEW l \in ListId, NEW i \in Index(e),
         InsertList(e, l, i)
  PROVE  MongoOK'
<1>1. allocationLists' \in [Entity -> SUBSET ListId]
  BY DEF TypeOK, InsertList
<1>2. /\ freeIndexes' = [freeIndexes EXCEPT ![e][l] = Index(e) \ {i}]
      /\ Index(e) \ {i} \subseteq AnyIndex
  BY EntityFacts DEF InsertList
<1>3. /\ freeIndexes' \in [Entity -> [ListId -> SUBSET AnyIndex]]
      /\ \A d \in Entity, m \in ListId : freeIndexes'[d][m] \subseteq Index(d)
  BY <1>2 DEF TypeOK
<1>. QED  BY <1>1, <1>3 DEF MongoOK

\* The variables the jobs change.
LedgerOK ==
  /\ walletInRegistry \in BOOLEAN
  /\ listIdUsage \in SUBSET ListId
  /\ lists \in SUBSET ListId
  /\ indexUsed \in [ListId -> [Index(Metadata) -> Credential \cup {NoCredential}]]
  /\ stage \in [Request -> Stage]
  /\ jobs \in [Request -> SUBSET Job]
  /\ faults \in Nat

LEMMA TypeParts == TypeOK <=> EntriesOK /\ MongoOK /\ LedgerOK
  BY DEF TypeOK, EntriesOK, MongoOK, LedgerOK

\* Steps that touch neither MongoDB nor the allocated entries.
LEMMA LedgerStepOK ==
  ASSUME TypeOK, LedgerOK', UNCHANGED <<mongoVars, entries>>
  PROVE  TypeOK'
<1>1. EntriesOK' /\ MongoOK'
  BY SameEntries, TypeParts DEF mongoVars, MongoOK
<1>. QED  BY <1>1 DEF TypeOK, EntriesOK, MongoOK, LedgerOK

LEMMA FaultOK == ASSUME TypeOK, Fault PROVE faults' \in Nat
  BY DEF TypeOK, Fault

LEMMA CountFaultOK == ASSUME TypeOK, NEW o, CountFault(o) PROVE faults' \in Nat
  BY DEF TypeOK, CountFault

\* Settling or continuing a job keeps the jobs and stages typed.
LEMMA JobMoveOK ==
  ASSUME TypeOK, NEW r \in Request, NEW job \in jobs[r],
         \/ Resolve(r, job)
         \/ Reject(r, job)
         \/ job \in ListJob /\ \E s \in JobStep : Continue(r, job, s)
  PROVE  stage' \in [Request -> Stage] /\ jobs' \in [Request -> SUBSET Job]
<1>1. CASE Resolve(r, job)
  BY <1>1 DEF TypeOK, Resolve
<1>2. CASE Reject(r, job)
  BY <1>2 DEF TypeOK, Reject, GoTo, Stage
<1>3. CASE job \in ListJob /\ \E s \in JobStep : Continue(r, job, s)
  <2>1. PICK s \in JobStep : Continue(r, job, s)
    BY <1>3
  <2>2. [job EXCEPT !.step = s] \in Job
    BY <1>3 DEF Job, ListJob
  <2>. QED  BY <2>1, <2>2 DEF TypeOK, Continue
<1>. QED  BY <1>1, <1>2, <1>3

LEMMA JobKinds ==
  ASSUME TypeOK, NEW r \in Request, NEW job \in jobs[r]
  PROVE  /\ job.step = "setEntry" => job \in EntryJob
         /\ job.step # "setEntry" => job \in ListJob
<1>1. job \in ListJob \/ job \in EntryJob
  BY DEF TypeOK, Job
<1>2. job \in EntryJob => job.step = "setEntry"
  BY DEF EntryJob
<1>3. job \in ListJob => job.step # "setEntry"
  BY DEF ListJob, JobStep
<1>. QED  BY <1>1, <1>2, <1>3

LEMMA RunJobTypeOK ==
  ASSUME TypeOK, NEW r \in Request, RunJob(r)
  PROVE  TypeOK'
<1>1. PICK job \in jobs[r] : \/ AddRevocationList(r, job)
                             \/ AddWallet(r, job)
                             \/ NewMetadataList(r, job)
                             \/ IsExistMetadataList(r, job)
                             \/ SetEntry(r, job)
  BY DEF RunJob
<1>2. CASE AddRevocationList(r, job)
  <2>1. job \in ListJob
    BY <1>2, JobKinds DEF AddRevocationList
  <2>2. listIdUsage' \in SUBSET ListId
    BY <1>2, <2>1 DEF AddRevocationList, TypeOK, ListJob
  <2>3. PICK o : CountFault(o) /\ (\/ Continue(r, job, "addWallet")
                                   \/ Settle(r, job, o))
    BY <1>2 DEF AddRevocationList
  <2>4. stage' \in [Request -> Stage] /\ jobs' \in [Request -> SUBSET Job]
    BY <2>1, <2>3, JobMoveOK DEF Settle, JobStep
  <2>5. faults' \in Nat
    BY <2>3, CountFaultOK
  <2>6. LedgerOK'
    BY <1>2, <2>2, <2>4, <2>5 DEF AddRevocationList, LedgerOK, TypeOK
  <2>. QED  BY <1>2, <2>6, LedgerStepOK DEF AddRevocationList
<1>3. CASE AddWallet(r, job)
  <2>1. job \in ListJob
    BY <1>3, JobKinds DEF AddWallet
  <2>2. walletInRegistry' \in BOOLEAN
    BY <1>3 DEF AddWallet, TypeOK, Applied
  <2>3. PICK o : CountFault(o) /\ (\/ Continue(r, job, "addRevocationListAgain")
                                   \/ Reject(r, job))
    BY <1>3 DEF AddWallet
  <2>4. stage' \in [Request -> Stage] /\ jobs' \in [Request -> SUBSET Job]
    BY <2>1, <2>3, JobMoveOK DEF JobStep
  <2>5. faults' \in Nat
    BY <2>3, CountFaultOK
  <2>6. LedgerOK'
    BY <1>3, <2>2, <2>4, <2>5 DEF AddWallet, LedgerOK, TypeOK
  <2>. QED  BY <1>3, <2>6, LedgerStepOK DEF AddWallet
<1>4. CASE NewMetadataList(r, job)
  <2>1. job \in ListJob
    BY <1>4, JobKinds DEF NewMetadataList
  <2>2. lists' \in SUBSET ListId
    BY <1>4, <2>1 DEF NewMetadataList, TypeOK, ListJob
  <2>3. PICK o : CountFault(o) /\ (\/ Continue(r, job, "isExistMetadataList")
                                   \/ Resolve(r, job))
    BY <1>4 DEF NewMetadataList
  <2>4. stage' \in [Request -> Stage] /\ jobs' \in [Request -> SUBSET Job]
    BY <2>1, <2>3, JobMoveOK DEF JobStep
  <2>5. faults' \in Nat
    BY <2>3, CountFaultOK
  <2>6. LedgerOK'
    BY <1>4, <2>2, <2>4, <2>5 DEF NewMetadataList, LedgerOK, TypeOK
  <2>. QED  BY <1>4, <2>6, LedgerStepOK DEF NewMetadataList
<1>5. CASE IsExistMetadataList(r, job)
  <2>1. stage' \in [Request -> Stage] /\ jobs' \in [Request -> SUBSET Job]
    BY <1>5, JobMoveOK DEF IsExistMetadataList
  <2>2. faults' \in Nat
    BY <1>5, FaultOK DEF IsExistMetadataList, TypeOK
  <2>3. LedgerOK'
    BY <1>5, <2>1, <2>2 DEF IsExistMetadataList, LedgerOK, TypeOK, ledgerVars
  <2>. QED  BY <1>5, <2>3, LedgerStepOK DEF IsExistMetadataList
<1>6. CASE SetEntry(r, job)
  <2>1. job.offer \in Offer
    BY <1>6, JobKinds DEF SetEntry, EntryJob
  <2>2. <<r, job.offer>> \in Credential
    BY <2>1 DEF Credential
  <2>3. indexUsed' \in [ListId -> [Index(Metadata) -> Credential \cup {NoCredential}]]
    <3>1. \/ indexUsed' = indexUsed
          \/ \E l, i : indexUsed' = [indexUsed EXCEPT ![l][i] = <<r, job.offer>>]
      BY <1>6 DEF SetEntry
    <3>2. CASE indexUsed' = indexUsed
      BY <3>2 DEF TypeOK
    <3>3. ASSUME NEW l, NEW i,
                 indexUsed' = [indexUsed EXCEPT ![l][i] = <<r, job.offer>>]
          PROVE  <2>3
      BY <2>2, <3>3 DEF TypeOK
    <3>. QED  BY <3>1, <3>2, <3>3
  <2>4. PICK o : CountFault(o) /\ Settle(r, job, o)
    BY <1>6 DEF SetEntry
  <2>5. stage' \in [Request -> Stage] /\ jobs' \in [Request -> SUBSET Job]
    BY <2>4, JobMoveOK DEF Settle
  <2>6. faults' \in Nat
    BY <2>4, CountFaultOK
  <2>7. LedgerOK'
    BY <1>6, <2>3, <2>5, <2>6 DEF SetEntry, LedgerOK, TypeOK
  <2>. QED  BY <1>6, <2>7, LedgerStepOK DEF SetEntry
<1>. QED  BY <1>1, <1>2, <1>3, <1>4, <1>5, <1>6

LEMMA NewListsOK ==
  ASSUME TypeOK, NEW r \in Request, NEW e \in Entity
  PROVE  NewLists(e, r) \in SUBSET ListId
<1>1. entries[e][r] \in Seq(Entry)
  BY DEF TypeOK
<1>2. \A k \in DOMAIN entries[e][r] : entries[e][r][k].listId \in ListId
  <2>1. \A k \in DOMAIN entries[e][r] : entries[e][r][k] \in Entry
    BY <1>1
  <2>. QED  BY <2>1 DEF Entry
<1>. QED  BY <1>2 DEF NewLists

\* Every step keeps the types.
LEMMA NextTypeOK == TypeOK /\ StageInv /\ [Next]_vars => TypeOK'
<1> SUFFICES ASSUME TypeOK, StageInv, [Next]_vars PROVE TypeOK'
  OBVIOUS
<1>1. CASE UNCHANGED vars
  BY <1>1, LedgerStepOK DEF vars, ledgerVars, requestVars, LedgerOK, TypeOK
<1>2. ASSUME NEW r \in Request, Begin(r) PROVE TypeOK'
  BY <1>2, LedgerStepOK DEF Begin, LedgerOK, TypeOK, GoTo, Stage, ledgerVars
<1>3. ASSUME NEW r \in Request, AllocateNextEntry(r) PROVE TypeOK'
  <2>1. PICK l \in allocationLists[NextEntity(r)], i \in Index(NextEntity(r)) :
          /\ PopIndex(NextEntity(r), l, i)
          /\ TakeEntry(r, NextEntity(r), l, i, FALSE)
    BY <1>3 DEF AllocateNextEntry
  <2>2. NextEntity(r) \in Entity /\ l \in ListId
    BY <1>3, NextEntityFacts DEF AllocateNextEntry, TypeOK
  <2>3. EntriesOK'
    BY <1>3, <2>1, <2>2, TakeNextEntryOK DEF AllocateNextEntry
  <2>4. MongoOK'
    BY <1>3, <2>1, <2>2, PopIndexOK DEF AllocateNextEntry
  <2>5. LedgerOK'
    BY <1>3 DEF AllocateNextEntry, LedgerOK, TypeOK, ledgerVars
  <2>. QED  BY <2>3, <2>4, <2>5 DEF TypeOK, EntriesOK, MongoOK, LedgerOK
<1>4. ASSUME NEW r \in Request, NoFreeIndex(r) PROVE TypeOK'
  BY <1>4, LedgerStepOK DEF NoFreeIndex, LedgerOK, TypeOK, GoTo, Stage, ledgerVars
<1>5. ASSUME NEW r \in Request, AllocateNextEntryFails(r) PROVE TypeOK'
  <2>1. NextEntity(r) \in Entity
    BY <1>5, NextEntityFacts DEF AllocateNextEntryFails
  <2>2. MongoOK'
    <3>1. CASE UNCHANGED freeIndexes
      BY <1>5, <3>1 DEF AllocateNextEntryFails, MongoOK, TypeOK
    <3>2. ASSUME NEW l \in allocationLists[NextEntity(r)],
                 NEW i \in Index(NextEntity(r)), PopIndex(NextEntity(r), l, i)
          PROVE  MongoOK'
      BY <1>5, <2>1, <3>2, PopIndexOK DEF AllocateNextEntryFails
    <3>. QED  BY <1>5, <3>1, <3>2 DEF AllocateNextEntryFails
  <2>3. LedgerOK'
    BY <1>5, FaultOK
    DEF AllocateNextEntryFails, LedgerOK, TypeOK, GoTo, Stage, ledgerVars
  <2>4. EntriesOK'
    BY <1>5, SameEntries DEF AllocateNextEntryFails
  <2>. QED  BY <2>2, <2>3, <2>4 DEF TypeOK, EntriesOK, MongoOK, LedgerOK
<1>6. ASSUME NEW r \in Request, CreateNewAllocationList(r) PROVE TypeOK'
  <2>1. ~ AllocatedAll(r)
    BY <1>6 DEF CreateNewAllocationList, StageInv
  <2>2. PICK l \in ListId, i \in Index(NextEntity(r)) :
          /\ InsertList(NextEntity(r), l, i)
          /\ TakeEntry(r, NextEntity(r), l, i, TRUE)
    BY <1>6 DEF CreateNewAllocationList
  <2>3. NextEntity(r) \in Entity
    BY <2>1, NextEntityFacts
  <2>4. EntriesOK'
    BY <2>1, <2>2, TakeNextEntryOK
  <2>5. MongoOK'
    BY <2>2, <2>3, InsertListOK
  <2>6. LedgerOK'
    BY <1>6 DEF CreateNewAllocationList, LedgerOK, TypeOK, GoTo, Stage, ledgerVars
  <2>. QED  BY <2>4, <2>5, <2>6 DEF TypeOK, EntriesOK, MongoOK, LedgerOK
<1>7. ASSUME NEW r \in Request, CreateNewAllocationListFails(r) PROVE TypeOK'
  <2>1. NextEntity(r) \in Entity
    BY DEF NextEntity, Entity
  <2>2. MongoOK'
    <3>1. CASE UNCHANGED mongoVars
      BY <3>1 DEF mongoVars, MongoOK, TypeOK
    <3>2. ASSUME NEW l \in ListId, NEW i \in Index(NextEntity(r)),
                 InsertList(NextEntity(r), l, i)
          PROVE  MongoOK'
      BY <2>1, <3>2, InsertListOK
    <3>. QED  BY <1>7, <3>1, <3>2 DEF CreateNewAllocationListFails
  <2>3. LedgerOK'
    BY <1>7, FaultOK
    DEF CreateNewAllocationListFails, LedgerOK, TypeOK, GoTo, Stage, ledgerVars
  <2>4. EntriesOK'
    BY <1>7, SameEntries DEF CreateNewAllocationListFails
  <2>. QED  BY <2>2, <2>3, <2>4 DEF TypeOK, EntriesOK, MongoOK, LedgerOK
<1>8. ASSUME NEW r \in Request, Allocated(r) PROVE TypeOK'
  BY <1>8, LedgerStepOK DEF Allocated, LedgerOK, TypeOK, GoTo, Stage, ledgerVars
<1>9. ASSUME NEW r \in Request, BuildVerifiableCredentials(r) PROVE TypeOK'
  <2>1. ListJobs("addRevocationList", NewLists(Revocation, r)) \subseteq Job
    BY NewListsOK, EntityFacts DEF ListJobs, Job, ListJob, JobStep
  <2>. QED  BY <1>9, <2>1, LedgerStepOK
            DEF BuildVerifiableCredentials, LedgerOK, TypeOK, GoTo, Stage, ledgerVars
<1>10. ASSUME NEW r \in Request, RevocationListsCreated(r) PROVE TypeOK'
  <2>1. ListJobs("newMetadataList", NewLists(Metadata, r)) \subseteq Job
    BY NewListsOK, EntityFacts DEF ListJobs, Job, ListJob, JobStep
  <2>. QED  BY <1>10, <2>1, LedgerStepOK
            DEF RevocationListsCreated, LedgerOK, TypeOK, GoTo, Stage, ledgerVars
<1>11. ASSUME NEW r \in Request, MetadataListsCreated(r) PROVE TypeOK'
  <2>1. {[step |-> "setEntry", offer |-> k] : k \in Offer} \subseteq Job
    BY DEF Job, EntryJob
  <2>. QED  BY <1>11, <2>1, LedgerStepOK
            DEF MetadataListsCreated, LedgerOK, TypeOK, GoTo, Stage, ledgerVars
<1>12. ASSUME NEW r \in Request, Return(r) PROVE TypeOK'
  BY <1>12, LedgerStepOK DEF Return, LedgerOK, TypeOK, GoTo, Stage, ledgerVars
<1>13. ASSUME NEW r \in Request, Throws(r) PROVE TypeOK'
  BY <1>13, LedgerStepOK, FaultOK DEF Throws, LedgerOK, TypeOK, GoTo, Stage, ledgerVars
<1>14. ASSUME NEW r \in Request, Crash(r) PROVE TypeOK'
  BY <1>14, LedgerStepOK, FaultOK DEF Crash, LedgerOK, TypeOK, GoTo, Stage, ledgerVars
<1>15. CASE Finished
  BY <1>15, <1>1 DEF Finished
<1>. QED  BY <1>1, <1>2, <1>3, <1>4, <1>5, <1>6, <1>7, <1>8, <1>9, <1>10, <1>11,
             <1>12, <1>13, <1>14, <1>15, RunJobTypeOK DEF Next, Step, Environment

-----------------------------------------------------------------------------
(***************************************************************************)
(* The stages.                                                             *)
(***************************************************************************)

LEMMA SameAllocated ==
  ASSUME UNCHANGED entries, NEW q PROVE AllocatedAll(q)' <=> AllocatedAll(q)
  BY DEF AllocatedAll

\* Taking an entry leaves the other requests' entries alone.
LEMMA OtherAllocated ==
  ASSUME TypeOK, NEW r \in Request, NEW e \in Entity, NEW l \in ListId,
         NEW i \in Index(e), NEW b \in BOOLEAN, TakeEntry(r, e, l, i, b),
         NEW q \in Request, q # r
  PROVE  AllocatedAll(q)' <=> AllocatedAll(q)
<1>1. TookEntry(r, e, [listId |-> l, index |-> i, isNewList |-> b])
  BY TakeEntryFacts
<1>. QED  BY <1>1, EntityFacts DEF TookEntry, AllocatedAll

LEMMA RunJobStage ==
  ASSUME TypeOK, NEW r \in Request, RunJob(r)
  PROVE  \E job \in jobs[r] :
           /\ jobs' = [jobs EXCEPT ![r] = jobs'[r]]
           /\ \A j \in jobs'[r] : j \in jobs[r] \/ j.step # "setEntry"
           /\ stage' = stage \/ stage' = [stage EXCEPT ![r] = "failed"]
           /\ UNCHANGED <<mongoVars, entries>>
<1>1. PICK job \in jobs[r] : \/ AddRevocationList(r, job)
                             \/ AddWallet(r, job)
                             \/ NewMetadataList(r, job)
                             \/ IsExistMetadataList(r, job)
                             \/ SetEntry(r, job)
  BY DEF RunJob
<1>2. UNCHANGED <<mongoVars, entries>>
  BY <1>1 DEF AddRevocationList, AddWallet, NewMetadataList, IsExistMetadataList,
              SetEntry
<1>3. \/ Resolve(r, job)
      \/ Reject(r, job)
      \/ job \in ListJob /\ \E s \in JobStep : Continue(r, job, s)
  BY <1>1, JobKinds DEF AddRevocationList, AddWallet, NewMetadataList,
     IsExistMetadataList, SetEntry, Settle, JobStep
<1>4. stage' = stage \/ stage' = [stage EXCEPT ![r] = "failed"]
  BY <1>3 DEF Resolve, Reject, Continue, GoTo
<1>5. \/ jobs' = [jobs EXCEPT ![r] = @ \ {job}]
      \/ job \in ListJob /\ \E s \in JobStep :
           jobs' = [jobs EXCEPT ![r] = (@ \ {job}) \cup {[job EXCEPT !.step = s]}]
  BY <1>3 DEF Resolve, Reject, Continue
<1>6. jobs' = [jobs EXCEPT ![r] = jobs'[r]]
  BY <1>5 DEF TypeOK
<1>7. \A j \in jobs'[r] : j \in jobs[r] \/ j.step # "setEntry"
  BY <1>5 DEF TypeOK, ListJob, JobStep
<1>. QED  BY <1>2, <1>4, <1>6, <1>7

LEMMA InitStage == Init => StageInv
  BY DEF Init, StageInv

LEMMA NextStage == TypeOK /\ StageInv /\ [Next]_vars => StageInv'
<1> SUFFICES ASSUME TypeOK, StageInv, [Next]_vars PROVE StageInv'
  OBVIOUS
<1>1. CASE UNCHANGED vars
  BY <1>1, SameAllocated DEF vars, requestVars, StageInv
<1>2. ASSUME NEW r \in Request, Begin(r) PROVE StageInv'
  BY <1>2, SameAllocated DEF Begin, StageInv, GoTo, TypeOK
<1>3. ASSUME NEW r \in Request, AllocateNextEntry(r) PROVE StageInv'
  <2>1. PICK l \in allocationLists[NextEntity(r)], i \in Index(NextEntity(r)) :
          TakeEntry(r, NextEntity(r), l, i, FALSE)
    BY <1>3 DEF AllocateNextEntry
  <2>2. NextEntity(r) \in Entity /\ l \in ListId
    BY <1>3, NextEntityFacts DEF AllocateNextEntry, TypeOK
  <2>3. \A q \in Request : q # r => (AllocatedAll(q)' <=> AllocatedAll(q))
    BY <2>1, <2>2, OtherAllocated
  <2>. QED  BY <1>3, <2>3 DEF AllocateNextEntry, StageInv
<1>4. ASSUME NEW r \in Request, NoFreeIndex(r) PROVE StageInv'
  BY <1>4, SameAllocated DEF NoFreeIndex, StageInv, GoTo, TypeOK
<1>5. ASSUME NEW r \in Request, AllocateNextEntryFails(r) PROVE StageInv'
  BY <1>5, SameAllocated DEF AllocateNextEntryFails, StageInv, GoTo, TypeOK
<1>6. ASSUME NEW r \in Request, CreateNewAllocationList(r) PROVE StageInv'
  <2>1. PICK l \in ListId, i \in Index(NextEntity(r)) :
          TakeEntry(r, NextEntity(r), l, i, TRUE)
    BY <1>6 DEF CreateNewAllocationList
  <2>2. NextEntity(r) \in Entity
    BY DEF NextEntity, Entity
  <2>3. \A q \in Request : q # r => (AllocatedAll(q)' <=> AllocatedAll(q))
    BY <2>1, <2>2, OtherAllocated
  <2>. QED  BY <1>6, <2>3 DEF CreateNewAllocationList, StageInv, GoTo, TypeOK
<1>7. ASSUME NEW r \in Request, CreateNewAllocationListFails(r) PROVE StageInv'
  BY <1>7, SameAllocated DEF CreateNewAllocationListFails, StageInv, GoTo, TypeOK
<1>8. ASSUME NEW r \in Request, Allocated(r) PROVE StageInv'
  BY <1>8, SameAllocated DEF Allocated, StageInv, GoTo, TypeOK
<1>9. ASSUME NEW r \in Request, BuildVerifiableCredentials(r) PROVE StageInv'
  BY <1>9, SameAllocated DEF BuildVerifiableCredentials, StageInv, GoTo, TypeOK
<1>10. ASSUME NEW r \in Request, RevocationListsCreated(r) PROVE StageInv'
  BY <1>10, SameAllocated DEF RevocationListsCreated, StageInv, GoTo, TypeOK
<1>11. ASSUME NEW r \in Request, MetadataListsCreated(r) PROVE StageInv'
  BY <1>11, SameAllocated DEF MetadataListsCreated, StageInv, GoTo, TypeOK
<1>12. ASSUME NEW r \in Request, Return(r) PROVE StageInv'
  BY <1>12, SameAllocated DEF Return, StageInv, GoTo, TypeOK
<1>13. ASSUME NEW r \in Request, Throws(r) PROVE StageInv'
  BY <1>13, SameAllocated DEF Throws, StageInv, GoTo, TypeOK
<1>14. ASSUME NEW r \in Request, Crash(r) PROVE StageInv'
  BY <1>14, SameAllocated DEF Crash, StageInv, GoTo, TypeOK
<1>15. ASSUME NEW r \in Request, RunJob(r) PROVE StageInv'
  <2>1. /\ \E job \in jobs[r] : TRUE
        /\ jobs' = [jobs EXCEPT ![r] = jobs'[r]]
        /\ \A j \in jobs'[r] : j \in jobs[r] \/ j.step # "setEntry"
        /\ stage' = stage \/ stage' = [stage EXCEPT ![r] = "failed"]
        /\ UNCHANGED <<mongoVars, entries>>
    BY <1>15, RunJobStage
  <2>2. stage[r] \notin {"idle", "allocating", "creating", "building", "returned"}
    BY <2>1 DEF StageInv
  <2>3. \A q \in Request : AllocatedAll(q)' <=> AllocatedAll(q)
    BY <2>1, SameAllocated
  <2>. QED  BY <2>1, <2>2, <2>3 DEF StageInv, TypeOK
<1>16. CASE Finished
  BY <1>16, <1>1 DEF Finished
<1>. QED  BY <1>1, <1>2, <1>3, <1>4, <1>5, <1>6, <1>7, <1>8, <1>9, <1>10, <1>11,
             <1>12, <1>13, <1>14, <1>15, <1>16 DEF Next, Step, Environment

-----------------------------------------------------------------------------
(***************************************************************************)
(* Allocation.                                                             *)
(***************************************************************************)

\* An entry taken from an index that was free, or from a list that was not
\* there, and that is not free afterwards, belongs to no other offer.
LEMMA TakeEntryUnique ==
  ASSUME TypeOK, AllocationInv, NEW r \in Request, NEW e \in Entity,
         NEW l \in ListId, NEW i \in Index(e), NEW b \in BOOLEAN,
         TakeEntry(r, e, l, i, b),
         i \in freeIndexes[e][l] \/ l \notin allocationLists[e],
         l \in allocationLists'[e], i \notin freeIndexes'[e][l],
         \A d \in Entity : allocationLists[d] \subseteq allocationLists'[d],
         \A d \in Entity, m \in ListId :
           m \in allocationLists[d] => freeIndexes'[d][m] \subseteq freeIndexes[d][m]
  PROVE  AllocationInv'
<1> DEFINE x == [listId |-> l, index |-> i, isNewList |-> b]
           n == Len(entries[e][r])
<1>1. TookEntry(r, e, x)
  BY TakeEntryFacts
<1>2. \A d \in Entity, q \in Request :
        Len(entries[d][q]) \in Nat /\ entries[d][q] \in Seq(Entry)
  BY DEF TypeOK
<1>3. \A d \in Entity, q \in Request : \A k \in 1 .. Len(entries[d][q]) :
        entries[d][q][k].listId \in ListId
  <2>1. \A d \in Entity, q \in Request : \A k \in 1 .. Len(entries[d][q]) :
          entries[d][q][k] \in Entry
    BY <1>2
  <2>. QED  BY <2>1 DEF Entry
\* every entry is an old one or the new one
<1>4. ASSUME NEW d \in Entity, NEW q \in Request, NEW k \in 1 .. Len(entries'[d][q])
      PROVE  \/ d = e /\ q = r /\ k = n + 1 /\ entries'[d][q][k] = x
             \/ /\ k \in 1 .. Len(entries[d][q])
                /\ entries'[d][q][k] = entries[d][q][k]
  <2>1. CASE d = e /\ q = r
    <3>1. k \in 1 .. n \/ k = n + 1
      BY <1>1, <1>2, <2>1 DEF TookEntry
    <3>. QED  BY <1>1, <2>1, <3>1 DEF TookEntry
  <2>2. CASE d # e \/ q # r
    BY <1>1, <2>2 DEF TookEntry
  <2>. QED  BY <2>1, <2>2
\* no old entry of the entity is where the new one is
<1>5. ASSUME NEW q \in Request, NEW k \in 1 .. Len(entries[e][q])
      PROVE  entries[e][q][k].listId # l \/ entries[e][q][k].index # i
  BY DEF AllocationInv
<1>6. ASSUME NEW d \in Entity, NEW q \in Request, NEW k \in 1 .. Len(entries'[d][q])
      PROVE  /\ entries'[d][q][k].listId \in allocationLists'[d]
             /\ entries'[d][q][k].index
                  \notin freeIndexes'[d][entries'[d][q][k].listId]
  <2>1. CASE d = e /\ entries'[d][q][k] = x
    BY <2>1
  <2>2. CASE /\ k \in 1 .. Len(entries[d][q])
             /\ entries'[d][q][k] = entries[d][q][k]
    <3>1. /\ entries[d][q][k].listId \in allocationLists[d]
          /\ entries[d][q][k].index \notin freeIndexes[d][entries[d][q][k].listId]
      BY <2>2 DEF AllocationInv
    <3>. QED  BY <1>3, <2>2, <3>1
  <2>. QED  BY <1>4, <2>1, <2>2
<1>7. ASSUME NEW d \in Entity, NEW q \in Request, NEW p \in Request,
             NEW k \in 1 .. Len(entries'[d][q]), NEW m \in 1 .. Len(entries'[d][p]),
             entries'[d][q][k].listId = entries'[d][p][m].listId,
             entries'[d][q][k].index = entries'[d][p][m].index
      PROVE  q = p /\ k = m
  <2>1. CASE /\ k \in 1 .. Len(entries[d][q])
             /\ entries'[d][q][k] = entries[d][q][k]
             /\ m \in 1 .. Len(entries[d][p])
             /\ entries'[d][p][m] = entries[d][p][m]
    BY <1>7, <2>1 DEF AllocationInv, UniqueAllocation, SlotOf
  <2>2. CASE /\ d = e /\ q = r /\ k = n + 1 /\ entries'[d][q][k] = x
             /\ m \in 1 .. Len(entries[d][p])
             /\ entries'[d][p][m] = entries[d][p][m]
    BY <1>5, <1>7, <2>2
  <2>3. CASE /\ d = e /\ p = r /\ m = n + 1 /\ entries'[d][p][m] = x
             /\ k \in 1 .. Len(entries[d][q])
             /\ entries'[d][q][k] = entries[d][q][k]
    BY <1>5, <1>7, <2>3
  <2>. QED  BY <1>4, <2>1, <2>2, <2>3
<1>. QED  BY <1>6, <1>7 DEF AllocationInv, UniqueAllocation, SlotOf

\* Steps that take no entry can only take free indexes away.
LEMMA SameAllocation ==
  ASSUME TypeOK, AllocationInv, UNCHANGED entries,
         \A d \in Entity : allocationLists[d] \subseteq allocationLists'[d],
         \A d \in Entity, m \in ListId :
           m \in allocationLists[d] => freeIndexes'[d][m] \subseteq freeIndexes[d][m]
  PROVE  AllocationInv'
<1>1. UniqueAllocation'
  BY DEF AllocationInv, UniqueAllocation, SlotOf
<1>2. ASSUME NEW e \in Entity, NEW r \in Request, NEW k \in 1 .. Len(entries[e][r])
      PROVE  /\ entries[e][r][k].listId \in allocationLists'[e]
             /\ entries[e][r][k].index
                  \notin freeIndexes'[e][entries[e][r][k].listId]
  <2>1. entries[e][r] \in Seq(Entry)
    BY DEF TypeOK
  <2>2. entries[e][r][k].listId \in ListId
    <3>1. entries[e][r][k] \in Entry
      BY <2>1
    <3>. QED  BY <3>1 DEF Entry
  <2>3. /\ entries[e][r][k].listId \in allocationLists[e]
        /\ entries[e][r][k].index \notin freeIndexes[e][entries[e][r][k].listId]
    BY DEF AllocationInv
  <2>. QED  BY <2>2, <2>3
<1>. QED  BY <1>1, <1>2 DEF AllocationInv

LEMMA PopIndexFacts ==
  ASSUME TypeOK, NEW e \in Entity, NEW l \in allocationLists[e], NEW i \in Index(e),
         PopIndex(e, l, i), UNCHANGED allocationLists
  PROVE  /\ i \in freeIndexes[e][l]
         /\ i \notin freeIndexes'[e][l]
         /\ \A d \in Entity : allocationLists[d] \subseteq allocationLists'[d]
         /\ \A d \in Entity, m \in ListId :
              m \in allocationLists[d] => freeIndexes'[d][m] \subseteq freeIndexes[d][m]
<1>1. l \in ListId
  BY DEF TypeOK
<1>. QED  BY <1>1 DEF TypeOK, PopIndex

LEMMA InsertListFacts ==
  ASSUME TypeOK, NEW e \in Entity, NEW l \in ListId, NEW i \in Index(e),
         InsertList(e, l, i)
  PROVE  /\ l \notin allocationLists[e]
         /\ l \in allocationLists'[e]
         /\ i \notin freeIndexes'[e][l]
         /\ \A d \in Entity : allocationLists[d] \subseteq allocationLists'[d]
         /\ \A d \in Entity, m \in ListId :
              m \in allocationLists[d] => freeIndexes'[d][m] \subseteq freeIndexes[d][m]
<1>1. /\ l \notin allocationLists[e]
      /\ allocationLists' = [allocationLists EXCEPT ![e] = @ \cup {l}]
      /\ freeIndexes' = [freeIndexes EXCEPT ![e][l] = Index(e) \ {i}]
  BY DEF InsertList
<1>. QED  BY <1>1 DEF TypeOK

LEMMA InitAllocation == Init => AllocationInv
<1> SUFFICES ASSUME Init PROVE AllocationInv
  OBVIOUS
<1>1. \A e \in Entity, r \in Request : Len(entries[e][r]) = 0
  BY DEF Init
<1>. QED  BY <1>1 DEF AllocationInv, UniqueAllocation

\* Every step keeps the allocation invariant.
LEMMA NextAllocation ==
  TypeOK /\ StageInv /\ AllocationInv /\ [Next]_vars => AllocationInv'
<1> SUFFICES ASSUME TypeOK, StageInv, AllocationInv, [Next]_vars
             PROVE  AllocationInv'
  OBVIOUS
<1>1. ASSUME UNCHANGED <<mongoVars, entries>> PROVE AllocationInv'
  BY <1>1, SameAllocation DEF mongoVars
<1>2. ASSUME NEW r \in Request, AllocateNextEntry(r) PROVE AllocationInv'
  <2> DEFINE e == NextEntity(r)
  <2>1. PICK l \in allocationLists[e], i \in Index(e) :
          PopIndex(e, l, i) /\ TakeEntry(r, e, l, i, FALSE)
    BY <1>2 DEF AllocateNextEntry
  <2>2. e \in Entity /\ l \in ListId
    BY <1>2, NextEntityFacts DEF AllocateNextEntry, TypeOK
  <2>3. UNCHANGED allocationLists
    BY <1>2 DEF AllocateNextEntry
  <2>. HIDE DEF e
  <2>. QED  BY <2>1, <2>2, <2>3, PopIndexFacts, TakeEntryUnique
<1>3. ASSUME NEW r \in Request, AllocateNextEntryFails(r) PROVE AllocationInv'
  <2> DEFINE e == NextEntity(r)
  <2>1. CASE UNCHANGED freeIndexes
    BY <1>3, <2>1, SameAllocation DEF AllocateNextEntryFails
  <2>2. ASSUME NEW l \in allocationLists[e], NEW i \in Index(e), PopIndex(e, l, i)
        PROVE  AllocationInv'
    <3>1. e \in Entity /\ UNCHANGED <<allocationLists, entries>>
      BY <1>3, NextEntityFacts DEF AllocateNextEntryFails
    <3>. HIDE DEF e
    <3>. QED  BY <2>2, <3>1, PopIndexFacts, SameAllocation
  <2>. QED  BY <1>3, <2>1, <2>2 DEF AllocateNextEntryFails
<1>4. ASSUME NEW r \in Request, CreateNewAllocationList(r) PROVE AllocationInv'
  <2> DEFINE e == NextEntity(r)
  <2>1. PICK l \in ListId, i \in Index(e) :
          InsertList(e, l, i) /\ TakeEntry(r, e, l, i, TRUE)
    BY <1>4 DEF CreateNewAllocationList
  <2>2. e \in Entity
    BY DEF NextEntity, Entity
  <2>. HIDE DEF e
  <2>3. /\ l \notin allocationLists[e]
        /\ l \in allocationLists'[e]
        /\ i \notin freeIndexes'[e][l]
        /\ \A d \in Entity : allocationLists[d] \subseteq allocationLists'[d]
        /\ \A d \in Entity, m \in ListId :
             m \in allocationLists[d] => freeIndexes'[d][m] \subseteq freeIndexes[d][m]
    BY <2>1, <2>2, InsertListFacts
  <2>. QED  BY <2>1, <2>2, <2>3, TakeEntryUnique
<1>5. ASSUME NEW r \in Request, CreateNewAllocationListFails(r) PROVE AllocationInv'
  <2> DEFINE e == NextEntity(r)
  <2>1. CASE UNCHANGED mongoVars
    BY <1>1, <1>5, <2>1 DEF CreateNewAllocationListFails
  <2>2. ASSUME NEW l \in ListId, NEW i \in Index(e), InsertList(e, l, i)
        PROVE  AllocationInv'
    <3>1. e \in Entity /\ UNCHANGED entries
      BY <1>5 DEF CreateNewAllocationListFails, NextEntity, Entity
    <3>. HIDE DEF e
    <3>. QED  BY <2>2, <3>1, InsertListFacts, SameAllocation
  <2>. QED  BY <1>5, <2>1, <2>2 DEF CreateNewAllocationListFails
<1>6. ASSUME NEW r \in Request, RunJob(r) PROVE AllocationInv'
  BY <1>1, <1>6, RunJobStage
<1>7. ASSUME NEW r \in Request,
             \/ Begin(r) \/ NoFreeIndex(r) \/ Allocated(r)
             \/ BuildVerifiableCredentials(r) \/ RevocationListsCreated(r)
             \/ MetadataListsCreated(r) \/ Return(r) \/ Throws(r) \/ Crash(r)
      PROVE  AllocationInv'
  BY <1>1, <1>7 DEF Begin, NoFreeIndex, Allocated, BuildVerifiableCredentials,
     RevocationListsCreated, MetadataListsCreated, Return, Throws, Crash
<1>8. CASE UNCHANGED vars
  BY <1>1, <1>8 DEF vars, requestVars
<1>9. CASE Finished
  BY <1>8, <1>9 DEF Finished
<1>10. CASE \E r \in Request : Begin(r) \/ Step(r) \/ Environment(r)
  BY <1>2, <1>3, <1>4, <1>5, <1>6, <1>7, <1>10 DEF Step, Environment
<1>. QED  BY <1>8, <1>9, <1>10 DEF Next

-----------------------------------------------------------------------------
(***************************************************************************)
(* Anchoring.                                                              *)
(***************************************************************************)

\* Entries only grow at their ends.
EntriesGrow ==
  \A e \in Entity, q \in Request :
    /\ Len(entries[e][q]) \in Nat
    /\ Len(entries[e][q]) <= Len(entries'[e][q])
    /\ \A k \in 1 .. Len(entries[e][q]) : entries'[e][q][k] = entries[e][q][k]

LEMMA TakeEntryGrows ==
  ASSUME TypeOK, NEW r \in Request, NEW e \in Entity, NEW l \in ListId,
         NEW i \in Index(e), NEW b \in BOOLEAN, TakeEntry(r, e, l, i, b)
  PROVE  EntriesGrow
<1>1. TookEntry(r, e, [listId |-> l, index |-> i, isNewList |-> b])
  BY TakeEntryFacts
<1>2. \A d \in Entity, q \in Request : Len(entries[d][q]) \in Nat
  BY DEF TypeOK
<1>3. ASSUME NEW d \in Entity, NEW q \in Request
      PROVE  /\ Len(entries[d][q]) <= Len(entries'[d][q])
             /\ \A k \in 1 .. Len(entries[d][q]) :
                  entries'[d][q][k] = entries[d][q][k]
  <2>1. CASE d = e /\ q = r
    BY <1>1, <1>2, <2>1 DEF TookEntry
  <2>2. CASE d # e \/ q # r
    BY <1>1, <1>2, <2>2 DEF TookEntry
  <2>. QED  BY <2>1, <2>2
<1>. QED  BY <1>2, <1>3 DEF EntriesGrow

LEMMA SameEntriesGrow == ASSUME TypeOK, UNCHANGED entries PROVE EntriesGrow
<1>1. \A d \in Entity, q \in Request : Len(entries[d][q]) \in Nat
  BY DEF TypeOK
<1>. QED  BY <1>1 DEF EntriesGrow

\* The first conjunct of AnchorInv: the ledger knows who holds an entry.
AnchoredByHolder ==
  \A l \in ListId, i \in Index(Metadata), r \in Request, k \in Offer :
    indexUsed[l][i] = <<r, k>> =>
      k <= Len(entries[Metadata][r]) /\ SlotOf(Metadata, r, k) = <<l, i>>

LEMMA HolderKept ==
  ASSUME AnchoredByHolder, EntriesGrow, UNCHANGED indexUsed
  PROVE  AnchoredByHolder'
<1> SUFFICES ASSUME NEW l \in ListId, NEW i \in Index(Metadata), NEW r \in Request,
                    NEW k \in Offer, indexUsed'[l][i] = <<r, k>>
             PROVE  /\ k <= Len(entries'[Metadata][r])
                    /\ SlotOf(Metadata, r, k)' = <<l, i>>
  BY DEF AnchoredByHolder
<1>1. k <= Len(entries[Metadata][r]) /\ SlotOf(Metadata, r, k) = <<l, i>>
  BY DEF AnchoredByHolder
<1>2. /\ Len(entries[Metadata][r]) \in Nat
      /\ Len(entries[Metadata][r]) <= Len(entries'[Metadata][r])
      /\ \A j \in 1 .. Len(entries[Metadata][r]) :
           entries'[Metadata][r][j] = entries[Metadata][r][j]
  BY EntityFacts DEF EntriesGrow
<1>. QED  BY <1>1, <1>2 DEF SlotOf, Offer

\* What the ledger holds stays: lists are not removed and entries not
\* overwritten.
LedgerGrows ==
  /\ lists \subseteq lists'
  /\ \A l \in ListId, i \in Index(Metadata) :
       indexUsed[l][i] # NoCredential => indexUsed'[l][i] = indexUsed[l][i]

\* An offer whose request has all its entries keeps its anchor.
LEMMA AnchorKept ==
  ASSUME TypeOK, NEW r \in Request, NEW k \in Offer, AllocatedAll(r),
         EntriesGrow, LedgerGrows, AnchoredFor(r, k)
  PROVE  AnchoredFor(r, k)'
<1> DEFINE entry == entries[Metadata][r][k]
<1>1. k \in 1 .. Len(entries[Metadata][r])
  BY DEF AllocatedAll, Offer
<1>2. entries'[Metadata][r][k] = entry
  BY <1>1, EntityFacts DEF EntriesGrow
<1>3. entry \in Entry /\ entry.index \in Index(Metadata)
  BY <1>1, EntityFacts DEF TypeOK
<1>4. entry.listId \in ListId
  BY <1>3 DEF Entry
<1>5. entry.listId \in lists /\ indexUsed[entry.listId][entry.index] = <<r, k>>
  BY DEF AnchoredFor
<1>6. <<r, k>> # NoCredential
  BY DEF NoCredential
<1>7. entry.listId \in lists' /\ indexUsed'[entry.listId][entry.index] = <<r, k>>
  BY <1>3, <1>4, <1>5, <1>6 DEF LedgerGrows
<1>. QED  BY <1>2, <1>7 DEF AnchoredFor

\* The second conjunct of AnchorInv, for one request.
AnchorProgress(r) ==
  \A k \in Offer :
    /\ stage[r] = "anchoring" =>
         [step |-> "setEntry", offer |-> k] \in jobs[r] \/ AnchoredFor(r, k)
    /\ stage[r] = "returned" => AnchoredFor(r, k)

\* A request whose stage and anchoring jobs are left alone keeps its progress.
LEMMA ProgressKept ==
  ASSUME TypeOK, StageInv, EntriesGrow, LedgerGrows, NEW q \in Request,
         AnchorProgress(q), stage'[q] \in {"anchoring", "returned"} => stage'[q] = stage[q],
         \A k \in Offer : LET j == [step |-> "setEntry", offer |-> k] IN
           j \in jobs[q] => j \in jobs'[q]
  PROVE  AnchorProgress(q)'
<1> SUFFICES ASSUME NEW k \in Offer, stage'[q] \in {"anchoring", "returned"}
             PROVE  /\ stage'[q] = "anchoring" =>
                         \/ [step |-> "setEntry", offer |-> k] \in jobs'[q]
                         \/ AnchoredFor(q, k)'
                    /\ stage'[q] = "returned" => AnchoredFor(q, k)'
  BY DEF AnchorProgress
<1>1. stage[q] = stage'[q] /\ AllocatedAll(q)
  BY DEF StageInv
<1>2. AnchoredFor(q, k) => AnchoredFor(q, k)'
  BY <1>1, AnchorKept
<1>. QED  BY <1>1, <1>2 DEF AnchorProgress

LEMMA AnchorParts ==
  AnchorInv <=> AnchoredByHolder /\ \A r \in Request : AnchorProgress(r)
  BY DEF AnchorInv, AnchoredByHolder, AnchorProgress

\* A transaction that sets an entry sets an unused one of an existing list.
LEMMA SetEntryFacts ==
  ASSUME TypeOK, StageInv, NEW r \in Request, NEW job \in jobs[r], SetEntry(r, job),
         AnchoredByHolder
  PROVE  /\ job = [step |-> "setEntry", offer |-> job.offer] /\ job.offer \in Offer
         /\ LedgerGrows
         /\ AnchoredByHolder'
         /\ Reject(r, job) \/ (Resolve(r, job) /\ AnchoredFor(r, job.offer)')
<1> DEFINE k == job.offer
           entry == entries[Metadata][r][k]
           l == entry.listId
           i == entry.index
<1>1. job \in EntryJob
  BY JobKinds DEF SetEntry
<1>2. job = [step |-> "setEntry", offer |-> job.offer] /\ k \in Offer
  BY <1>1 DEF EntryJob
<1>3. AllocatedAll(r)
  BY DEF StageInv, SetEntry
<1>4. k \in 1 .. Len(entries[Metadata][r]) /\ Len(entries[Metadata][r]) = NOffers
  BY <1>2, <1>3 DEF AllocatedAll, Offer
<1>5. entry \in Entry /\ i \in Index(Metadata)
  BY <1>4, EntityFacts DEF TypeOK
<1>6. l \in ListId
  BY <1>5 DEF Entry
<1>7. /\ UNCHANGED <<entries, lists>>
      /\ \/ UNCHANGED indexUsed /\ Reject(r, job)
         \/ /\ indexUsed[l][i] = NoCredential /\ l \in lists
            /\ indexUsed' = [indexUsed EXCEPT ![l][i] = <<r, k>>]
            /\ Reject(r, job) \/ Resolve(r, job)
  <2>1. PICK o \in Outcomes(indexUsed[l][i] = NoCredential /\ l \in lists) :
          /\ indexUsed' = IF Applied(o) THEN [indexUsed EXCEPT ![l][i] = <<r, k>>]
                                        ELSE indexUsed
          /\ Settle(r, job, o)
    BY DEF SetEntry
  <2>2. Applied(o) => indexUsed[l][i] = NoCredential /\ l \in lists
    BY DEF Outcomes, Applied
  <2>3. IF o = "mined" THEN Resolve(r, job) ELSE Reject(r, job)
    BY <2>1 DEF Settle
  <2>4. o = "mined" => Applied(o)
    BY DEF Applied
  <2>. HIDE DEF l, i, k
  <2>5. UNCHANGED <<entries, lists>>
    BY DEF SetEntry
  <2>. QED  BY <2>1, <2>2, <2>3, <2>4, <2>5
<1>8. CASE UNCHANGED indexUsed /\ Reject(r, job)
  <2>1. LedgerGrows
    BY <1>7, <1>8 DEF LedgerGrows
  <2>2. EntriesGrow
    BY <1>7, SameEntriesGrow
  <2>. QED  BY <1>2, <1>8, <2>1, <2>2, HolderKept
<1>9. CASE /\ indexUsed[l][i] = NoCredential /\ l \in lists
           /\ indexUsed' = [indexUsed EXCEPT ![l][i] = <<r, k>>]
           /\ Reject(r, job) \/ Resolve(r, job)
  <2>1. /\ indexUsed'[l][i] = <<r, k>>
        /\ \A m \in ListId, j \in Index(Metadata) :
             m # l \/ j # i => indexUsed'[m][j] = indexUsed[m][j]
    BY <1>5, <1>6, <1>9 DEF TypeOK
  <2>2. LedgerGrows
    BY <1>7, <1>9, <2>1 DEF LedgerGrows
  <2>3. AnchoredByHolder'
    <3> SUFFICES ASSUME NEW m \in ListId, NEW j \in Index(Metadata),
                        NEW q \in Request, NEW n \in Offer, indexUsed'[m][j] = <<q, n>>
                 PROVE  /\ n <= Len(entries'[Metadata][q])
                        /\ SlotOf(Metadata, q, n)' = <<m, j>>
      BY DEF AnchoredByHolder
    <3>1. CASE m = l /\ j = i
      <4>1. q = r /\ n = k
        <5>1. <<r, k>> = <<q, n>>
          BY <2>1, <3>1
        <5>. HIDE DEF k
        <5>. QED  BY <5>1
      <4>2. k <= Len(entries[Metadata][r])
        BY <1>4
      <4>. QED  BY <1>7, <3>1, <4>1, <4>2 DEF SlotOf
    <3>2. CASE m # l \/ j # i
      <4>1. indexUsed[m][j] = <<q, n>>
        BY <2>1, <3>2
      <4>2. /\ n <= Len(entries[Metadata][q])
            /\ SlotOf(Metadata, q, n) = <<m, j>>
        BY <4>1 DEF AnchoredByHolder
      <4>3. SlotOf(Metadata, q, n)' = SlotOf(Metadata, q, n)
        BY <1>7 DEF SlotOf
      <4>. QED  BY <1>7, <4>2, <4>3
    <3>. QED  BY <3>1, <3>2
  <2>4. AnchoredFor(r, k)'
    BY <1>7, <1>9, <2>1 DEF AnchoredFor
  <2>. QED  BY <1>2, <1>9, <2>2, <2>3, <2>4
<1>. QED  BY <1>7, <1>8, <1>9

LEMMA InitAnchor == Init => AnchorInv
<1> SUFFICES ASSUME Init PROVE AnchorInv
  OBVIOUS
<1>1. \A l \in ListId, i \in Index(Metadata), r \in Request, k \in Offer :
        indexUsed[l][i] # <<r, k>>
  BY DEF Init, NoCredential
<1>2. \A r \in Request : stage[r] = "idle"
  BY DEF Init
<1>. QED  BY <1>1, <1>2 DEF AnchorInv

\* Steps that leave the ledger and the anchoring jobs alone and bring no
\* request to its last stage or to its return.
LEMMA SameAnchors ==
  ASSUME TypeOK, StageInv, AnchorInv, EntriesGrow,
         UNCHANGED <<lists, indexUsed>>,
         \A q \in Request : stage'[q] \in {"anchoring", "returned"} =>
           stage'[q] = stage[q] /\ jobs'[q] = jobs[q]
  PROVE  AnchorInv'
<1>1. LedgerGrows
  BY DEF LedgerGrows
<1>2. AnchoredByHolder'
  BY HolderKept, AnchorParts
<1>3. ASSUME NEW q \in Request PROVE AnchorProgress(q)'
  <2>1. AnchorProgress(q)
    BY AnchorParts
  <2>2. CASE stage'[q] \in {"anchoring", "returned"}
    BY <1>1, <2>1, <2>2, ProgressKept
  <2>3. CASE stage'[q] \notin {"anchoring", "returned"}
    BY <2>3 DEF AnchorProgress
  <2>. QED  BY <2>2, <2>3
<1>. QED  BY <1>2, <1>3 DEF AnchorInv, AnchoredByHolder, AnchorProgress

\* A job that is settled or continued takes away no other job.
LEMMA RunJobAnchor ==
  ASSUME TypeOK, StageInv, AnchorInv, NEW r \in Request, RunJob(r)
  PROVE  AnchorInv'
<1>1. PICK job \in jobs[r] : \/ AddRevocationList(r, job)
                             \/ AddWallet(r, job)
                             \/ NewMetadataList(r, job)
                             \/ IsExistMetadataList(r, job)
                             \/ SetEntry(r, job)
  BY DEF RunJob
<1>2. AnchoredByHolder /\ \A q \in Request : AnchorProgress(q)
  BY AnchorParts
<1>3. UNCHANGED entries
  BY <1>1 DEF AddRevocationList, AddWallet, NewMetadataList, IsExistMetadataList,
              SetEntry
<1>4. EntriesGrow
  BY <1>3, SameEntriesGrow
<1>5. \/ Resolve(r, job) \/ Reject(r, job)
      \/ job \in ListJob /\ \E s \in JobStep : Continue(r, job, s)
  BY <1>1, JobKinds DEF AddRevocationList, AddWallet, NewMetadataList,
     IsExistMetadataList, SetEntry, Settle, JobStep
<1>6. \A q \in Request : stage'[q] = stage[q] \/ (q = r /\ stage'[q] = "failed")
  BY <1>5 DEF Resolve, Reject, Continue, GoTo, TypeOK
<1>7. \A q \in Request : \A j \in jobs[q] : j \in jobs'[q] \/ (q = r /\ j = job)
  BY <1>5 DEF Resolve, Reject, Continue, TypeOK
<1>8. LedgerGrows /\ AnchoredByHolder'
  <2>1. CASE SetEntry(r, job)
    BY <1>2, <2>1, SetEntryFacts
  <2>2. CASE ~ SetEntry(r, job)
    <3>1. lists \subseteq lists' /\ UNCHANGED indexUsed
      BY <1>1, <2>2 DEF AddRevocationList, AddWallet, NewMetadataList,
         IsExistMetadataList, ledgerVars
    <3>. QED  BY <1>2, <1>4, <3>1, HolderKept DEF LedgerGrows
  <2>. QED  BY <2>1, <2>2
<1>9. ASSUME NEW q \in Request PROVE AnchorProgress(q)'
  <2>1. CASE q = r /\ stage'[q] = "failed"
    BY <2>1 DEF AnchorProgress
  <2>2. CASE stage'[q] = stage[q] /\ (q # r \/ job.step # "setEntry")
    <3>1. \A k \in Offer : LET j == [step |-> "setEntry", offer |-> k] IN
            j \in jobs[q] => j \in jobs'[q]
      BY <1>7, <2>2
    <3>. QED  BY <1>2, <1>4, <1>8, <2>2, <3>1, ProgressKept
  <2>3. CASE stage'[q] = stage[q] /\ q = r /\ job.step = "setEntry"
    <3>1. SetEntry(r, job)
      BY <1>1, <2>3 DEF AddRevocationList, AddWallet, NewMetadataList,
         IsExistMetadataList
    <3>2. /\ job = [step |-> "setEntry", offer |-> job.offer] /\ job.offer \in Offer
          /\ Reject(r, job) \/ (Resolve(r, job) /\ AnchoredFor(r, job.offer)')
      BY <1>2, <3>1, SetEntryFacts
    <3>3. CASE Reject(r, job)
      BY <2>3, <3>3 DEF Reject, GoTo, TypeOK, AnchorProgress
    <3>4. CASE AnchoredFor(r, job.offer)'
      <4>1. stage[r] # "returned"
        BY DEF StageInv
      <4>2. ASSUME NEW k \in Offer, stage'[r] = "anchoring"
            PROVE  [step |-> "setEntry", offer |-> k] \in jobs'[r] \/ AnchoredFor(r, k)'
        <5>1. CASE k = job.offer
          BY <3>4, <5>1
        <5>2. CASE k # job.offer
          <6>1. [step |-> "setEntry", offer |-> k] # job
            BY <3>2, <5>2
          <6>2. stage[r] = "anchoring" /\ AllocatedAll(r)
            BY <2>3, <4>2 DEF StageInv
          <6>3. [step |-> "setEntry", offer |-> k] \in jobs[r] \/ AnchoredFor(r, k)
            BY <1>2, <6>2 DEF AnchorProgress
          <6>4. AnchoredFor(r, k) => AnchoredFor(r, k)'
            BY <1>4, <1>8, <6>2, AnchorKept
          <6>. QED  BY <1>7, <6>1, <6>3, <6>4
        <5>. QED  BY <5>1, <5>2
      <4>. QED  BY <2>3, <4>1, <4>2 DEF AnchorProgress
    <3>. QED  BY <3>2, <3>3, <3>4
  <2>. QED  BY <1>6, <2>1, <2>2, <2>3
<1>. QED  BY <1>8, <1>9 DEF AnchorInv, AnchoredByHolder, AnchorProgress

\* Every step keeps the anchoring invariant.
LEMMA NextAnchor == TypeOK /\ StageInv /\ AnchorInv /\ [Next]_vars => AnchorInv'
<1> SUFFICES ASSUME TypeOK, StageInv, AnchorInv, [Next]_vars
             PROVE  AnchorInv'
  OBVIOUS
<1>1. CASE UNCHANGED vars
  BY <1>1, SameEntriesGrow, SameAnchors DEF vars, ledgerVars, requestVars
<1>2. ASSUME NEW r \in Request,
             \/ Begin(r) \/ NoFreeIndex(r) \/ Allocated(r) \/ Throws(r) \/ Crash(r)
             \/ BuildVerifiableCredentials(r) \/ RevocationListsCreated(r)
             \/ AllocateNextEntryFails(r) \/ CreateNewAllocationListFails(r)
      PROVE  AnchorInv'
  <2>1. UNCHANGED <<entries, lists, indexUsed>>
    BY <1>2 DEF Begin, NoFreeIndex, Allocated, Throws, Crash,
       BuildVerifiableCredentials, RevocationListsCreated, AllocateNextEntryFails,
       CreateNewAllocationListFails, ledgerVars
  <2>2. \A q \in Request : stage'[q] \in {"anchoring", "returned"} =>
          stage'[q] = stage[q] /\ jobs'[q] = jobs[q]
    <3>1. CASE Crash(r)
      <4>1. stage[r] = "anchoring" => r \in InFlight
        BY DEF InFlight, Settled
      <4>2. stage[r] = "returned" => jobs[r] = {} /\ r \notin InFlight
        BY DEF StageInv, InFlight, Settled
      <4>3. stage'[r] \notin {"anchoring", "returned"}
        BY <3>1, <4>1, <4>2 DEF Crash, GoTo, TypeOK
      <4>4. \A q \in Request : q # r => stage'[q] = stage[q] /\ jobs'[q] = jobs[q]
        BY <3>1 DEF Crash, GoTo, TypeOK
      <4>. QED  BY <4>3, <4>4
    <3>2. CASE ~ Crash(r)
      BY <1>2, <3>2 DEF Begin, NoFreeIndex, Allocated, Throws,
         BuildVerifiableCredentials, RevocationListsCreated, AllocateNextEntryFails,
         CreateNewAllocationListFails, GoTo, TypeOK
    <3>. QED  BY <3>1, <3>2
  <2>. QED  BY <2>1, <2>2, SameEntriesGrow, SameAnchors
<1>3. ASSUME NEW r \in Request, AllocateNextEntry(r) PROVE AnchorInv'
  <2>1. PICK l \in allocationLists[NextEntity(r)], i \in Index(NextEntity(r)) :
          TakeEntry(r, NextEntity(r), l, i, FALSE)
    BY <1>3 DEF AllocateNextEntry
  <2>2. NextEntity(r) \in Entity /\ l \in ListId
    BY <1>3, NextEntityFacts DEF AllocateNextEntry, TypeOK
  <2>3. EntriesGrow
    BY <2>1, <2>2, TakeEntryGrows
  <2>. QED  BY <1>3, <2>3, SameAnchors DEF AllocateNextEntry, ledgerVars
<1>4. ASSUME NEW r \in Request, CreateNewAllocationList(r) PROVE AnchorInv'
  <2>1. PICK l \in ListId, i \in Index(NextEntity(r)) :
          TakeEntry(r, NextEntity(r), l, i, TRUE)
    BY <1>4 DEF CreateNewAllocationList
  <2>2. NextEntity(r) \in Entity
    BY DEF NextEntity, Entity
  <2>3. EntriesGrow
    BY <2>1, <2>2, TakeEntryGrows
  <2>4. \A q \in Request : stage'[q] \in {"anchoring", "returned"} =>
          stage'[q] = stage[q] /\ jobs'[q] = jobs[q]
    BY <1>4 DEF CreateNewAllocationList, GoTo, TypeOK
  <2>. QED  BY <1>4, <2>3, <2>4, SameAnchors DEF CreateNewAllocationList, ledgerVars
<1>5. ASSUME NEW r \in Request, MetadataListsCreated(r) \/ Return(r)
      PROVE  AnchorInv'
  <2>1. UNCHANGED <<entries, lists, indexUsed>>
    BY <1>5 DEF MetadataListsCreated, Return, ledgerVars
  <2>2. EntriesGrow /\ LedgerGrows
    BY <2>1, SameEntriesGrow DEF LedgerGrows
  <2>3. AnchoredByHolder'
    BY <2>1, <2>2, HolderKept, AnchorParts
  <2>4. ASSUME NEW q \in Request, q # r PROVE AnchorProgress(q)'
    <3>1. stage'[q] = stage[q] /\ jobs'[q] = jobs[q]
      BY <1>5, <2>4 DEF MetadataListsCreated, Return, GoTo, TypeOK
    <3>2. AnchorProgress(q)
      BY AnchorParts
    <3>. QED  BY <2>2, <3>1, <3>2, ProgressKept
  <2>5. AnchorProgress(r)'
    <3>1. CASE MetadataListsCreated(r)
      BY <3>1 DEF MetadataListsCreated, GoTo, TypeOK, AnchorProgress
    <3>2. CASE Return(r)
      <4>1. stage[r] = "anchoring" /\ jobs[r] = {} /\ stage'[r] = "returned"
        BY <3>2 DEF Return, GoTo, TypeOK
      <4>2. AllocatedAll(r) /\ \A k \in Offer : AnchoredFor(r, k)
        BY <4>1, AnchorParts DEF StageInv, AnchorProgress
      <4>3. \A k \in Offer : AnchoredFor(r, k)'
        BY <2>2, <4>2, AnchorKept
      <4>. QED  BY <4>1, <4>3 DEF AnchorProgress
    <3>. QED  BY <1>5, <3>1, <3>2
  <2>. QED  BY <2>3, <2>4, <2>5 DEF AnchorInv, AnchoredByHolder, AnchorProgress
<1>6. CASE Finished
  BY <1>1, <1>6 DEF Finished
<1>7. CASE \E r \in Request : Begin(r) \/ Step(r) \/ Environment(r)
  BY <1>2, <1>3, <1>4, <1>5, <1>7, RunJobAnchor DEF Step, Environment
<1>. QED  BY <1>1, <1>6, <1>7 DEF Next

-----------------------------------------------------------------------------
(***************************************************************************)
(* The theorems.                                                           *)
(***************************************************************************)

\* IInv is inductive: the types, the stages, the allocation and the anchoring
\* of issueVelocityVerifiableCredentials support one another.
THEOREM Invariance == Spec => []IInv
<1>1. Init => IInv
  BY InitTypeOK, InitStage, InitAllocation, InitAnchor DEF IInv
<1>2. IInv /\ [Next]_vars => IInv'
  BY NextTypeOK, NextStage, NextAllocation, NextAnchor DEF IInv
<1>. QED  BY <1>1, <1>2, PTL DEF Spec

\* The model's variables keep their types.
THEOREM TypeCorrect == Spec => []TypeOK
<1>1. IInv => TypeOK
  BY DEF IInv
<1>. QED  BY <1>1, Invariance, PTL

\* No two credentials are ever allocated the same index of the same list, by
\* however many requests at once and whatever fails.
THEOREM AllocationIsUnique == Spec => []UniqueAllocation
<1>1. IInv => UniqueAllocation
  BY DEF IInv, AllocationInv
<1>. QED  BY <1>1, Invariance, PTL

\* The credentials of a request that returned are anchored on the ledger,
\* each in its own entry.
THEOREM ReturnedIsAnchored == Spec => []IssuedIsAnchored
<1>1. IInv => IssuedIsAnchored
  BY DEF IInv, AnchorInv, IssuedIsAnchored
<1>. QED  BY <1>1, Invariance, PTL

-----------------------------------------------------------------------------
(***************************************************************************)
(* Issuing implements the abstract ledger.                                 *)
(***************************************************************************)

LEMMA InitLedger == Init => Ledger!Init
<1> SUFFICES ASSUME Init PROVE Ledger!Init
  OBVIOUS
<1>1. \A c \in Credential : ReservedSlots[c] = {}
  BY EntityFacts DEF Init, ReservedSlots, Credential, Offer
<1>2. ReservedSlots = [c \in Credential |-> {}]
  BY <1>1 DEF ReservedSlots
<1>3. AnchoredSlots = [s \in MetadataSlot |-> NoCredential]
  BY DEF Init, AnchoredSlots, MetadataSlot
<1>4. Delivered = {}
  BY DEF Init, Delivered
<1>. QED  BY <1>2, <1>3, <1>4 DEF Ledger!Init, Ledger!Credential, Credential

\* Steps that leave the metadata entries, the contract's entries and the
\* returned requests alone are stuttering steps of the ledger.
LEMMA LedgerStutters ==
  ASSUME TypeOK, entries'[Metadata] = entries[Metadata], UNCHANGED indexUsed,
         \A q \in Request : stage'[q] = "returned" <=> stage[q] = "returned"
  PROVE  UNCHANGED Ledger!ledger
<1>1. UNCHANGED ReservedSlots
  BY DEF ReservedSlots, SlotOf
<1>2. UNCHANGED AnchoredSlots
  BY DEF AnchoredSlots
<1>3. UNCHANGED Delivered
  BY DEF Delivered
<1>. QED  BY <1>1, <1>2, <1>3 DEF Ledger!ledger

\* Taking a metadata entry reserves its slot.
LEMMA TakeEntryReserves ==
  ASSUME TypeOK, AllocationInv, AllocationInv', NEW r \in Request, NEW l \in ListId,
         NEW i \in Index(Metadata), NEW b \in BOOLEAN,
         TakeEntry(r, Metadata, l, i, b), Len(entries[Metadata][r]) < NOffers,
         UNCHANGED indexUsed,
         \A q \in Request : stage'[q] = "returned" <=> stage[q] = "returned"
  PROVE  Ledger!Next
<1> DEFINE n == Len(entries[Metadata][r])
           x == [listId |-> l, index |-> i, isNewList |-> b]
           c == <<r, n + 1>>
           s == <<l, i>>
<1>1. TookEntry(r, Metadata, x)
  BY EntityFacts, TakeEntryFacts
<1>2. n \in Nat /\ n + 1 \in Offer
  BY EntityFacts DEF TypeOK, Offer
<1>3. c \in Credential /\ s \in MetadataSlot
  BY <1>2 DEF Credential, MetadataSlot
<1>4. ReservedSlots[c] = {}
  BY <1>2, <1>3 DEF ReservedSlots
<1>5. \A q \in Request, k \in Offer :
        k <= Len(entries[Metadata][q]) => SlotOf(Metadata, q, k) # s
  <2> SUFFICES ASSUME NEW q \in Request, NEW k \in Offer,
                      k <= Len(entries[Metadata][q]), SlotOf(Metadata, q, k) = s
               PROVE  FALSE
    OBVIOUS
  <2>1. /\ Len(entries[Metadata][q]) \in Nat
        /\ k \in 1 .. Len(entries[Metadata][q])
    BY EntityFacts DEF TypeOK, Offer
  <2>2. <<q, k>> # c
    BY <1>2
  <2>3. /\ k \in 1 .. Len(entries'[Metadata][q])
        /\ entries'[Metadata][q][k] = entries[Metadata][q][k]
    <3>1. CASE q = r
      BY <1>1, <1>2, <2>1, <3>1 DEF TookEntry
    <3>2. CASE q # r
      BY <1>1, <2>1, <3>2, EntityFacts DEF TookEntry
    <3>. QED  BY <3>1, <3>2
  <2>4. /\ n + 1 \in 1 .. Len(entries'[Metadata][r])
        /\ entries'[Metadata][r][n + 1] = x
    BY <1>1, <1>2 DEF TookEntry
  <2>5. /\ entries[Metadata][q][k].listId = l
        /\ entries[Metadata][q][k].index = i
    BY DEF SlotOf
  <2>6. UniqueAllocation'
    BY DEF AllocationInv
  <2> DEFINE U == entries'
  <2>7. \A p, o \in Request :
          \A m \in 1 .. Len(U[Metadata][p]), j \in 1 .. Len(U[Metadata][o]) :
            <<U[Metadata][p][m].listId, U[Metadata][p][m].index>>
              = <<U[Metadata][o][j].listId, U[Metadata][o][j].index>>
            => p = o /\ m = j
    BY <2>6, EntityFacts DEF UniqueAllocation, SlotOf
  <2>8. /\ U[Metadata][q][k].listId = l /\ U[Metadata][q][k].index = i
        /\ U[Metadata][r][n + 1].listId = l /\ U[Metadata][r][n + 1].index = i
    BY <2>3, <2>4, <2>5
  <2>9. k \in 1 .. Len(U[Metadata][q]) /\ n + 1 \in 1 .. Len(U[Metadata][r])
    BY <2>3, <2>4
  <2>. HIDE DEF U, n
  <2>10. q = r /\ k = n + 1
    BY <2>7, <2>8, <2>9
  <2>. QED  BY <2>2, <2>10
<1>6. \A d \in Credential : s \notin ReservedSlots[d]
  BY <1>5 DEF ReservedSlots, Credential
<1>7. ReservedSlots' = [ReservedSlots EXCEPT ![c] = {s}]
  <2>1. ReservedSlots'[c] = {s}
    BY <1>1, <1>2, <1>3 DEF ReservedSlots, TookEntry, SlotOf
  <2>2. ASSUME NEW d \in Credential, d # c PROVE ReservedSlots'[d] = ReservedSlots[d]
    <3>1. PICK q \in Request, k \in Offer : d = <<q, k>>
      BY DEF Credential
    <3>2. CASE q # r
      BY <1>1, <3>1, <3>2, EntityFacts DEF TookEntry, ReservedSlots, SlotOf
    <3>3. CASE q = r
      <4>1. k # n + 1 /\ k \in Nat /\ k >= 1
        BY <2>2, <3>1, <3>3 DEF Offer
      <4>2. /\ Len(entries'[Metadata][r]) = n + 1
            /\ \A j \in 1 .. n : entries'[Metadata][r][j] = entries[Metadata][r][j]
        BY <1>1 DEF TookEntry
      <4>3. k <= n + 1 <=> k <= n
        BY <1>2, <4>1
      <4>4. k <= n => SlotOf(Metadata, r, k)' = SlotOf(Metadata, r, k)
        BY <1>2, <4>1, <4>2 DEF SlotOf
      <4>. QED  BY <3>1, <3>3, <4>2, <4>3, <4>4 DEF ReservedSlots
    <3>. QED  BY <3>2, <3>3
  <2>. QED  BY <1>3, <2>1, <2>2 DEF ReservedSlots
<1>8. UNCHANGED <<AnchoredSlots, Delivered>>
  BY DEF AnchoredSlots, Delivered
<1>9. Ledger!Reserve(c, s)
  BY <1>4, <1>6, <1>7, <1>8 DEF Ledger!Reserve, Ledger!Credential, Credential
<1>. QED  BY <1>3, <1>9 DEF Ledger!Next, Ledger!Credential, Credential

\* A mined setEntry anchors the offer's credential, any other job's step is a
\* stuttering step.
LEMMA RunJobLedger ==
  ASSUME IInv, NEW r \in Request, RunJob(r)
  PROVE  [Ledger!Next]_(Ledger!ledger)
<1>1. PICK job \in jobs[r] : \/ AddRevocationList(r, job)
                             \/ AddWallet(r, job)
                             \/ NewMetadataList(r, job)
                             \/ IsExistMetadataList(r, job)
                             \/ SetEntry(r, job)
  BY DEF RunJob
<1>2. UNCHANGED entries
  BY <1>1 DEF AddRevocationList, AddWallet, NewMetadataList, IsExistMetadataList,
              SetEntry
<1>3. \A q \in Request : stage'[q] = "returned" <=> stage[q] = "returned"
  <2>1. stage[r] # "returned" /\ stage \in [Request -> Stage]
    BY DEF IInv, StageInv, TypeOK
  <2>2. stage' = stage \/ stage' = [stage EXCEPT ![r] = "failed"]
    BY RunJobStage DEF IInv
  <2>. QED  BY <2>1, <2>2
<1>4. CASE UNCHANGED indexUsed
  BY <1>2, <1>3, <1>4, LedgerStutters DEF IInv
<1>5. CASE SetEntry(r, job) /\ indexUsed' # indexUsed
  <2> DEFINE k == job.offer
             l == entries[Metadata][r][k].listId
             i == entries[Metadata][r][k].index
             c == <<r, k>>
             s == <<l, i>>
  <2>1. k \in Offer
    BY <1>5, JobKinds DEF SetEntry, EntryJob, IInv
  <2>2. Len(entries[Metadata][r]) = NOffers
    BY <1>5 DEF IInv, StageInv, AllocatedAll, SetEntry
  <2>3. l \in ListId /\ i \in Index(Metadata)
    <3>1. k \in 1 .. Len(entries[Metadata][r])
      BY <2>1, <2>2 DEF Offer
    <3>2. entries[Metadata][r][k] \in Entry /\ i \in Index(Metadata)
      BY <3>1, EntityFacts DEF IInv, TypeOK
    <3>. QED  BY <3>2 DEF Entry
  <2>4. /\ indexUsed[l][i] = NoCredential
        /\ indexUsed' = [indexUsed EXCEPT ![l][i] = c]
    <3>1. PICK o \in Outcomes(indexUsed[l][i] = NoCredential /\ l \in lists) :
            indexUsed' = IF Applied(o) THEN [indexUsed EXCEPT ![l][i] = c]
                                       ELSE indexUsed
      BY <1>5 DEF SetEntry
    <3>2. Applied(o) => indexUsed[l][i] = NoCredential
      BY DEF Outcomes, Applied
    <3>. QED  BY <1>5, <3>1, <3>2
  <2>5. c \in Credential /\ s \in MetadataSlot
    BY <2>1, <2>3 DEF Credential, MetadataSlot
  <2>6. s \in ReservedSlots[c]
    <3>1. k <= Len(entries[Metadata][r])
      BY <2>1, <2>2 DEF Offer
    <3>2. SlotOf(Metadata, r, k) = s
      BY DEF SlotOf
    <3>3. ReservedSlots[c] = {SlotOf(Metadata, r, k)}
      BY <2>5, <3>1 DEF ReservedSlots
    <3>. QED  BY <3>2, <3>3
  <2>7. AnchoredSlots[s] = NoCredential
    <3>1. AnchoredSlots[s] = indexUsed[s[1]][s[2]]
      BY <2>5 DEF AnchoredSlots
    <3>2. s[1] = l /\ s[2] = i
      OBVIOUS
    <3>. QED  BY <2>4, <3>1, <3>2
  <2>8. AnchoredSlots' = [AnchoredSlots EXCEPT ![s] = c]
    <3>1. \A t \in MetadataSlot :
            indexUsed'[t[1]][t[2]] = IF t = s THEN c ELSE indexUsed[t[1]][t[2]]
      <4> SUFFICES ASSUME NEW t \in MetadataSlot
                   PROVE  indexUsed'[t[1]][t[2]] =
                            IF t = s THEN c ELSE indexUsed[t[1]][t[2]]
        OBVIOUS
      <4>1. PICK m \in ListId, j \in Index(Metadata) : t = <<m, j>>
        BY DEF MetadataSlot
      <4>2. t[1] = m /\ t[2] = j
        BY <4>1
      <4>. HIDE DEF l, i, c
      <4>3. t = s <=> m = l /\ j = i
        BY <4>1
      <4>4. indexUsed \in [ListId -> [Index(Metadata) -> Credential \cup {NoCredential}]]
        BY DEF IInv, TypeOK
      <4>5. indexUsed'[m][j] = IF m = l /\ j = i THEN c ELSE indexUsed[m][j]
        BY <2>3, <2>4, <4>4
      <4>. QED  BY <4>2, <4>3, <4>5
    <3>. HIDE DEF c, s
    <3>. QED  BY <2>5, <3>1 DEF AnchoredSlots
  <2>9. UNCHANGED <<ReservedSlots, Delivered>>
    BY <1>2, <1>3 DEF ReservedSlots, SlotOf, Delivered
  <2>10. Ledger!Anchor(c, s)
    BY <2>6, <2>7, <2>8, <2>9 DEF Ledger!Anchor
  <2>. QED  BY <2>5, <2>10 DEF Ledger!Next, Ledger!Credential, Credential
<1>6. UNCHANGED indexUsed \/ SetEntry(r, job)
  BY <1>1 DEF AddRevocationList, AddWallet, NewMetadataList, IsExistMetadataList,
              ledgerVars
<1>. QED  BY <1>4, <1>5, <1>6

LEMMA NextLedger == IInv /\ [Next]_vars => [Ledger!Next]_(Ledger!ledger)
<1> SUFFICES ASSUME IInv, [Next]_vars PROVE [Ledger!Next]_(Ledger!ledger)
  OBVIOUS
<1>0. TypeOK /\ StageInv /\ AllocationInv /\ AllocationInv'
  BY NextAllocation DEF IInv
<1>1. CASE UNCHANGED vars
  BY <1>0, <1>1, LedgerStutters DEF vars, ledgerVars, requestVars
<1>2. ASSUME NEW r \in Request,
             \/ Begin(r) \/ NoFreeIndex(r) \/ Allocated(r) \/ Throws(r) \/ Crash(r)
             \/ BuildVerifiableCredentials(r) \/ RevocationListsCreated(r)
             \/ MetadataListsCreated(r)
             \/ AllocateNextEntryFails(r) \/ CreateNewAllocationListFails(r)
      PROVE  UNCHANGED Ledger!ledger
  <2>1. UNCHANGED <<entries, indexUsed>>
    BY <1>2 DEF Begin, NoFreeIndex, Allocated, Throws, Crash, MetadataListsCreated,
       BuildVerifiableCredentials, RevocationListsCreated, AllocateNextEntryFails,
       CreateNewAllocationListFails, ledgerVars
  <2>2. \A q \in Request : stage'[q] = "returned" <=> stage[q] = "returned"
    <3>1. CASE Crash(r)
      BY <1>0, <3>1 DEF Crash, GoTo, TypeOK, InFlight, Settled
    <3>2. CASE ~ Crash(r)
      BY <1>0, <1>2, <3>2 DEF Begin, NoFreeIndex, Allocated, Throws,
         MetadataListsCreated, BuildVerifiableCredentials, RevocationListsCreated,
         AllocateNextEntryFails, CreateNewAllocationListFails, GoTo, TypeOK
    <3>. QED  BY <3>1, <3>2
  <2>. QED  BY <1>0, <2>1, <2>2, LedgerStutters
<1>3. ASSUME NEW r \in Request, AllocateNextEntry(r) \/ CreateNewAllocationList(r)
      PROVE  [Ledger!Next]_(Ledger!ledger)
  <2> DEFINE e == NextEntity(r)
  <2>1. ~ AllocatedAll(r) /\ UNCHANGED indexUsed
    BY <1>0, <1>3 DEF AllocateNextEntry, CreateNewAllocationList, StageInv, ledgerVars
  <2>2. PICK l \in ListId, i \in Index(e), b \in BOOLEAN : TakeEntry(r, e, l, i, b)
    <3>1. allocationLists[e] \subseteq ListId
      BY <1>0, <2>1, NextEntityFacts DEF TypeOK
    <3>. QED  BY <1>3, <3>1 DEF AllocateNextEntry, CreateNewAllocationList
  <2>3. e \in Entity /\ Len(entries[e][r]) < NOffers
    BY <1>0, <2>1, NextEntityFacts
  <2>4. \A q \in Request : stage'[q] = "returned" <=> stage[q] = "returned"
    BY <1>0, <1>3 DEF AllocateNextEntry, CreateNewAllocationList, GoTo, TypeOK
  <2>. HIDE DEF e
  <2>5. CASE e = Metadata
    BY <1>0, <2>1, <2>2, <2>3, <2>4, <2>5, TakeEntryReserves
  <2>6. CASE e # Metadata
    <3>1. entries'[Metadata] = entries[Metadata]
      BY <1>0, <2>2, <2>3, <2>6, EntityFacts DEF TakeEntry, TypeOK
    <3>. QED  BY <1>0, <2>1, <2>4, <3>1, LedgerStutters
  <2>. QED  BY <2>5, <2>6
<1>4. ASSUME NEW r \in Request, Return(r) PROVE Ledger!Next
  <2>1. /\ stage[r] = "anchoring" /\ jobs[r] = {}
        /\ stage' = [stage EXCEPT ![r] = "returned"]
        /\ UNCHANGED <<entries, indexUsed>>
    BY <1>4 DEF Return, GoTo, ledgerVars
  <2>2. ASSUME NEW k \in Offer
        PROVE  \E s \in ReservedSlots[<<r, k>>] : AnchoredSlots[s] = <<r, k>>
    <3> DEFINE s == SlotOf(Metadata, r, k)
    <3>1. AnchoredFor(r, k) /\ AllocatedAll(r)
      BY <2>1 DEF IInv, AnchorInv, StageInv
    <3>2. k \in 1 .. Len(entries[Metadata][r]) /\ k <= Len(entries[Metadata][r])
      BY <3>1 DEF AllocatedAll, Offer
    <3>3. s \in ReservedSlots[<<r, k>>]
      BY <3>2 DEF ReservedSlots, Credential
    <3>4. /\ entries[Metadata][r][k] \in Entry
          /\ entries[Metadata][r][k].index \in Index(Metadata)
      BY <1>0, <3>2, EntityFacts DEF TypeOK
    <3>5. s \in MetadataSlot
      BY <3>4 DEF SlotOf, MetadataSlot, Entry
    <3>6. AnchoredSlots[s] = <<r, k>>
      <4>1. AnchoredSlots[s] = indexUsed[s[1]][s[2]]
        BY <3>5 DEF AnchoredSlots
      <4>2. /\ s[1] = entries[Metadata][r][k].listId
            /\ s[2] = entries[Metadata][r][k].index
        BY DEF SlotOf
      <4>. QED  BY <3>1, <4>1, <4>2 DEF AnchoredFor
    <3>. QED  BY <3>3, <3>6
  <2>3. Delivered' = Delivered \cup {r}
    BY <1>0, <2>1 DEF Delivered, TypeOK
  <2>4. UNCHANGED <<ReservedSlots, AnchoredSlots>>
    BY <2>1 DEF ReservedSlots, SlotOf, AnchoredSlots
  <2>. QED  BY <2>2, <2>3, <2>4 DEF Ledger!Next, Ledger!Deliver
<1>5. CASE Finished
  BY <1>1, <1>5 DEF Finished
<1>6. CASE \E r \in Request : Begin(r) \/ Step(r) \/ Environment(r)
  BY <1>2, <1>3, <1>4, <1>6, RunJobLedger DEF Step, Environment
<1>. QED  BY <1>1, <1>5, <1>6 DEF Next

\* Issuing implements the abstract ledger: every credential gets one slot that
\* no other gets, its metadata is written there once, and a request's
\* credentials reach the holder after all of them are written.
THEOREM IssuingImplementsLedger == Spec => ImplementsLedger
<1>1. Init => Ledger!Init
  BY InitLedger
<1>2. IInv /\ [Next]_vars => [Ledger!Next]_(Ledger!ledger)
  BY NextLedger
<1>. QED  BY <1>1, <1>2, Invariance, PTL DEF Spec, ImplementsLedger, Ledger!Spec

-----------------------------------------------------------------------------
(***************************************************************************)
(* While nothing fails: no index is lost.                                  *)
(***************************************************************************)

\* Faults are only counted up, so a step that leaves none is of a request, and no
\* outcome of its transaction is one of the RPC node's.
CalmStep(r) ==
  \/ Begin(r) \/ AllocateNextEntry(r) \/ NoFreeIndex(r) \/ CreateNewAllocationList(r)
  \/ Allocated(r) \/ BuildVerifiableCredentials(r) \/ RevocationListsCreated(r)
  \/ MetadataListsCreated(r) \/ Return(r) \/ RunJob(r)

LEMMA CalmSteps ==
  ASSUME TypeOK, [Next]_vars, faults' = 0
  PROVE  /\ faults = 0
         /\ UNCHANGED vars \/ \E r \in Request : CalmStep(r)
<1>1. faults \in Nat
  BY DEF TypeOK
<1>2. ~ Fault
  BY <1>1 DEF Fault
<1>3. ASSUME NEW r \in Request, RunJob(r) PROVE faults = 0
  <2>1. PICK job \in jobs[r] : \/ AddRevocationList(r, job)
                               \/ AddWallet(r, job)
                               \/ NewMetadataList(r, job)
                               \/ IsExistMetadataList(r, job)
                               \/ SetEntry(r, job)
    BY <1>3 DEF RunJob
  <2>2. (\E o : CountFault(o)) \/ faults' = faults
    BY <1>2, <2>1
    DEF AddRevocationList, AddWallet, NewMetadataList, IsExistMetadataList, SetEntry
  <2>. QED  BY <1>1, <2>2 DEF CountFault
<1>4. ASSUME NEW r \in Request, Environment(r) PROVE FALSE
  BY <1>2, <1>4
  DEF Environment, AllocateNextEntryFails, CreateNewAllocationListFails, Throws, Crash
<1>5. ASSUME NEW r \in Request, Begin(r) \/ Step(r) PROVE faults = 0 /\ CalmStep(r)
  <2>1. CalmStep(r)
    BY <1>5 DEF Step, CalmStep
  <2>2. CASE ~ RunJob(r)
    BY <2>1, <2>2
    DEF CalmStep, Begin, AllocateNextEntry, NoFreeIndex, CreateNewAllocationList, Allocated,
        BuildVerifiableCredentials, RevocationListsCreated, MetadataListsCreated, Return
  <2>. QED  BY <1>3, <2>1, <2>2
<1>. QED  BY <1>4, <1>5 DEF Next, Finished, vars

\* The index i of the list l is the only one that stops being free.
OnlyTaken(e, l, i) ==
  \A d \in Entity : \A m \in allocationLists'[d], j \in Index(d) :
    \/ d = e /\ m = l /\ j = i
    \/ j \in freeIndexes'[d][m]
    \/ m \in allocationLists[d] /\ j \notin freeIndexes[d][m]

\* The step that takes an entry loses no other index.
LEMMA TakeLosesNone ==
  ASSUME TypeOK, NoIndexLost, faults = 0, NEW r \in Request, NEW e \in Entity,
         NEW l \in ListId, NEW i \in Index(e), NEW b \in BOOLEAN, TakeEntry(r, e, l, i, b),
         OnlyTaken(e, l, i)
  PROVE  NoIndexLost'
<1> DEFINE n == Len(entries[e][r])
<1>1. TookEntry(r, e, [listId |-> l, index |-> i, isNewList |-> b]) /\ EntriesGrow
  BY TakeEntryFacts, TakeEntryGrows
<1>2. ASSUME NEW d \in Entity, NEW m \in allocationLists'[d], NEW j \in Index(d),
             j \notin freeIndexes'[d][m]
      PROVE  \E q \in Request : \E k \in 1 .. Len(entries'[d][q]) :
               SlotOf(d, q, k)' = <<m, j>>
  <2>1. CASE d = e /\ m = l /\ j = i
    <3>1. n \in Nat
      BY <1>1 DEF EntriesGrow
    <3>2. n + 1 \in 1 .. Len(entries'[d][r])
      BY <1>1, <2>1, <3>1 DEF TookEntry
    <3>3. entries'[e][r][n + 1] = [listId |-> l, index |-> i, isNewList |-> b]
      BY <1>1 DEF TookEntry
    <3>4. PICK k \in 1 .. Len(entries'[d][r]) :
            entries'[e][r][k] = [listId |-> l, index |-> i, isNewList |-> b]
      BY <3>2, <3>3
    <3>5. SlotOf(d, r, k)' = <<m, j>>
      BY <2>1, <3>4 DEF SlotOf
    <3>. QED  BY <3>5
  <2>2. CASE m \in allocationLists[d] /\ j \notin freeIndexes[d][m]
    <3>1. PICK q \in Request :
            \E k \in 1 .. Len(entries[d][q]) : SlotOf(d, q, k) = <<m, j>>
      BY <2>2 DEF NoIndexLost
    <3>2. PICK k \in 1 .. Len(entries[d][q]) : SlotOf(d, q, k) = <<m, j>>
      BY <3>1
    <3>3. k \in 1 .. Len(entries'[d][q]) /\ entries'[d][q][k] = entries[d][q][k]
      BY <1>1 DEF EntriesGrow
    <3>. QED  BY <3>2, <3>3 DEF SlotOf
  <2>. QED  BY <1>2, <2>1, <2>2 DEF OnlyTaken
<1>. QED  BY <1>2 DEF NoIndexLost

LEMMA InitNoIndexLost == Init => NoIndexLost
  BY DEF Init, NoIndexLost

LEMMA NextNoIndexLost == TypeOK /\ StageInv /\ NoIndexLost /\ [Next]_vars => NoIndexLost'
<1> SUFFICES ASSUME TypeOK, StageInv, NoIndexLost, [Next]_vars, faults' = 0
             PROVE  NoIndexLost'
  BY DEF NoIndexLost
<1>1. faults = 0 /\ (UNCHANGED vars \/ \E r \in Request : CalmStep(r))
  BY CalmSteps
<1>2. ASSUME UNCHANGED <<mongoVars, entries>> PROVE NoIndexLost'
  BY <1>1, <1>2 DEF mongoVars, NoIndexLost, SlotOf
<1>3. ASSUME NEW r \in Request, AllocateNextEntry(r) PROVE NoIndexLost'
  <2> DEFINE e == NextEntity(r)
  <2>1. e \in Entity /\ UNCHANGED allocationLists
    BY <1>3, NextEntityFacts DEF AllocateNextEntry
  <2>2. PICK l \in allocationLists[e], i \in Index(e) :
          PopIndex(e, l, i) /\ TakeEntry(r, e, l, i, FALSE)
    BY <1>3 DEF AllocateNextEntry
  <2>. HIDE DEF e
  <2>3. l \in ListId
    BY <2>1, <2>2 DEF TypeOK
  <2>4. ASSUME NEW d \in Entity, NEW m \in allocationLists'[d], NEW j \in Index(d)
        PROVE  \/ d = e /\ m = l /\ j = i
               \/ j \in freeIndexes'[d][m]
               \/ m \in allocationLists[d] /\ j \notin freeIndexes[d][m]
    <3>1. m \in allocationLists[d] /\ m \in ListId
      BY <2>1 DEF TypeOK
    <3>. QED  BY <2>1, <2>2, <2>3, <3>1 DEF PopIndex, TypeOK
  <2>5. OnlyTaken(e, l, i)
    BY <2>4 DEF OnlyTaken
  <2>. QED  BY <1>1, <2>1, <2>2, <2>3, <2>5, TakeLosesNone
<1>4. ASSUME NEW r \in Request, CreateNewAllocationList(r) PROVE NoIndexLost'
  <2> DEFINE e == NextEntity(r)
  <2>1. e \in Entity
    BY DEF NextEntity, Entity
  <2>2. PICK l \in ListId, i \in Index(e) : InsertList(e, l, i) /\ TakeEntry(r, e, l, i, TRUE)
    BY <1>4 DEF CreateNewAllocationList
  <2>. HIDE DEF e
  <2>3. ASSUME NEW d \in Entity, NEW m \in allocationLists'[d], NEW j \in Index(d)
        PROVE  \/ d = e /\ m = l /\ j = i
               \/ j \in freeIndexes'[d][m]
               \/ m \in allocationLists[d] /\ j \notin freeIndexes[d][m]
    <3>1. CASE d = e /\ m = l
      BY <2>1, <2>2, <3>1 DEF InsertList, TypeOK
    <3>2. CASE d # e \/ m # l
      <4>1. m \in allocationLists[d] /\ m \in ListId
        BY <2>1, <2>2, <3>2 DEF InsertList, TypeOK
      <4>2. freeIndexes'[d][m] = freeIndexes[d][m]
        BY <2>1, <2>2, <3>2, <4>1 DEF InsertList, TypeOK
      <4>. QED  BY <4>1, <4>2
    <3>. QED  BY <3>1, <3>2
  <2>4. OnlyTaken(e, l, i)
    BY <2>3 DEF OnlyTaken
  <2>. QED  BY <1>1, <2>1, <2>2, <2>4, TakeLosesNone
<1>5. ASSUME NEW r \in Request, RunJob(r) PROVE NoIndexLost'
  BY <1>2, <1>5, RunJobStage
<1>6. CASE UNCHANGED vars
  BY <1>2, <1>6 DEF vars, requestVars
<1>. QED  BY <1>1, <1>2, <1>3, <1>4, <1>5, <1>6
          DEF CalmStep, Begin, NoFreeIndex, Allocated, BuildVerifiableCredentials,
              RevocationListsCreated, MetadataListsCreated, Return

\* While MongoDB answers every command, every index of a list is free or held by
\* an offer (allocateNextEntry, createNewAllocationList).
THEOREM IndexesAreKept == Spec => []NoIndexLost
<1>1. IInv => TypeOK /\ StageInv
  BY DEF IInv
<1>. QED  BY <1>1, Invariance, InitNoIndexLost, NextNoIndexLost, PTL DEF Spec

-----------------------------------------------------------------------------
(***************************************************************************)
(* One request at a time: while nothing fails, no request fails and the    *)
(* credentials of every request that returned have their revocation lists. *)
(***************************************************************************)

\* Only one request is between its begin and its end.
OneInFlight == \A q, r \in InFlight : q = r

\* The lists of an entity that the ledger has, the steps of the jobs that create
\* them, and the stages before those jobs start.
Made(e) == IF e = Revocation THEN listIdUsage ELSE lists
MakingSteps(e) == IF e = Revocation
                    THEN {"addRevocationList", "addWallet", "addRevocationListAgain"}
                    ELSE {"newMetadataList", "isExistMetadataList"}
Before(e) == {"allocating", "creating", "building"}
               \cup (IF e = Revocation THEN {} ELSE {"revocationLists"})

\* Nobody failed or died, and the jobs that run are those of the stage.
StagesAreClean ==
  \A r \in Request :
    /\ stage[r] \notin {"failed", "crashed"}
    /\ stage[r] = "idle" => \A e \in Entity : entries[e][r] = <<>>
    /\ \A job \in jobs[r] :
         \/ stage[r] = "revocationLists" /\ job.step \in MakingSteps(Revocation)
         \/ stage[r] = "metadataLists" /\ job.step \in MakingSteps(Metadata)
         \/ stage[r] = "anchoring" /\ job.step = "setEntry"

\* The request opened the list and has not created it on the ledger yet.
ToBeMade(e, l, r) ==
  \/ stage[r] \in Before(e) /\ l \in NewLists(e, r)
  \/ \E job \in jobs[r] : job.step \in MakingSteps(e) /\ job.listId = l

\* A list is on the ledger, or the request that opened it will create it there.
ListsAreMade ==
  \A e \in Entity : \A l \in allocationLists[e] :
    l \in Made(e) \/ \E r \in Request : ToBeMade(e, l, r)

\* A revocation list to be created is not there yet.
ListsAreNew ==
  /\ listIdUsage \subseteq allocationLists[Revocation]
  /\ \A r \in Request, l \in ListId : ToBeMade(Revocation, l, r) =>
       l \in allocationLists[Revocation] /\ l \notin listIdUsage

\* A list is created by one job, which asks for it only when it is there.
JobsAreDistinct ==
  \A r \in Request :
    /\ \A i, j \in jobs[r] :
         i.step # "setEntry" /\ j.step # "setEntry" /\ i.listId = j.listId => i = j
    /\ \A job \in jobs[r] : job.step = "isExistMetadataList" => job.listId \in lists

\* The wallet is added for the first revocation list, the only one there is
\* until then.
WalletIsFirst ==
  /\ ~ walletInRegistry => /\ listIdUsage = {}
                           /\ \A l, m \in allocationLists[Revocation] : l = m
  /\ \A r \in Request : \A job \in jobs[r] :
       /\ job.step = "addWallet" => ~ walletInRegistry
       /\ job.step = "addRevocationListAgain" => walletInRegistry

\* A list is opened when the others have no free index.
OthersAreFull ==
  \A r \in Request : stage[r] = "creating" =>
    \A l \in allocationLists[NextEntity(r)] : freeIndexes[NextEntity(r)][l] = {}

\* From its metadata lists on, a request has its revocation lists on the ledger.
RevocationListsAreThere ==
  \A r \in Request : stage[r] \in {"metadataLists", "anchoring", "returned"} =>
    \A k \in 1 .. Len(entries[Revocation][r]) :
      entries[Revocation][r][k].listId \in listIdUsage

\* An entry is written by its job, once.
EntriesAreJobs ==
  \A r \in Request, k \in Offer, l \in ListId, i \in Index(Metadata) :
    indexUsed[l][i] = <<r, k>> =>
      /\ stage[r] \in {"anchoring", "returned"}
      /\ [step |-> "setEntry", offer |-> k] \notin jobs[r]

CalmState == /\ StagesAreClean
             /\ ListsAreMade
             /\ ListsAreNew
             /\ JobsAreDistinct
             /\ WalletIsFirst
             /\ OthersAreFull
             /\ RevocationListsAreThere
             /\ EntriesAreJobs

CalmInv == OneInFlight /\ (faults = 0 => CalmState)

LEMMA InitOneInFlight == Init => OneInFlight
  BY DEF Init, OneInFlight, InFlight

\* A request that begins finds no other running.
LEMMA BeginsAlone ==
  ASSUME MaxInFlight = 1, OneInFlight, NEW r \in Request, Begin(r)
  PROVE  InFlight = {}
<1> SUFFICES ASSUME NEW q \in InFlight PROVE FALSE
  OBVIOUS
<1>1. InFlight = {q}
  BY DEF OneInFlight
<1>2. Cardinality(InFlight) = 1
  BY <1>1, FS_Singleton
<1>. QED  BY <1>2 DEF Begin

LEMMA NextOneInFlight ==
  ASSUME MaxInFlight = 1, TypeOK, OneInFlight, [Next]_vars
  PROVE  OneInFlight'
<1>1. ASSUME NEW r \in Request, Begin(r) PROVE OneInFlight'
  <2>1. \A q \in Request : q # r => stage'[q] = stage[q]
    BY <1>1 DEF Begin, GoTo, TypeOK
  <2>2. InFlight = {}
    BY <1>1, BeginsAlone
  <2>. QED  BY <2>1, <2>2 DEF OneInFlight, InFlight
<1>2. ASSUME InFlight' \subseteq InFlight PROVE OneInFlight'
  BY <1>2 DEF OneInFlight
<1>3. ASSUME NEW r \in Request, Step(r) PROVE InFlight' \subseteq InFlight
  <2>1. CASE RunJob(r)
    <3>1. stage' = stage \/ stage' = [stage EXCEPT ![r] = "failed"]
      BY <2>1, RunJobStage
    <3>. QED  BY <3>1 DEF InFlight, Settled, TypeOK
  <2>2. CASE ~ RunJob(r)
    BY <1>3, <2>2
    DEF Step, AllocateNextEntry, NoFreeIndex, CreateNewAllocationList, Allocated,
        BuildVerifiableCredentials, RevocationListsCreated, MetadataListsCreated,
        Return, GoTo, InFlight, Settled, TypeOK
  <2>. QED  BY <2>1, <2>2
<1>4. ASSUME NEW r \in Request, Environment(r) PROVE InFlight' \subseteq InFlight
  BY <1>4
  DEF Environment, AllocateNextEntryFails, CreateNewAllocationListFails, Throws, Crash,
      GoTo, InFlight, Settled, TypeOK
<1>5. CASE UNCHANGED vars
  BY <1>2, <1>5 DEF vars, requestVars, InFlight
<1>. QED  BY <1>1, <1>2, <1>3, <1>4, <1>5 DEF Next, Finished

\* The step of a request finds the others idle or returned, and leaves them.
OthersRest(r) ==
  \A q \in Request : q # r =>
    /\ stage[q] \in {"idle", "returned"} /\ stage'[q] = stage[q]
    /\ jobs[q] = {} /\ jobs'[q] = {}
    /\ \A e \in Entity : entries'[e][q] = entries[e][q]

LEMMA Alone ==
  ASSUME MaxInFlight = 1, TypeOK, StageInv, OneInFlight, StagesAreClean,
         NEW r \in Request, CalmStep(r)
  PROVE  OthersRest(r)
<1>1. r \in InFlight \/ InFlight = {}
  <2>1. CASE Begin(r)
    BY <2>1, BeginsAlone
  <2>2. CASE RunJob(r)
    <3>1. PICK job \in jobs[r] : TRUE
      BY <2>2 DEF RunJob
    <3>. QED  BY <3>1 DEF StagesAreClean, InFlight, Settled
  <2>3. CASE ~ Begin(r) /\ ~ RunJob(r)
    BY <2>3
    DEF CalmStep, AllocateNextEntry, NoFreeIndex, CreateNewAllocationList, Allocated,
        BuildVerifiableCredentials, RevocationListsCreated, MetadataListsCreated,
        Return, InFlight, Settled
  <2>. QED  BY <2>1, <2>2, <2>3
<1>2. ASSUME NEW q \in Request, q # r
      PROVE  stage[q] \in {"idle", "returned"} /\ jobs[q] = {}
  <2>1. q \notin InFlight
    BY <1>1, <1>2 DEF OneInFlight
  <2>2. stage[q] \in {"idle", "returned"}
    BY <2>1 DEF StagesAreClean, InFlight, Settled
  <2>. QED  BY <2>2 DEF StageInv
<1>3. ASSUME NEW q \in Request, q # r
      PROVE  stage'[q] = stage[q] /\ jobs'[q] = jobs[q]
  <2>1. CASE RunJob(r)
    <3>1. /\ jobs' = [jobs EXCEPT ![r] = jobs'[r]]
          /\ stage' = stage \/ stage' = [stage EXCEPT ![r] = "failed"]
      BY <2>1, RunJobStage
    <3>. QED  BY <1>3, <3>1 DEF TypeOK
  <2>2. CASE ~ RunJob(r)
    BY <1>3, <2>2
    DEF CalmStep, Begin, AllocateNextEntry, NoFreeIndex, CreateNewAllocationList,
        Allocated, BuildVerifiableCredentials, RevocationListsCreated,
        MetadataListsCreated, Return, GoTo, TypeOK
  <2>. QED  BY <2>1, <2>2
<1>4. ASSUME NEW q \in Request, q # r, NEW e \in Entity
      PROVE  entries'[e][q] = entries[e][q]
  <2>1. CASE RunJob(r)
    BY <2>1, RunJobStage
  <2>2. CASE AllocateNextEntry(r) \/ CreateNewAllocationList(r)
    <3>1. PICK d, x : entries' = [entries EXCEPT ![d][r] = x]
      BY <2>2 DEF AllocateNextEntry, CreateNewAllocationList, TakeEntry
    <3>. QED  BY <1>4, <3>1 DEF TypeOK
  <2>3. CASE ~ RunJob(r) /\ ~ AllocateNextEntry(r) /\ ~ CreateNewAllocationList(r)
    BY <2>3
    DEF CalmStep, Begin, NoFreeIndex, Allocated, BuildVerifiableCredentials,
        RevocationListsCreated, MetadataListsCreated, Return
  <2>. QED  BY <2>1, <2>2, <2>3
<1>. QED  BY <1>2, <1>3, <1>4 DEF OthersRest

\* The lists a request opened grow with the entries that open one.
ListsOf(s) == {s[k].listId : k \in {j \in DOMAIN s : s[j].isNewList}}

LEMMA NewListsGrow ==
  ASSUME TypeOK, NEW r \in Request, NEW e \in Entity, NEW l \in ListId,
         NEW i \in Index(e), NEW b \in BOOLEAN, TakeEntry(r, e, l, i, b), NEW d \in Entity
  PROVE  ListsOf(entries'[d][r]) =
           ListsOf(entries[d][r]) \cup (IF d = e /\ b THEN {l} ELSE {})
<1> DEFINE s == entries[e][r]
           t == entries'[e][r]
           x == [listId |-> l, index |-> i, isNewList |-> b]
<1>1. TookEntry(r, e, x)
  BY TakeEntryFacts
<1>2. CASE d # e
  BY <1>1, <1>2 DEF TookEntry
<1>3. CASE d = e
  <2>1. /\ DOMAIN s = 1 .. Len(s) /\ DOMAIN t = 1 .. Len(t)
        /\ Len(s) \in Nat /\ Len(t) = Len(s) + 1
    <3>1. s \in Seq(Entry) /\ t \in Seq(Entry)
      BY <1>1 DEF TookEntry, TypeOK
    <3>. QED  BY <1>1, <3>1 DEF TookEntry
  <2>2. DOMAIN t = DOMAIN s \cup {Len(s) + 1}
    BY <2>1
  <2>3. \A k \in DOMAIN s : t[k] = s[k]
    BY <1>1, <2>1 DEF TookEntry
  <2>4. t[Len(s) + 1] = x
    BY <1>1 DEF TookEntry
  <2>5. x.listId = l /\ x.isNewList = b
    OBVIOUS
  <2>. HIDE DEF s, t, x
  <2>6. ListsOf(t) = ListsOf(s) \cup (IF b THEN {l} ELSE {})
    BY <2>2, <2>3, <2>4, <2>5 DEF ListsOf
  <2>. QED  BY <1>3, <2>6 DEF s, t
<1>. QED  BY <1>2, <1>3

\* The jobs of a Promise.all over lists.
LEMMA ListJobsAre ==
  ASSUME NEW s, NEW ids
  PROVE  /\ \A job \in ListJobs(s, ids) : job.step = s /\ job.listId \in ids
         /\ \A l \in ids : \E job \in ListJobs(s, ids) : job.step = s /\ job.listId = l
<1>1. ASSUME NEW job \in ListJobs(s, ids)
      PROVE  job.step = s /\ job.listId \in ids
  BY <1>1 DEF ListJobs
<1>2. ASSUME NEW l \in ids
      PROVE  \E job \in ListJobs(s, ids) : job.step = s /\ job.listId = l
  <2>1. [step |-> s, listId |-> l] \in ListJobs(s, ids)
    BY <1>2 DEF ListJobs
  <2>. QED  BY <2>1
<1>. QED  BY <1>1, <1>2

\* A step that is no job's opens at most the list it inserts, and starts the job
\* that creates each list it opened before.
Opened(r, e, l) == CreateNewAllocationList(r) /\ e = NextEntity(r)
                   /\ l \in allocationLists'[e] \ allocationLists[e]

LEMMA MadeByTheSame ==
  ASSUME TypeOK, StageInv, StagesAreClean, NEW r \in Request, CalmStep(r),
         ~ RunJob(r), NEW e \in Entity, NEW l \in ListId
  PROVE  ToBeMade(e, l, r)' <=> ToBeMade(e, l, r) \/ Opened(r, e, l)
<1> USE EntityFacts
<1>0. /\ ToBeMade(e, l, r) <=>
           \/ stage[r] \in Before(e) /\ l \in ListsOf(entries[e][r])
           \/ \E job \in jobs[r] : job.step \in MakingSteps(e) /\ job.listId = l
      /\ ToBeMade(e, l, r)' <=>
           \/ stage'[r] \in Before(e) /\ l \in ListsOf(entries'[e][r])
           \/ \E job \in jobs'[r] : job.step \in MakingSteps(e) /\ job.listId = l
  BY DEF ToBeMade, NewLists, ListsOf, Before, MakingSteps
<1>1. CASE Begin(r)
  <2>1. entries[e][r] = <<>> /\ jobs[r] = {} /\ stage[r] = "idle"
    BY <1>1 DEF Begin, StagesAreClean, StageInv
  <2>2. ListsOf(entries'[e][r]) = {} /\ jobs'[r] = {}
    BY <1>1, <2>1 DEF Begin, ListsOf
  <2>3. ~ Opened(r, e, l)
    BY <2>1 DEF Opened, CreateNewAllocationList
  <2>. QED  BY <1>0, <2>1, <2>2, <2>3 DEF Before
<1>2. CASE AllocateNextEntry(r)
  <2> DEFINE d == NextEntity(r)
  <2>1. PICK m \in allocationLists[d], i \in Index(d) : TakeEntry(r, d, m, i, FALSE)
    BY <1>2 DEF AllocateNextEntry
  <2>2. d \in Entity /\ m \in ListId
    BY <1>2, NextEntityFacts DEF AllocateNextEntry, TypeOK
  <2>. HIDE DEF d
  <2>3. ListsOf(entries'[e][r]) =
          ListsOf(entries[e][r]) \cup (IF e = d /\ FALSE THEN {m} ELSE {})
    BY <2>1, <2>2, NewListsGrow
  <2>4. UNCHANGED <<stage, jobs>> /\ ~ Opened(r, e, l)
    BY <1>2 DEF AllocateNextEntry, Opened, CreateNewAllocationList
  <2>. QED  BY <1>0, <2>3, <2>4
<1>3. CASE CreateNewAllocationList(r)
  <2> DEFINE d == NextEntity(r)
  <2>1. PICK m \in ListId, i \in Index(d) : InsertList(d, m, i) /\ TakeEntry(r, d, m, i, TRUE)
    BY <1>3 DEF CreateNewAllocationList
  <2>2. d \in Entity
    BY DEF NextEntity, Entity
  <2>3. Opened(r, e, l) <=> e = d /\ l = m
    BY <1>3, <2>1, <2>2 DEF Opened, InsertList, TypeOK
  <2>. HIDE DEF d
  <2>4. ListsOf(entries'[e][r]) =
          ListsOf(entries[e][r]) \cup (IF e = d /\ TRUE THEN {m} ELSE {})
    BY <2>1, <2>2, NewListsGrow
  <2>5. stage[r] = "creating" /\ stage'[r] = "allocating" /\ UNCHANGED jobs
    BY <1>3 DEF CreateNewAllocationList, GoTo, TypeOK
  <2>. QED  BY <1>0, <2>3, <2>4, <2>5 DEF Before
<1>4. CASE \/ NoFreeIndex(r) \/ Allocated(r) \/ Return(r)
           \/ BuildVerifiableCredentials(r) \/ RevocationListsCreated(r)
           \/ MetadataListsCreated(r)
  <2>1. UNCHANGED entries
    BY <1>4
    DEF NoFreeIndex, Allocated, Return, BuildVerifiableCredentials,
        RevocationListsCreated, MetadataListsCreated
  <2>2. stage[r] # "creating"
    BY <1>4
    DEF NoFreeIndex, Allocated, Return, BuildVerifiableCredentials,
        RevocationListsCreated, MetadataListsCreated
  <2>3. ~ Opened(r, e, l)
    BY <2>2 DEF Opened, CreateNewAllocationList
  <2>4. CASE NoFreeIndex(r) \/ Allocated(r) \/ Return(r)
    BY <1>0, <2>1, <2>3, <2>4
    DEF NoFreeIndex, Allocated, Return, GoTo, TypeOK, Before, StageInv
  <2>5. CASE BuildVerifiableCredentials(r)
    <3>1. /\ stage[r] = "building" /\ stage'[r] = "revocationLists" /\ jobs[r] = {}
          /\ jobs'[r] = ListJobs("addRevocationList", ListsOf(entries[Revocation][r]))
      BY <2>5 DEF BuildVerifiableCredentials, GoTo, TypeOK, StageInv, NewLists, ListsOf
    <3>2. (\E job \in jobs'[r] : job.step \in MakingSteps(e) /\ job.listId = l)
            <=> e = Revocation /\ l \in ListsOf(entries[Revocation][r])
      <4>1. "addRevocationList" \in MakingSteps(e) <=> e = Revocation
        BY DEF MakingSteps
      <4>. QED  BY <3>1, <4>1, ListJobsAre
    <3>3. e # Revocation <=> "revocationLists" \in Before(e)
      BY DEF Before
    <3>4. "building" \in Before(e)
      BY DEF Before
    <3>. QED  BY <1>0, <2>1, <2>3, <3>1, <3>2, <3>3, <3>4
  <2>6. CASE RevocationListsCreated(r)
    <3>1. /\ stage[r] = "revocationLists" /\ stage'[r] = "metadataLists" /\ jobs[r] = {}
          /\ jobs'[r] = ListJobs("newMetadataList", ListsOf(entries[Metadata][r]))
      BY <2>6 DEF RevocationListsCreated, GoTo, TypeOK, NewLists, ListsOf
    <3>3. (\E job \in jobs'[r] : job.step \in MakingSteps(e) /\ job.listId = l)
            <=> e = Metadata /\ l \in ListsOf(entries[Metadata][r])
      <4>1. "newMetadataList" \in MakingSteps(e) <=> e = Metadata
        BY DEF MakingSteps, Entity
      <4>. QED  BY <3>1, <4>1, ListJobsAre
    <3>4. e = Metadata <=> "revocationLists" \in Before(e)
      BY DEF Before, Entity
    <3>5. "metadataLists" \notin Before(e)
      BY DEF Before
    <3>. QED  BY <1>0, <2>1, <2>3, <3>1, <3>3, <3>4, <3>5
  <2>7. CASE MetadataListsCreated(r)
    <3>1. /\ stage[r] = "metadataLists" /\ stage'[r] = "anchoring" /\ jobs[r] = {}
          /\ \A job \in jobs'[r] : job.step = "setEntry"
      BY <2>7 DEF MetadataListsCreated, GoTo, TypeOK
    <3>. QED  BY <1>0, <2>3, <3>1 DEF Before, MakingSteps
  <2>. QED  BY <1>4, <2>4, <2>5, <2>6, <2>7
<1>. QED  BY <1>1, <1>2, <1>3, <1>4 DEF CalmStep

\* The steps that are no job's keep each part of CalmState.
LEMMA StepKeepsClean ==
  ASSUME TypeOK, StageInv, StagesAreClean, NEW r \in Request, CalmStep(r), ~ RunJob(r),
         OthersRest(r)
  PROVE  StagesAreClean'
<1>1. \A e \in Entity, q \in Request : q # r => entries'[e][q] = entries[e][q]
  BY DEF OthersRest
<1>2. \A q \in Request : q # r => stage'[q] = stage[q] /\ jobs'[q] = {}
  BY DEF OthersRest
<1>3. stage'[r] \notin {"failed", "crashed", "idle"}
  BY DEF CalmStep, Begin, AllocateNextEntry, NoFreeIndex, CreateNewAllocationList,
     Allocated, BuildVerifiableCredentials, RevocationListsCreated,
     MetadataListsCreated, Return, GoTo, TypeOK
<1>4. ASSUME NEW job \in jobs'[r]
      PROVE  \/ stage'[r] = "revocationLists" /\ job.step \in MakingSteps(Revocation)
             \/ stage'[r] = "metadataLists" /\ job.step \in MakingSteps(Metadata)
             \/ stage'[r] = "anchoring" /\ job.step = "setEntry"
  <2>1. CASE BuildVerifiableCredentials(r)
    <3>1. /\ stage'[r] = "revocationLists"
          /\ jobs'[r] = ListJobs("addRevocationList", NewLists(Revocation, r))
      BY <2>1 DEF BuildVerifiableCredentials, GoTo, TypeOK
    <3>. QED  BY <1>4, <3>1, ListJobsAre DEF MakingSteps
  <2>2. CASE RevocationListsCreated(r)
    <3>1. /\ stage'[r] = "metadataLists"
          /\ jobs'[r] = ListJobs("newMetadataList", NewLists(Metadata, r))
      BY <2>2 DEF RevocationListsCreated, GoTo, TypeOK
    <3>. QED  BY <1>4, <3>1, ListJobsAre, EntityFacts DEF MakingSteps
  <2>3. CASE MetadataListsCreated(r)
    BY <1>4, <2>3 DEF MetadataListsCreated, GoTo, TypeOK
  <2>4. CASE \/ Begin(r) \/ AllocateNextEntry(r) \/ NoFreeIndex(r)
             \/ CreateNewAllocationList(r) \/ Allocated(r) \/ Return(r)
    <3>1. jobs'[r] = {}
      BY <2>4 DEF Begin, AllocateNextEntry, NoFreeIndex, CreateNewAllocationList,
         Allocated, Return, StageInv
    <3>. QED  BY <1>4, <3>1
  <2>. QED  BY <2>1, <2>2, <2>3, <2>4 DEF CalmStep
<1>5. ASSUME NEW q \in Request
      PROVE  /\ stage'[q] \notin {"failed", "crashed"}
             /\ stage'[q] = "idle" => \A e \in Entity : entries'[e][q] = <<>>
  BY <1>1, <1>2, <1>3 DEF StagesAreClean
<1>6. ASSUME NEW q \in Request, NEW job \in jobs'[q]
      PROVE  \/ stage'[q] = "revocationLists" /\ job.step \in MakingSteps(Revocation)
             \/ stage'[q] = "metadataLists" /\ job.step \in MakingSteps(Metadata)
             \/ stage'[q] = "anchoring" /\ job.step = "setEntry"
  BY <1>2, <1>4
<1>. QED  BY <1>5, <1>6 DEF StagesAreClean, MakingSteps

\* The lists of the others are made already.
LEMMA RestMadeNothing ==
  ASSUME NEW r \in Request, OthersRest(r), NEW q \in Request, q # r, NEW e, NEW l
  PROVE  ~ ToBeMade(e, l, q) /\ ~ ToBeMade(e, l, q)'
<1>1. /\ stage[q] \in {"idle", "returned"} /\ stage'[q] = stage[q]
      /\ jobs[q] = {} /\ jobs'[q] = {}
  BY DEF OthersRest
<1>. QED  BY <1>1 DEF ToBeMade, Before

\* The documents a step that is no job's leaves.
LEMMA StepLists ==
  ASSUME TypeOK, NEW r \in Request, CalmStep(r), ~ RunJob(r), NEW e \in Entity
  PROVE  /\ allocationLists[e] \subseteq allocationLists'[e]
         /\ \A l \in allocationLists'[e] \ allocationLists[e] : Opened(r, e, l)
         /\ UNCHANGED <<ledgerVars, faults>>
<1>1. CASE CreateNewAllocationList(r)
  <2> DEFINE d == NextEntity(r)
  <2>1. PICK l \in ListId, i \in Index(d) : InsertList(d, l, i)
    BY <1>1 DEF CreateNewAllocationList
  <2>2. d \in Entity
    BY DEF NextEntity, Entity
  <2>3. UNCHANGED <<ledgerVars, faults>>
    BY <1>1 DEF CreateNewAllocationList
  <2>. QED  BY <1>1, <2>1, <2>2, <2>3 DEF InsertList, Opened, TypeOK
<1>2. CASE ~ CreateNewAllocationList(r)
  <2>1. UNCHANGED <<allocationLists, ledgerVars, faults>>
    BY <1>2
    DEF CalmStep, Begin, AllocateNextEntry, NoFreeIndex, Allocated,
        BuildVerifiableCredentials, RevocationListsCreated, MetadataListsCreated,
        Return, mongoVars
  <2>. QED  BY <2>1
<1>. QED  BY <1>1, <1>2

LEMMA StepKeepsMade ==
  ASSUME TypeOK, TypeOK', StageInv, StagesAreClean, ListsAreMade, ListsAreNew,
         NEW r \in Request, CalmStep(r), ~ RunJob(r), OthersRest(r)
  PROVE  ListsAreMade' /\ ListsAreNew'
<1> USE EntityFacts
<1>1. \A e \in Entity : Made(e)' = Made(e)
  BY StepLists DEF Made, ledgerVars
<1>2. ASSUME NEW e \in Entity, NEW l \in allocationLists'[e]
      PROVE  l \in Made(e)' \/ \E q \in Request : ToBeMade(e, l, q)'
  <2>1. l \in ListId
    BY DEF TypeOK
  <2>2. CASE l \in allocationLists[e]
    <3>1. l \in Made(e) \/ ToBeMade(e, l, r)
      BY <2>2, RestMadeNothing DEF ListsAreMade
    <3>. QED  BY <1>1, <2>1, <3>1, MadeByTheSame
  <2>3. CASE l \notin allocationLists[e]
    BY <2>1, <2>3, StepLists, MadeByTheSame
  <2>. QED  BY <2>2, <2>3
<1>3. listIdUsage' = listIdUsage
      /\ allocationLists[Revocation] \subseteq allocationLists'[Revocation]
  BY StepLists DEF ledgerVars
<1>4. ASSUME NEW q \in Request, NEW l \in ListId, ToBeMade(Revocation, l, q)'
      PROVE  l \in allocationLists'[Revocation] /\ l \notin listIdUsage'
  <2>1. q = r
    BY <1>4, RestMadeNothing
  <2>2. ToBeMade(Revocation, l, r) \/ Opened(r, Revocation, l)
    BY <1>4, <2>1, MadeByTheSame
  <2>. QED  BY <1>3, <2>2 DEF ListsAreNew, Opened
<1>5. ListsAreMade'
  BY <1>2 DEF ListsAreMade
<1>6. ListsAreNew'
  BY <1>3, <1>4 DEF ListsAreNew
<1>. QED  BY <1>5, <1>6

LEMMA StepKeepsJobs ==
  ASSUME TypeOK, StageInv, JobsAreDistinct, NEW r \in Request, CalmStep(r), ~ RunJob(r),
         OthersRest(r)
  PROVE  JobsAreDistinct'
<1>1. UNCHANGED lists
  BY StepLists, EntityFacts DEF ledgerVars
<1>2. \/ jobs'[r] = {}
      \/ \A j \in jobs'[r] : j.step = "setEntry"
      \/ \E s \in {"addRevocationList", "newMetadataList"} : \E ids : jobs'[r] = ListJobs(s, ids)
  <2>1. CASE BuildVerifiableCredentials(r)
    BY <2>1 DEF BuildVerifiableCredentials, TypeOK
  <2>2. CASE RevocationListsCreated(r)
    BY <2>2 DEF RevocationListsCreated, TypeOK
  <2>3. CASE MetadataListsCreated(r)
    BY <2>3 DEF MetadataListsCreated, TypeOK
  <2>4. CASE \/ Begin(r) \/ AllocateNextEntry(r) \/ NoFreeIndex(r)
             \/ CreateNewAllocationList(r) \/ Allocated(r) \/ Return(r)
    BY <2>4 DEF Begin, AllocateNextEntry, NoFreeIndex, CreateNewAllocationList,
       Allocated, Return, StageInv
  <2>. QED  BY <2>1, <2>2, <2>3, <2>4 DEF CalmStep
<1>3. ASSUME NEW s \in {"addRevocationList", "newMetadataList"}, NEW ids,
             jobs'[r] = ListJobs(s, ids)
      PROVE  /\ \A i, j \in jobs'[r] : i.listId = j.listId => i = j
             /\ \A j \in jobs'[r] : j.step # "isExistMetadataList"
  BY <1>3 DEF ListJobs
<1>4. \A q \in Request : q # r => jobs'[q] = {}
  BY DEF OthersRest
<1>5. ASSUME NEW q \in Request
      PROVE  /\ \A i, j \in jobs'[q] :
                  i.step # "setEntry" /\ j.step # "setEntry" /\ i.listId = j.listId => i = j
             /\ \A job \in jobs'[q] : job.step = "isExistMetadataList" => job.listId \in lists'
  <2>1. CASE q # r
    BY <1>4, <2>1
  <2>2. CASE q = r
    BY <1>2, <1>3, <2>2
  <2>. QED  BY <2>1, <2>2
<1>. QED  BY <1>5 DEF JobsAreDistinct

\* Whoever holds all the indexes of a list has as many entries.
LEMMA Pigeonhole ==
  ASSUME NEW n \in Nat, NEW m \in Nat, NEW s,
         \A i \in 0 .. m - 1 : \E k \in 1 .. n : s[k].index = i
  PROVE  m <= n
<1> DEFINE f == [k \in 1 .. n |-> s[k].index]
           T == {f[k] : k \in 1 .. n}
<1>1. f \in Surjection(1 .. n, T)
  BY DEF Surjection
<1>2. IsFiniteSet(1 .. n) /\ Cardinality(1 .. n) = n
  BY FS_Interval
<1>. HIDE DEF f, T
<1>3. IsFiniteSet(T) /\ Cardinality(T) <= n
  BY <1>1, <1>2, FS_Surjection
<1>4. 0 .. m - 1 \in SUBSET T
  BY DEF f, T
<1>5. Cardinality(0 .. m - 1) <= Cardinality(T)
  BY <1>3, <1>4, FS_Subset
<1>6. Cardinality(0 .. m - 1) = m
  BY FS_Interval
<1>7. Cardinality(T) \in Nat
  BY <1>3, FS_CardinalityType
<1>. QED  BY <1>3, <1>5, <1>6, <1>7

\* A request that needs a second revocation list finds the wallet's first one on
\* the ledger: alone, it cannot have used up a list of its own.
LEMMA FirstListHasRoom ==
  ASSUME NOffers <= RevocationListSize, TypeOK, NoIndexLost, faults = 0, StagesAreClean,
         OthersAreFull, RevocationListsAreThere, NEW r \in Request, OthersRest(r),
         stage[r] = "creating", NextEntity(r) = Revocation, listIdUsage = {}
  PROVE  allocationLists[Revocation] = {}
<1> SUFFICES ASSUME NEW l \in allocationLists[Revocation] PROVE FALSE
  OBVIOUS
<1> DEFINE n == Len(entries[Revocation][r])
<1>1. n \in Nat /\ n < NOffers
  BY EntityFacts DEF TypeOK, NextEntity
<1>2. freeIndexes[Revocation][l] = {}
  BY DEF OthersAreFull
<1>3. ASSUME NEW i \in Index(Revocation)
      PROVE  \E k \in 1 .. n : entries[Revocation][r][k].index = i
  <2>1. PICK q \in Request :
          \E k \in 1 .. Len(entries[Revocation][q]) : SlotOf(Revocation, q, k) = <<l, i>>
    BY <1>2, EntityFacts DEF NoIndexLost
  <2>2. q = r
    <3>1. CASE q # r /\ stage[q] = "idle"
      BY <2>1, <3>1, EntityFacts DEF StagesAreClean
    <3>2. CASE q # r /\ stage[q] = "returned"
      BY <2>1, <3>2 DEF RevocationListsAreThere
    <3>. QED  BY <3>1, <3>2 DEF OthersRest
  <2>. QED  BY <2>1, <2>2 DEF SlotOf
<1>4. Index(Revocation) = 0 .. RevocationListSize - 1
  BY DEF Index
<1>5. RevocationListSize <= n
  <2> DEFINE s == entries[Revocation][r]
  <2>1. \A i \in 0 .. RevocationListSize - 1 : \E k \in 1 .. n : s[k].index = i
    BY <1>3, <1>4
  <2>2. RevocationListSize \in Nat
    OBVIOUS
  <2>. HIDE DEF n, s
  <2>. QED  BY <1>1, <2>1, <2>2, Pigeonhole
<1>. QED  BY <1>1, <1>5

LEMMA StepKeepsWallet ==
  ASSUME NOffers <= RevocationListSize, TypeOK, StageInv, NoIndexLost, faults = 0,
         StagesAreClean, WalletIsFirst, OthersAreFull, RevocationListsAreThere,
         NEW r \in Request, CalmStep(r), ~ RunJob(r), OthersRest(r)
  PROVE  WalletIsFirst'
<1>1. UNCHANGED <<walletInRegistry, listIdUsage>>
  BY StepLists, EntityFacts DEF ledgerVars
<1>2. ASSUME ~ walletInRegistry, NEW l \in allocationLists'[Revocation],
             NEW m \in allocationLists'[Revocation]
      PROVE  l = m
  <2>1. CASE l \in allocationLists[Revocation] /\ m \in allocationLists[Revocation]
    BY <1>2, <2>1 DEF WalletIsFirst
  <2>2. CASE l \notin allocationLists[Revocation] \/ m \notin allocationLists[Revocation]
    <3>1. CreateNewAllocationList(r) /\ NextEntity(r) = Revocation
      BY <2>2, StepLists, EntityFacts DEF Opened
    <3>2. stage[r] = "creating"
      BY <3>1 DEF CreateNewAllocationList
    <3>3. allocationLists[Revocation] = {}
      BY <1>2, <3>1, <3>2, FirstListHasRoom DEF WalletIsFirst
    <3>4. PICK x \in ListId, i \in Index(Revocation) : InsertList(Revocation, x, i)
      BY <3>1 DEF CreateNewAllocationList
    <3>5. allocationLists'[Revocation] = {x}
      BY <3>3, <3>4, EntityFacts DEF InsertList, TypeOK
    <3>. QED  BY <3>5
  <2>. QED  BY <2>1, <2>2
<1>3. ASSUME NEW q \in Request, NEW job \in jobs'[q]
      PROVE  job \in jobs[q] \/ job.step \notin {"addWallet", "addRevocationListAgain"}
  <2>1. q = r
    BY DEF OthersRest
  <2>2. CASE BuildVerifiableCredentials(r)
    BY <1>3, <2>1, <2>2, ListJobsAre DEF BuildVerifiableCredentials, TypeOK
  <2>3. CASE RevocationListsCreated(r)
    BY <1>3, <2>1, <2>3, ListJobsAre DEF RevocationListsCreated, TypeOK
  <2>4. CASE MetadataListsCreated(r)
    BY <1>3, <2>1, <2>4 DEF MetadataListsCreated, TypeOK
  <2>5. CASE \/ Begin(r) \/ AllocateNextEntry(r) \/ NoFreeIndex(r)
             \/ CreateNewAllocationList(r) \/ Allocated(r) \/ Return(r)
    BY <1>3, <2>5 DEF Begin, AllocateNextEntry, NoFreeIndex, CreateNewAllocationList,
       Allocated, Return
  <2>. QED  BY <2>2, <2>3, <2>4, <2>5 DEF CalmStep
<1>. QED  BY <1>1, <1>2, <1>3 DEF WalletIsFirst

LEMMA StepKeepsFull ==
  ASSUME TypeOK, NEW r \in Request, CalmStep(r), ~ RunJob(r), OthersRest(r)
  PROVE  OthersAreFull'
<1>1. ASSUME NEW q \in Request, stage'[q] = "creating"
      PROVE  q = r /\ NoFreeIndex(r)
  <2>1. q = r
    BY <1>1 DEF OthersRest
  <2>. QED  BY <1>1, <2>1
            DEF CalmStep, Begin, AllocateNextEntry, NoFreeIndex, CreateNewAllocationList,
                Allocated, BuildVerifiableCredentials, RevocationListsCreated,
                MetadataListsCreated, Return, GoTo, TypeOK
<1>2. ASSUME NoFreeIndex(r)
      PROVE  /\ \A l \in allocationLists[NextEntity(r)] : freeIndexes[NextEntity(r)][l] = {}
             /\ UNCHANGED <<mongoVars, entries>>
  BY <1>2 DEF NoFreeIndex
<1>. QED  BY <1>1, <1>2 DEF OthersAreFull, NextEntity, mongoVars

LEMMA StepKeepsThere ==
  ASSUME TypeOK, AllocationInv, ListsAreMade, RevocationListsAreThere,
         NEW r \in Request, CalmStep(r), ~ RunJob(r), OthersRest(r)
  PROVE  RevocationListsAreThere'
<1>1. UNCHANGED listIdUsage
  BY StepLists, EntityFacts DEF ledgerVars
<1>2. ASSUME NEW q \in Request, q # r PROVE stage'[q] = stage[q] /\
               entries'[Revocation][q] = entries[Revocation][q]
  BY <1>2, EntityFacts DEF OthersRest
<1>3. CASE RevocationListsCreated(r)
  <2>1. stage[r] = "revocationLists" /\ jobs[r] = {} /\ UNCHANGED entries
    BY <1>3 DEF RevocationListsCreated
  <2>2. ASSUME NEW k \in 1 .. Len(entries[Revocation][r])
        PROVE  entries[Revocation][r][k].listId \in listIdUsage
    <3> DEFINE l == entries[Revocation][r][k].listId
    <3>1. l \in allocationLists[Revocation]
      BY EntityFacts DEF AllocationInv
    <3>2. ~ ToBeMade(Revocation, l, r)
      BY <2>1 DEF ToBeMade, Before
    <3>. HIDE DEF l
    <3>3. \A q \in Request : ~ ToBeMade(Revocation, l, q)
      BY <3>2, RestMadeNothing
    <3>4. l \in Made(Revocation)
      BY <3>1, <3>3, EntityFacts DEF ListsAreMade
    <3>. QED  BY <3>4 DEF Made, l
  <2>. QED  BY <1>1, <1>2, <2>1, <2>2 DEF RevocationListsAreThere
<1>4. CASE ~ RevocationListsCreated(r)
  <2>1. \/ stage'[r] \notin {"metadataLists", "anchoring", "returned"}
        \/ UNCHANGED entries /\ stage[r] \in {"metadataLists", "anchoring"}
    BY <1>4
    DEF CalmStep, Begin, AllocateNextEntry, NoFreeIndex, CreateNewAllocationList,
        Allocated, BuildVerifiableCredentials, MetadataListsCreated, Return, GoTo, TypeOK
  <2>. QED  BY <1>1, <1>2, <2>1 DEF RevocationListsAreThere
<1>. QED  BY <1>3, <1>4

LEMMA StepKeepsEntries ==
  ASSUME TypeOK, StageInv, EntriesAreJobs, NEW r \in Request, CalmStep(r), ~ RunJob(r),
         OthersRest(r)
  PROVE  EntriesAreJobs'
<1>1. UNCHANGED indexUsed
  BY StepLists, EntityFacts DEF ledgerVars
<1>2. ASSUME NEW q \in Request, stage[q] \in {"anchoring", "returned"}
      PROVE  stage'[q] \in {"anchoring", "returned"} /\ jobs'[q] = jobs[q]
  <2>1. CASE q # r
    BY <1>2, <2>1 DEF OthersRest
  <2>2. CASE q = r
    BY <1>2, <2>2
    DEF CalmStep, Begin, AllocateNextEntry, NoFreeIndex, CreateNewAllocationList,
        Allocated, BuildVerifiableCredentials, RevocationListsCreated,
        MetadataListsCreated, Return, GoTo, TypeOK
  <2>. QED  BY <2>1, <2>2
<1>. QED  BY <1>1, <1>2 DEF EntriesAreJobs

\* What a job does when nothing fails.  A revocation list is added once the
\* wallet is there; without it the job asks for the wallet, adds it, and adds
\* the list; a metadata list is added or found; an entry is written.
Resolved(r, job) == jobs'[r] = jobs[r] \ {job}
Continued(r, job, s) ==
  jobs'[r] = (jobs[r] \ {job}) \cup {[step |-> s, listId |-> job.listId]}

AddsRevocationList(r, job) ==
  /\ job.step \in {"addRevocationList", "addRevocationListAgain"}
  /\ walletInRegistry
  /\ listIdUsage' = listIdUsage \cup {job.listId}
  /\ UNCHANGED <<walletInRegistry, lists, indexUsed>>
  /\ Resolved(r, job)

MissesWallet(r, job) ==
  /\ job.step = "addRevocationList"
  /\ ~ walletInRegistry
  /\ UNCHANGED ledgerVars
  /\ Continued(r, job, "addWallet")

AddsWallet(r, job) ==
  /\ job.step = "addWallet"
  /\ ~ walletInRegistry /\ walletInRegistry'
  /\ UNCHANGED <<listIdUsage, lists, indexUsed>>
  /\ Continued(r, job, "addRevocationListAgain")

AddsMetadataList(r, job) ==
  /\ job.step = "newMetadataList"
  /\ lists' = lists \cup {job.listId}
  /\ UNCHANGED <<walletInRegistry, listIdUsage, indexUsed>>
  /\ Resolved(r, job)

AsksForMetadataList(r, job) ==
  /\ job.step = "newMetadataList"
  /\ job.listId \in lists
  /\ UNCHANGED ledgerVars
  /\ Continued(r, job, "isExistMetadataList")

FindsMetadataList(r, job) ==
  /\ job.step = "isExistMetadataList"
  /\ job.listId \in lists
  /\ UNCHANGED ledgerVars
  /\ Resolved(r, job)

WritesEntry(r, job) ==
  LET entry == entries[Metadata][r][job.offer] IN
    /\ job = [step |-> "setEntry", offer |-> job.offer]
    /\ indexUsed' = [indexUsed EXCEPT ![entry.listId][entry.index] = <<r, job.offer>>]
    /\ UNCHANGED <<walletInRegistry, listIdUsage, lists>>
    /\ Resolved(r, job)

Succeeds(r, job) ==
  \/ AddsRevocationList(r, job) \/ MissesWallet(r, job) \/ AddsWallet(r, job)
  \/ AddsMetadataList(r, job) \/ AsksForMetadataList(r, job)
  \/ FindsMetadataList(r, job) \/ WritesEntry(r, job)

LEMMA CalmOutcome ==
  ASSUME NEW required \in BOOLEAN, NEW o \in Outcomes(required), CountFault(o),
         faults \in Nat, faults' = 0
  PROVE  o = IF required THEN "mined" ELSE "reverted"
<1>1. o \notin {"lost", "unconfirmed"}
  BY DEF CountFault
<1>. QED  BY <1>1 DEF Outcomes

LEMMA ResolveIs ==
  ASSUME TypeOK, NEW r \in Request, NEW job, Resolve(r, job)
  PROVE  Resolved(r, job) /\ UNCHANGED stage
  BY DEF Resolve, Resolved, TypeOK

LEMMA ContinueIs ==
  ASSUME TypeOK, NEW r \in Request, NEW job \in ListJob, NEW s, Continue(r, job, s)
  PROVE  Continued(r, job, s) /\ UNCHANGED stage
<1>1. [job EXCEPT !.step = s] = [step |-> s, listId |-> job.listId]
  BY DEF ListJob
<1>. QED  BY <1>1 DEF Continue, Continued, TypeOK

\* The entry of an offer is written by nobody else, and its list is there.
LEMMA EntryIsFree ==
  ASSUME IInv, StagesAreClean, ListsAreMade, EntriesAreJobs, NEW r \in Request,
         NEW job \in jobs[r], job.step = "setEntry", OthersRest(r)
  PROVE  LET entry == entries[Metadata][r][job.offer] IN
           /\ indexUsed[entry.listId][entry.index] = NoCredential
           /\ entry.listId \in lists
<1> USE EntityFacts
<1> DEFINE k == job.offer
           entry == entries[Metadata][r][k]
           l == entry.listId
           i == entry.index
<1>1. TypeOK /\ StageInv /\ AllocationInv /\ AnchorInv
  BY DEF IInv
<1>2. job \in EntryJob
  BY <1>1, JobKinds
<1>3. job = [step |-> "setEntry", offer |-> k] /\ k \in Offer
  BY <1>2 DEF EntryJob
<1>4. AllocatedAll(r) /\ stage[r] = "anchoring"
  BY <1>1, EntityFacts DEF StageInv, StagesAreClean, MakingSteps
<1>5. k \in 1 .. Len(entries[Metadata][r])
  BY <1>3, <1>4 DEF AllocatedAll, Offer
<1>6. l \in allocationLists[Metadata] /\ l \in ListId /\ i \in Index(Metadata)
  BY <1>1, <1>5 DEF AllocationInv, TypeOK
<1>7. l \in lists
  <2>1. ~ ToBeMade(Metadata, l, r)
    BY <1>4 DEF ToBeMade, Before, MakingSteps, StagesAreClean
  <2>2. \A q \in Request : ~ ToBeMade(Metadata, l, q)
    BY <2>1, RestMadeNothing
  <2>. HIDE DEF l
  <2>3. l \in Made(Metadata)
    BY <1>6, <2>2 DEF ListsAreMade
  <2>. QED  BY <2>3 DEF Made
<1>8. indexUsed[l][i] = NoCredential
  <2> SUFFICES ASSUME indexUsed[l][i] # NoCredential PROVE FALSE
    OBVIOUS
  <2>1. indexUsed[l][i] \in Credential
    BY <1>1, <1>6 DEF TypeOK
  <2>2. PICK q \in Request, m \in Offer : indexUsed[l][i] = <<q, m>>
    <3>1. PICK c \in Credential : indexUsed[l][i] = c
      BY <2>1
    <3>2. \E q \in Request, m \in Offer : c = <<q, m>>
      BY DEF Credential
    <3>. QED  BY <3>1, <3>2
  <2>3. m <= Len(entries[Metadata][q]) /\ SlotOf(Metadata, q, m) = <<l, i>>
    BY <1>1, <1>6, <2>2 DEF AnchorInv
  <2>4. m \in 1 .. Len(entries[Metadata][q])
    BY <1>1, <2>3 DEF Offer, TypeOK
  <2>5. SlotOf(Metadata, r, k) = <<l, i>>
    BY DEF SlotOf
  <2>6. q = r /\ m = k
    BY SMTT(30), <1>1, <1>5, <2>3, <2>4, <2>5 DEF AllocationInv, UniqueAllocation
  <2>. QED  BY <1>3, <1>6, <2>2, <2>6 DEF EntriesAreJobs
<1>. QED  BY <1>7, <1>8

LEMMA JobsSucceed ==
  ASSUME IInv, faults = 0, faults' = 0, StagesAreClean, ListsAreMade, ListsAreNew,
         JobsAreDistinct, WalletIsFirst, EntriesAreJobs,
         NEW r \in Request, RunJob(r), OthersRest(r)
  PROVE  /\ \E job \in jobs[r] : Succeeds(r, job)
         /\ UNCHANGED <<mongoVars, entries, stage, faults>>
<1>0. TypeOK
  BY DEF IInv
<1>1. PICK job \in jobs[r] : \/ AddRevocationList(r, job)
                             \/ AddWallet(r, job)
                             \/ NewMetadataList(r, job)
                             \/ IsExistMetadataList(r, job)
                             \/ SetEntry(r, job)
  BY DEF RunJob
<1>2. UNCHANGED <<mongoVars, entries>>
  BY <1>0, RunJobStage
<1>3. job.step # "setEntry" => job \in ListJob
  BY <1>0, JobKinds
<1>4. faults \in Nat
  BY <1>0 DEF TypeOK
<1>5. CASE AddRevocationList(r, job)
  <2>1. job \in ListJob /\ job.listId \in ListId
    BY <1>3, <1>5 DEF AddRevocationList, ListJob
  <2>2. ToBeMade(Revocation, job.listId, r)
    BY <1>5 DEF AddRevocationList, ToBeMade, MakingSteps
  <2>3. job.listId \notin listIdUsage
    BY <2>1, <2>2 DEF ListsAreNew
  <2>4. PICK o \in Outcomes(walletInRegistry /\ job.listId \notin listIdUsage) :
          /\ listIdUsage' = IF Applied(o) THEN listIdUsage \cup {job.listId}
                                          ELSE listIdUsage
          /\ CountFault(o)
          /\ IF o # "mined" /\ job.step = "addRevocationList"
               THEN Continue(r, job, "addWallet")
               ELSE Settle(r, job, o)
    BY <1>5 DEF AddRevocationList
  <2>5. o = IF walletInRegistry /\ job.listId \notin listIdUsage
              THEN "mined" ELSE "reverted"
    BY <1>4, <2>4, CalmOutcome
  <2>6. CASE walletInRegistry
    <3>1. o = "mined"
      BY <2>3, <2>5, <2>6
    <3>2. Resolved(r, job) /\ UNCHANGED stage
      BY <1>0, <2>4, <3>1, ResolveIs DEF Settle
    <3>3. AddsRevocationList(r, job)
      BY <1>5, <2>4, <2>6, <3>1, <3>2 DEF AddRevocationList, AddsRevocationList, Applied
    <3>. QED  BY <1>2, <3>2, <3>3 DEF Succeeds
  <2>7. CASE ~ walletInRegistry
    <3>1. o = "reverted" /\ job.step = "addRevocationList"
      BY <1>5, <2>5, <2>7 DEF AddRevocationList, WalletIsFirst
    <3>2. Continued(r, job, "addWallet") /\ UNCHANGED stage
      BY <1>0, <2>1, <2>4, <3>1, ContinueIs
    <3>3. MissesWallet(r, job)
      BY <1>5, <2>4, <2>7, <3>1, <3>2
      DEF AddRevocationList, MissesWallet, Applied, ledgerVars
    <3>. QED  BY <1>2, <3>2, <3>3 DEF Succeeds
  <2>. QED  BY <2>6, <2>7
<1>6. CASE AddWallet(r, job)
  <2>1. job \in ListJob /\ ~ walletInRegistry
    BY <1>3, <1>6 DEF AddWallet, WalletIsFirst
  <2>2. PICK o \in Outcomes(~ walletInRegistry) :
          /\ walletInRegistry' = (walletInRegistry \/ Applied(o))
          /\ CountFault(o)
          /\ IF o = "mined" THEN Continue(r, job, "addRevocationListAgain")
                            ELSE Reject(r, job)
    BY <1>6 DEF AddWallet
  <2>3. o = "mined"
    BY <1>4, <2>1, <2>2, CalmOutcome
  <2>4. Continued(r, job, "addRevocationListAgain") /\ UNCHANGED stage
    BY <1>0, <2>1, <2>2, <2>3, ContinueIs
  <2>5. AddsWallet(r, job)
    BY <1>6, <2>1, <2>2, <2>3, <2>4 DEF AddWallet, AddsWallet, Applied
  <2>. QED  BY <1>2, <2>4, <2>5 DEF Succeeds
<1>7. CASE NewMetadataList(r, job)
  <2>1. job \in ListJob
    BY <1>3, <1>7 DEF NewMetadataList
  <2>2. PICK o \in Outcomes(job.listId \notin lists) :
          /\ lists' = IF Applied(o) THEN lists \cup {job.listId} ELSE lists
          /\ CountFault(o)
          /\ IF o = "mined" THEN Resolve(r, job)
                            ELSE Continue(r, job, "isExistMetadataList")
    BY <1>7 DEF NewMetadataList
  <2>3. o = IF job.listId \notin lists THEN "mined" ELSE "reverted"
    BY <1>4, <2>2, CalmOutcome
  <2>4. CASE job.listId \notin lists
    <3>1. Resolved(r, job) /\ UNCHANGED stage
      BY <1>0, <2>2, <2>3, <2>4, ResolveIs
    <3>2. AddsMetadataList(r, job)
      BY <1>7, <2>2, <2>3, <2>4, <3>1 DEF NewMetadataList, AddsMetadataList, Applied
    <3>. QED  BY <1>2, <3>1, <3>2 DEF Succeeds
  <2>5. CASE job.listId \in lists
    <3>1. Continued(r, job, "isExistMetadataList") /\ UNCHANGED stage
      BY <1>0, <2>1, <2>2, <2>3, <2>5, ContinueIs
    <3>2. AsksForMetadataList(r, job)
      BY <1>7, <2>2, <2>3, <2>5, <3>1
      DEF NewMetadataList, AsksForMetadataList, Applied, ledgerVars
    <3>. QED  BY <1>2, <3>1, <3>2 DEF Succeeds
  <2>. QED  BY <2>4, <2>5
<1>8. CASE IsExistMetadataList(r, job)
  <2>1. job.listId \in lists
    BY <1>8 DEF IsExistMetadataList, JobsAreDistinct
  <2>2. Resolve(r, job)
    BY <1>4, <1>8, <2>1 DEF IsExistMetadataList, Fault
  <2>3. Resolved(r, job) /\ UNCHANGED stage
    BY <1>0, <2>2, ResolveIs
  <2>4. FindsMetadataList(r, job)
    BY <1>8, <2>1, <2>3 DEF IsExistMetadataList, FindsMetadataList
  <2>. QED  BY <1>2, <2>3, <2>4 DEF Succeeds
<1>9. CASE SetEntry(r, job)
  <2> DEFINE entry == entries[Metadata][r][job.offer]
             l == entry.listId
             i == entry.index
  <2>1. job.step = "setEntry"
    BY <1>9 DEF SetEntry
  <2>2. indexUsed[l][i] = NoCredential /\ l \in lists
    BY <2>1, EntryIsFree
  <2>3. PICK o \in Outcomes(indexUsed[l][i] = NoCredential /\ l \in lists) :
          /\ indexUsed' = IF Applied(o)
                            THEN [indexUsed EXCEPT ![l][i] = <<r, job.offer>>]
                            ELSE indexUsed
          /\ CountFault(o)
          /\ Settle(r, job, o)
    BY <1>9 DEF SetEntry
  <2>4. o = "mined"
    <3>. HIDE DEF l, i
    <3>. QED  BY <1>4, <2>2, <2>3, CalmOutcome
  <2>5. Resolved(r, job) /\ UNCHANGED stage
    BY <1>0, <2>3, <2>4, ResolveIs DEF Settle
  <2>6. job = [step |-> "setEntry", offer |-> job.offer]
    BY <1>0, <2>1, JobKinds DEF EntryJob
  <2>7. WritesEntry(r, job)
    BY <1>9, <2>3, <2>4, <2>5, <2>6 DEF SetEntry, WritesEntry, Applied
  <2>. QED  BY <1>2, <2>5, <2>7 DEF Succeeds
<1>. QED  BY <1>1, <1>5, <1>6, <1>7, <1>8, <1>9

\* What the jobs of a request that succeed leave alone.
LEMMA SucceedingJob ==
  ASSUME TypeOK, NEW r \in Request, NEW job \in jobs[r], Succeeds(r, job)
  PROVE  /\ \A j \in jobs[r] : j \in jobs'[r] \/ j = job
         /\ \A j \in jobs'[r] :
              \/ j \in jobs[r] /\ j # job
              \/ /\ j.listId = job.listId /\ j.step # "setEntry" /\ job.step # "setEntry"
                 /\ \A e \in Entity : j.step \in MakingSteps(e) <=> job.step \in MakingSteps(e)
         /\ listIdUsage \subseteq listIdUsage' /\ lists \subseteq lists'
<1> DEFINE Successor(s) == [step |-> s, listId |-> job.listId]
<1>1. \/ Resolved(r, job)
      \/ \E s \in {"addWallet", "addRevocationListAgain", "isExistMetadataList"} :
           /\ Continued(r, job, s)
           /\ s = "isExistMetadataList" => job.step = "newMetadataList"
           /\ s # "isExistMetadataList" => job.step \in {"addRevocationList", "addWallet"}
  BY DEF Succeeds, AddsRevocationList, MissesWallet, AddsWallet, AddsMetadataList,
     AsksForMetadataList, FindsMetadataList, WritesEntry
<1>2. listIdUsage \subseteq listIdUsage' /\ lists \subseteq lists'
  BY DEF Succeeds, AddsRevocationList, MissesWallet, AddsWallet, AddsMetadataList,
     AsksForMetadataList, FindsMetadataList, WritesEntry, ledgerVars
<1>3. CASE Resolved(r, job)
  BY <1>2, <1>3 DEF Resolved
<1>4. ASSUME NEW s \in {"addWallet", "addRevocationListAgain", "isExistMetadataList"},
             Continued(r, job, s),
             s = "isExistMetadataList" => job.step = "newMetadataList",
             s # "isExistMetadataList" => job.step \in {"addRevocationList", "addWallet"}
      PROVE  /\ \A j \in jobs[r] : j \in jobs'[r] \/ j = job
             /\ \A j \in jobs'[r] :
                  \/ j \in jobs[r] /\ j # job
                  \/ /\ j.listId = job.listId /\ j.step # "setEntry"
                     /\ job.step # "setEntry"
                     /\ \A e \in Entity :
                          j.step \in MakingSteps(e) <=> job.step \in MakingSteps(e)
  BY <1>4 DEF Continued, MakingSteps
<1>. QED  BY <1>1, <1>2, <1>3, <1>4

\* The jobs keep each part of CalmState.
LEMMA JobKeepsClean ==
  ASSUME TypeOK, StagesAreClean, NEW r \in Request, NEW job \in jobs[r],
         Succeeds(r, job), UNCHANGED <<mongoVars, entries, stage>>, OthersRest(r)
  PROVE  StagesAreClean'
<1> USE EntityFacts
<1>1. ASSUME NEW q \in Request, NEW j \in jobs'[q]
      PROVE  \/ stage[q] = "revocationLists" /\ j.step \in MakingSteps(Revocation)
             \/ stage[q] = "metadataLists" /\ j.step \in MakingSteps(Metadata)
             \/ stage[q] = "anchoring" /\ j.step = "setEntry"
  <2>1. q = r
    BY DEF OthersRest
  <2>2. CASE j \in jobs[r]
    BY <2>1, <2>2 DEF StagesAreClean
  <2>3. CASE j \notin jobs[r]
    <3>1. /\ job.step # "setEntry"
          /\ \A e \in Entity : j.step \in MakingSteps(e) <=> job.step \in MakingSteps(e)
      BY <2>1, <2>3, SucceedingJob
    <3>. QED  BY <2>1, <3>1 DEF StagesAreClean
  <2>. QED  BY <2>2, <2>3
<1>. QED  BY <1>1 DEF StagesAreClean, MakingSteps

LEMMA JobKeepsMade ==
  ASSUME TypeOK, StagesAreClean, ListsAreMade, JobsAreDistinct, NEW r \in Request,
         NEW job \in jobs[r], Succeeds(r, job),
         UNCHANGED <<mongoVars, entries, stage>>, OthersRest(r)
  PROVE  ListsAreMade'
<1> USE EntityFacts
<1>1. \A e \in Entity : Made(e) \subseteq Made(e)'
  BY SucceedingJob DEF Made
<1>2. ASSUME NEW e \in Entity, NEW l \in allocationLists[e], l \notin Made(e)
      PROVE  l \in Made(e)' \/ ToBeMade(e, l, r)'
  <2>1. ToBeMade(e, l, r)
    BY <1>2, RestMadeNothing DEF ListsAreMade
  <2>2. CASE stage[r] \in Before(e) /\ l \in NewLists(e, r)
    BY <2>2 DEF ToBeMade, NewLists, Before
  <2>3. ASSUME NEW j \in jobs[r], j.step \in MakingSteps(e), j.listId = l
        PROVE  l \in Made(e)' \/ ToBeMade(e, l, r)'
    <3>1. CASE j # job
      <4>1. j \in jobs'[r]
        BY <3>1, SucceedingJob
      <4>. QED  BY <2>3, <4>1 DEF ToBeMade, MakingSteps
    <3>2. CASE j = job
      <4>1. \/ l \in Made(e)'
            \/ \E s \in MakingSteps(e) : Continued(r, job, s)
        BY <1>2, <2>3, <3>2
        DEF Succeeds, AddsRevocationList, MissesWallet, AddsWallet, AddsMetadataList,
            AsksForMetadataList, FindsMetadataList, WritesEntry, Made, MakingSteps, Entity
      <4>2. ASSUME NEW s \in MakingSteps(e), Continued(r, job, s)
            PROVE  ToBeMade(e, l, r)'
        <5>1. [step |-> s, listId |-> l] \in jobs'[r]
          BY <2>3, <3>2, <4>2 DEF Continued
        <5>. QED  BY <5>1 DEF ToBeMade, MakingSteps
      <4>. QED  BY <4>1, <4>2
    <3>. QED  BY <3>1, <3>2
  <2>. QED  BY <2>1, <2>2, <2>3 DEF ToBeMade
<1>3. UNCHANGED allocationLists
  BY DEF mongoVars
<1>. QED  BY <1>1, <1>2, <1>3 DEF ListsAreMade

LEMMA JobKeepsNew ==
  ASSUME TypeOK, StagesAreClean, ListsAreNew, JobsAreDistinct, NEW r \in Request,
         NEW job \in jobs[r], Succeeds(r, job),
         UNCHANGED <<mongoVars, entries, stage>>, OthersRest(r)
  PROVE  ListsAreNew'
<1> USE EntityFacts
<1>1. UNCHANGED allocationLists
  BY DEF mongoVars
<1>2. \/ UNCHANGED listIdUsage
      \/ AddsRevocationList(r, job)
  BY DEF Succeeds, AddsRevocationList, MissesWallet, AddsWallet, AddsMetadataList,
     AsksForMetadataList, FindsMetadataList, WritesEntry, ledgerVars
<1>3. ASSUME AddsRevocationList(r, job)
      PROVE  /\ job.listId \in allocationLists[Revocation]
             /\ job.step \in MakingSteps(Revocation) /\ job.step # "setEntry"
             /\ listIdUsage' = listIdUsage \cup {job.listId}
             /\ jobs'[r] = jobs[r] \ {job}
  <2>1. job.step \in MakingSteps(Revocation) /\ job.step # "setEntry"
    BY <1>3 DEF AddsRevocationList, MakingSteps
  <2>2. job \in ListJob
    BY <2>1, JobKinds
  <2>3. job.listId \in ListId
    BY <2>2 DEF ListJob
  <2>4. ToBeMade(Revocation, job.listId, r)
    BY <2>1 DEF ToBeMade
  <2>5. job.listId \in allocationLists[Revocation]
    BY <2>3, <2>4 DEF ListsAreNew
  <2>. QED  BY <1>3, <2>1, <2>5 DEF AddsRevocationList, Resolved
<1>4. listIdUsage' \subseteq allocationLists'[Revocation]
  BY <1>1, <1>2, <1>3 DEF ListsAreNew
<1>5. stage[r] \notin Before(Revocation)
  <2>1. jobs[r] # {}
    OBVIOUS
  <2>. QED  BY DEF StagesAreClean, Before
<1>6. ASSUME NEW q \in Request, NEW l \in ListId, ToBeMade(Revocation, l, q)'
      PROVE  l \in allocationLists'[Revocation] /\ l \notin listIdUsage'
  <2>1. q = r
    BY <1>6, RestMadeNothing
  <2>2. PICK j \in jobs'[r] : j.step \in MakingSteps(Revocation) /\ j.listId = l
    BY <1>5, <1>6, <2>1 DEF ToBeMade, Before, MakingSteps
  <2>3. ToBeMade(Revocation, l, r)
    <3>1. CASE j \in jobs[r]
      BY <2>2, <3>1 DEF ToBeMade
    <3>2. CASE j \notin jobs[r]
      <4>1. job.step \in MakingSteps(Revocation) /\ job.listId = l
        BY <2>2, <3>2, SucceedingJob
      <4>. QED  BY <4>1 DEF ToBeMade
    <3>. QED  BY <3>1, <3>2
  <2>4. l \in allocationLists[Revocation] /\ l \notin listIdUsage
    BY <2>3 DEF ListsAreNew
  <2>5. CASE AddsRevocationList(r, job)
    <3>1. j \in jobs[r] /\ j # job /\ j.step # "setEntry"
      BY <1>3, <2>2, <2>5 DEF MakingSteps
    <3>2. l # job.listId
      BY <1>3, <2>2, <2>5, <3>1 DEF JobsAreDistinct
    <3>. QED  BY <1>1, <1>3, <2>4, <2>5, <3>2
  <2>6. CASE UNCHANGED listIdUsage
    BY <1>1, <2>4, <2>6
  <2>. QED  BY <1>2, <2>5, <2>6
<1>. QED  BY <1>4, <1>6 DEF ListsAreNew

LEMMA JobKeepsJobs ==
  ASSUME TypeOK, JobsAreDistinct, NEW r \in Request, NEW job \in jobs[r],
         Succeeds(r, job), OthersRest(r)
  PROVE  JobsAreDistinct'
<1>1. ASSUME NEW i \in jobs'[r], NEW j \in jobs'[r],
             i.step # "setEntry", j.step # "setEntry", i.listId = j.listId
      PROVE  i = j
  <2>1. CASE i \in jobs[r] /\ i # job /\ j \in jobs[r] /\ j # job
    BY <1>1, <2>1 DEF JobsAreDistinct
  <2>2. CASE ~ (i \in jobs[r] /\ i # job /\ j \in jobs[r] /\ j # job)
    <3>1. PICK s : Continued(r, job, s) /\ job.step # "setEntry"
      BY <2>2 DEF Succeeds, AddsRevocationList, MissesWallet, AddsWallet,
         AddsMetadataList, AsksForMetadataList, FindsMetadataList, WritesEntry, Resolved
    <3>2. \A k \in jobs'[r] : \/ k \in jobs[r] /\ k # job
                              \/ k = [step |-> s, listId |-> job.listId]
      BY <3>1 DEF Continued
    <3>3. \A k \in jobs[r] : k.step # "setEntry" /\ k.listId = job.listId => k = job
      BY <3>1 DEF JobsAreDistinct
    <3>. QED  BY <1>1, <2>2, <3>2, <3>3
  <2>. QED  BY <2>1, <2>2
<1>2. ASSUME NEW j \in jobs'[r], j.step = "isExistMetadataList" PROVE j.listId \in lists'
  <2>1. CASE j \in jobs[r]
    BY <1>2, <2>1, SucceedingJob DEF JobsAreDistinct
  <2>2. CASE j \notin jobs[r]
    BY <1>2, <2>2
    DEF Succeeds, AddsRevocationList, MissesWallet, AddsWallet, AddsMetadataList,
        AsksForMetadataList, FindsMetadataList, WritesEntry, Resolved, Continued, ledgerVars
  <2>. QED  BY <2>1, <2>2
<1>3. \A q \in Request : q # r => jobs'[q] = {}
  BY DEF OthersRest
<1>. QED  BY <1>1, <1>2, <1>3 DEF JobsAreDistinct

LEMMA JobKeepsWallet ==
  ASSUME TypeOK, ListsAreNew, JobsAreDistinct, WalletIsFirst, NEW r \in Request,
         NEW job \in jobs[r], Succeeds(r, job), UNCHANGED mongoVars, OthersRest(r)
  PROVE  WalletIsFirst'
<1> USE EntityFacts
<1>1. ~ walletInRegistry' => ~ walletInRegistry /\ UNCHANGED listIdUsage
  BY DEF Succeeds, AddsRevocationList, MissesWallet, AddsWallet, AddsMetadataList,
     AsksForMetadataList, FindsMetadataList, WritesEntry, ledgerVars
<1>2. ASSUME NEW j \in jobs'[r]
      PROVE  /\ j.step = "addWallet" => ~ walletInRegistry'
             /\ j.step = "addRevocationListAgain" => walletInRegistry'
  <2>1. CASE AddsWallet(r, job)
    <3>1. j.step # "addWallet"
      <4> SUFFICES ASSUME j.step = "addWallet" PROVE FALSE
        OBVIOUS
      <4>1. j \in jobs[r] /\ j # job
        BY <2>1 DEF AddsWallet, Continued
      <4>2. job.step = "addWallet" /\ ~ walletInRegistry
        BY <2>1 DEF AddsWallet
      <4>3. j \in ListJob /\ job \in ListJob
        BY <4>1, <4>2, JobKinds
      <4>4. j.listId \in ListId /\ job.listId \in ListId
        BY <4>3 DEF ListJob
      <4>5. ToBeMade(Revocation, j.listId, r) /\ ToBeMade(Revocation, job.listId, r)
        BY <4>1, <4>2 DEF ToBeMade, MakingSteps
      <4>6. j.listId = job.listId
        BY <4>2, <4>4, <4>5 DEF ListsAreNew, WalletIsFirst
      <4>. QED  BY <4>1, <4>2, <4>6 DEF JobsAreDistinct
    <3>. QED  BY <2>1, <3>1 DEF AddsWallet
  <2>2. CASE ~ AddsWallet(r, job)
    <3>1. UNCHANGED walletInRegistry
      BY <2>2
      DEF Succeeds, AddsRevocationList, MissesWallet, AddsMetadataList,
          AsksForMetadataList, FindsMetadataList, WritesEntry, ledgerVars
    <3>2. CASE j \in jobs[r]
      BY <3>1, <3>2 DEF WalletIsFirst
    <3>3. CASE j \notin jobs[r]
      BY <2>2, <3>1, <3>3
      DEF Succeeds, AddsRevocationList, MissesWallet, AddsMetadataList,
          AsksForMetadataList, FindsMetadataList, WritesEntry, Resolved, Continued
    <3>. QED  BY <3>2, <3>3
  <2>. QED  BY <2>1, <2>2
<1>3. \A q \in Request : q # r => jobs'[q] = {}
  BY DEF OthersRest
<1>4. UNCHANGED allocationLists
  BY DEF mongoVars
<1>5. ~ walletInRegistry' => /\ listIdUsage' = {}
                             /\ \A l, m \in allocationLists'[Revocation] : l = m
  BY <1>1, <1>4 DEF WalletIsFirst
<1>6. \A q \in Request : \A j \in jobs'[q] :
        /\ j.step = "addWallet" => ~ walletInRegistry'
        /\ j.step = "addRevocationListAgain" => walletInRegistry'
  BY <1>2, <1>3
<1>. QED  BY <1>5, <1>6 DEF WalletIsFirst

LEMMA JobKeepsRest ==
  ASSUME TypeOK, StagesAreClean, OthersAreFull, RevocationListsAreThere,
         NEW r \in Request, NEW job \in jobs[r], Succeeds(r, job),
         UNCHANGED <<mongoVars, entries, stage>>
  PROVE  OthersAreFull' /\ RevocationListsAreThere'
<1>1. OthersAreFull'
  BY DEF OthersAreFull, NextEntity, mongoVars
<1>2. listIdUsage \subseteq listIdUsage'
  BY SucceedingJob
<1>3. RevocationListsAreThere'
  BY <1>2 DEF RevocationListsAreThere
<1>. QED  BY <1>1, <1>3

LEMMA JobKeepsEntries ==
  ASSUME IInv, StagesAreClean, EntriesAreJobs, NEW r \in Request, NEW job \in jobs[r],
         Succeeds(r, job), UNCHANGED <<mongoVars, entries, stage>>, OthersRest(r)
  PROVE  EntriesAreJobs'
<1> USE EntityFacts
<1>0. TypeOK /\ StageInv
  BY DEF IInv
<1> SUFFICES ASSUME NEW q \in Request, NEW k \in Offer, NEW l \in ListId,
                    NEW i \in Index(Metadata), indexUsed'[l][i] = <<q, k>>
             PROVE  /\ stage'[q] \in {"anchoring", "returned"}
                    /\ [step |-> "setEntry", offer |-> k] \notin jobs'[q]
  BY DEF EntriesAreJobs
<1>1. ASSUME NEW p \in Request, [step |-> "setEntry", offer |-> k] \in jobs'[p]
      PROVE  [step |-> "setEntry", offer |-> k] \in jobs[p]
             /\ [step |-> "setEntry", offer |-> k] # job
  <2>1. p = r
    BY <1>1 DEF OthersRest
  <2>. QED  BY <1>0, <1>1, <2>1, SucceedingJob
<1>2. CASE indexUsed[l][i] = <<q, k>>
  BY <1>1, <1>2 DEF EntriesAreJobs
<1>3. CASE indexUsed[l][i] # <<q, k>>
  <2>1. WritesEntry(r, job)
    BY <1>3
    DEF Succeeds, AddsRevocationList, MissesWallet, AddsWallet, AddsMetadataList,
        AsksForMetadataList, FindsMetadataList, ledgerVars
  <2>2. <<q, k>> = <<r, job.offer>>
    BY <1>0, <1>3, <2>1 DEF WritesEntry, TypeOK
  <2>3. job = [step |-> "setEntry", offer |-> k] /\ q = r
    BY <2>1, <2>2 DEF WritesEntry
  <2>4. stage[r] = "anchoring"
    BY <2>3 DEF StagesAreClean, MakingSteps
  <2>. QED  BY <1>1, <2>3, <2>4
<1>. QED  BY <1>2, <1>3

LEMMA InitCalm == Init => CalmInv
<1> SUFFICES ASSUME Init PROVE CalmState
  BY InitOneInFlight DEF CalmInv
<1>1. /\ \A e \in Entity : allocationLists[e] = {}
      /\ listIdUsage = {}
      /\ \A r \in Request : stage[r] = "idle" /\ jobs[r] = {}
      /\ \A e \in Entity, r \in Request : entries[e][r] = <<>>
      /\ \A l \in ListId, i \in Index(Metadata) : indexUsed[l][i] = NoCredential
  BY DEF Init
<1>2. \A e \in Entity, r \in Request : \A l : ~ ToBeMade(e, l, r)
  BY <1>1 DEF ToBeMade, Before
<1>3. StagesAreClean /\ JobsAreDistinct /\ OthersAreFull /\ RevocationListsAreThere
  BY <1>1 DEF StagesAreClean, JobsAreDistinct, OthersAreFull, RevocationListsAreThere
<1>4. ListsAreMade /\ ListsAreNew /\ WalletIsFirst
  BY <1>1, <1>2, EntityFacts DEF ListsAreMade, ListsAreNew, WalletIsFirst
<1>5. EntriesAreJobs
  BY <1>1 DEF EntriesAreJobs, NoCredential
<1>. QED  BY <1>3, <1>4, <1>5 DEF CalmState

LEMMA NextCalm ==
  ASSUME MaxInFlight = 1, NOffers <= RevocationListSize, IInv, IInv', NoIndexLost,
         CalmInv, [Next]_vars
  PROVE  CalmInv'
<1>1. TypeOK /\ TypeOK' /\ StageInv /\ AllocationInv
  BY DEF IInv
<1>2. OneInFlight /\ OneInFlight'
  BY <1>1, NextOneInFlight DEF CalmInv
<1> SUFFICES ASSUME faults' = 0 PROVE CalmState'
  BY <1>2 DEF CalmInv
<1>3. faults = 0 /\ (UNCHANGED vars \/ \E r \in Request : CalmStep(r))
  BY <1>1, CalmSteps
<1>4. /\ StagesAreClean /\ ListsAreMade /\ ListsAreNew /\ JobsAreDistinct
      /\ WalletIsFirst /\ OthersAreFull /\ RevocationListsAreThere /\ EntriesAreJobs
  BY <1>3 DEF CalmInv, CalmState
<1>5. CASE UNCHANGED vars
  <2>1. \A e, l, r : ToBeMade(e, l, r)' <=> ToBeMade(e, l, r)
    BY <1>5 DEF vars, requestVars, ToBeMade, NewLists, Before, MakingSteps
  <2>2. StagesAreClean' /\ JobsAreDistinct'
    BY <1>4, <1>5
    DEF vars, requestVars, ledgerVars, StagesAreClean, JobsAreDistinct, MakingSteps
  <2>3. ListsAreMade' /\ ListsAreNew'
    BY <1>4, <1>5, <2>1
    DEF vars, mongoVars, ledgerVars, ListsAreMade, ListsAreNew, Made
  <2>4. WalletIsFirst' /\ OthersAreFull' /\ RevocationListsAreThere' /\ EntriesAreJobs'
    BY <1>4, <1>5
    DEF vars, mongoVars, ledgerVars, requestVars, WalletIsFirst, OthersAreFull,
        NextEntity, RevocationListsAreThere, EntriesAreJobs
  <2>. QED  BY <2>2, <2>3, <2>4 DEF CalmState
<1>6. ASSUME NEW r \in Request, CalmStep(r) PROVE CalmState'
  <2>1. OthersRest(r)
    BY <1>1, <1>2, <1>4, <1>6, Alone
  <2>2. CASE RunJob(r)
    <3>1. PICK job \in jobs[r] : Succeeds(r, job)
      BY <1>3, <1>4, <2>1, <2>2, JobsSucceed
    <3>2. UNCHANGED <<mongoVars, entries, stage>>
      BY <1>3, <1>4, <2>1, <2>2, JobsSucceed
    <3>3. StagesAreClean' /\ ListsAreMade' /\ ListsAreNew'
      BY <1>1, <1>4, <2>1, <3>1, <3>2, JobKeepsClean, JobKeepsMade, JobKeepsNew
    <3>4. JobsAreDistinct' /\ WalletIsFirst'
      BY <1>1, <1>4, <2>1, <3>1, <3>2, JobKeepsJobs, JobKeepsWallet
    <3>5. OthersAreFull' /\ RevocationListsAreThere' /\ EntriesAreJobs'
      BY <1>1, <1>4, <2>1, <3>1, <3>2, JobKeepsRest, JobKeepsEntries
    <3>. QED  BY <3>3, <3>4, <3>5 DEF CalmState
  <2>3. CASE ~ RunJob(r)
    <3>1. StagesAreClean' /\ ListsAreMade' /\ ListsAreNew'
      BY <1>1, <1>4, <1>6, <2>1, <2>3, StepKeepsClean, StepKeepsMade
    <3>2. JobsAreDistinct' /\ OthersAreFull'
      BY <1>1, <1>4, <1>6, <2>1, <2>3, StepKeepsJobs, StepKeepsFull
    <3>3. WalletIsFirst'
      BY <1>1, <1>3, <1>4, <1>6, <2>1, <2>3, StepKeepsWallet
    <3>4. RevocationListsAreThere' /\ EntriesAreJobs'
      BY <1>1, <1>4, <1>6, <2>1, <2>3, StepKeepsThere, StepKeepsEntries
    <3>. QED  BY <3>1, <3>2, <3>3, <3>4 DEF CalmState
  <2>. QED  BY <2>2, <2>3
<1>. QED  BY <1>3, <1>5, <1>6

\* One request at a time, with no more offers than a revocation list has indexes,
\* keeps CalmInv.
LEMMA Calm ==
  ASSUME MaxInFlight = 1, NOffers <= RevocationListSize
  PROVE  Spec => []CalmInv
<1>1. IInv /\ IInv' /\ NoIndexLost /\ CalmInv /\ [Next]_vars => CalmInv'
  BY NextCalm
<1>. QED  BY <1>1, InitCalm, Invariance, IndexesAreKept, PTL DEF Spec

\* An issuer that runs one request at a time, each with no more offers than a
\* revocation list has indexes, fails none while nothing around it fails:
\* createRevocationList's second try and createCredentialMetadataList's catch
\* are all it needs.
THEOREM TurnsNeverFail ==
  ASSUME MaxInFlight = 1, NOffers <= RevocationListSize
  PROVE  Spec => []NeverFailsUnprovoked
<1>1. CalmInv => NeverFailsUnprovoked
  BY DEF CalmInv, CalmState, StagesAreClean, NeverFailsUnprovoked
<1>. QED  BY <1>1, Calm, PTL

\* Nor does such an issuer return credentials whose revocation lists are not on
\* the ledger: the request that shares a list comes after the one that opened it.
THEOREM TurnsHaveRevocationLists ==
  ASSUME MaxInFlight = 1, NOffers <= RevocationListSize
  PROVE  Spec => []IssuedHasRevocationList
<1>1. IInv /\ CalmInv => IssuedHasRevocationList
  <2> SUFFICES ASSUME IInv, CalmInv, faults = 0, NEW r \in Request, stage[r] = "returned",
                      NEW k \in Offer
               PROVE  entries[Revocation][r][k].listId \in listIdUsage
    BY DEF IssuedHasRevocationList
  <2>1. AllocatedAll(r) /\ RevocationListsAreThere
    BY DEF IInv, StageInv, CalmInv, CalmState
  <2>2. k \in 1 .. Len(entries[Revocation][r])
    BY <2>1 DEF AllocatedAll, Offer
  <2>. QED  BY <2>1, <2>2 DEF RevocationListsAreThere
<1>. QED  BY <1>1, Calm, Invariance, PTL
=============================================================================
