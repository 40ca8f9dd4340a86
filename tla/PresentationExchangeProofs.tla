--------------------- MODULE PresentationExchangeProofs ---------------------
(***************************************************************************)
(* The safety properties of revocations and presentations, for any number  *)
(* of credentials, requests, presentations and faults, and lists and words *)
(* of any length.                                                          *)
(*                                                                         *)
(* The argument for RevocationsAreSeen: a revoke request is answered only  *)
(* once the bit is on the ledger (AnsweredIsRevoked), a bit is never reset *)
(* and stands for one credential (RevokedIsExact), and the checks of a     *)
(* submission read it after the submission was received (ReadAfterwards).  *)
(***************************************************************************)
EXTENDS PresentationExchange, TLAPS

-----------------------------------------------------------------------------
(* The registry's words. *)

\* A word and an offset are those of one index only.
LEMMA WordsAreDisjoint ==
  ASSUME NEW i \in 0..(ListLength - 1), NEW j \in 0..(ListLength - 1),
         PositionOf(i) = PositionOf(j), OffsetOf(i) = OffsetOf(j)
  PROVE  i = j
<1>1. i = WordSize * PositionOf(i) + OffsetOf(i)
  BY ListAssumption DEF PositionOf, OffsetOf
<1>2. j = WordSize * PositionOf(j) + OffsetOf(j)
  BY ListAssumption DEF PositionOf, OffsetOf
<1>3. QED
  BY <1>1, <1>2

\* Every index of a list has a word and an offset.
LEMMA WordsCover ==
  ASSUME NEW i \in 0..(ListLength - 1)
  PROVE  PositionOf(i) \in Position /\ OffsetOf(i) \in 0..(WordSize - 1)
  BY ListAssumption DEF PositionOf, OffsetOf, Position
\* setRevokedStatus sets the bit of its credential and no other.
LEMMA BitIsSet ==
  ASSUME lists \in [ListId -> [Position -> SUBSET (0..(WordSize - 1))]],
         NEW c \in Credential, SetRevokedStatus(c)
  PROVE  /\ lists' \in [ListId -> [Position -> SUBSET (0..(WordSize - 1))]]
         /\ \A d \in Credential : RevokedStatus(d)' <=> (RevokedStatus(d) \/ d = c)
<1> DEFINE l == ListOf[c]
           p == PositionOf(IndexOf[c])
           o == OffsetOf(IndexOf[c])
<1>1. l \in ListId /\ IndexOf[c] \in 0..(ListLength - 1)
  BY ListAssumption
<1>2. p \in Position /\ o \in 0..(WordSize - 1)
  BY <1>1, WordsCover
<1>3. lists' = [lists EXCEPT ![l][p] = @ \cup {o}]
  BY DEF SetRevokedStatus
<1> HIDE DEF l, p, o
<1>4. lists' \in [ListId -> [Position -> SUBSET (0..(WordSize - 1))]]
  BY <1>1, <1>2, <1>3
<1>5. ASSUME NEW d \in Credential
      PROVE  RevokedStatus(d)' <=> (RevokedStatus(d) \/ d = c)
  <2> DEFINE m == ListOf[d]
             q == PositionOf(IndexOf[d])
             e == OffsetOf(IndexOf[d])
  <2>1. m \in ListId /\ IndexOf[d] \in 0..(ListLength - 1)
    BY ListAssumption
  <2>2. q \in Position
    BY <2>1, WordsCover
  <2>3. RevokedStatus(d) <=> e \in lists[m][q]
    BY DEF RevokedStatus
  <2>4. RevokedStatus(d)' <=> e \in lists'[m][q]
    BY DEF RevokedStatus
  <2>5. (m = l /\ q = p /\ e = o) <=> d = c
    <3>1. ASSUME m = l, q = p, e = o PROVE d = c
      <4>1. IndexOf[d] = IndexOf[c]
        BY <3>1, <1>1, <2>1, WordsAreDisjoint DEF p, o
      <4>2. QED
        BY <3>1, <4>1, EntriesAssumption DEF l
    <3>2. QED
      BY <3>1 DEF l, p, o
  <2> HIDE DEF m, q, e
  <2>6. e \in lists'[m][q] <=> (e \in lists[m][q] \/ (m = l /\ q = p /\ e = o))
    BY <1>1, <1>2, <1>3, <2>1, <2>2 DEF m
  <2>7. QED
    BY <2>3, <2>4, <2>5, <2>6
<1>6. QED
  BY <1>4, <1>5

-----------------------------------------------------------------------------
(* The issuer's agent. *)

\* A request is past the ledger, or answered, only with the bit set; every bit stays.
AnsweredIsRevoked ==
  /\ answered \subseteq revoked
  /\ revokedAt \subseteq revoked
  /\ \A r \in Revocation : stage[r] \in {"time", "push", "notified"} =>
       CredentialOf[r] \in revoked

\* A request that is about to record the notification sent it, or it was lost.
NotifiedIsPushed ==
  \A r \in Revocation : stage[r] = "notified" => CredentialOf[r] \in pushed \cup cutShort

RevocationInv == /\ RevocationTypeOK /\ RevokedIsExact /\ AnsweredIsRevoked
                 /\ NotifiedIsPushed /\ HoldersAreTold

\* Nothing is revoked yet.
LEMMA RevocationInvInit == RevocationInit => RevocationInv
<1> SUFFICES ASSUME RevocationInit PROVE RevocationInv
  OBVIOUS
<1>1. RevocationTypeOK
  BY RevocationAssumption DEF RevocationInit, RevocationTypeOK
<1>2. RevokedIsExact
  <2> SUFFICES ASSUME NEW c \in Credential PROVE ~ RevokedStatus(c) /\ c \notin revoked
    BY DEF RevokedIsExact
  <2>1. ListOf[c] \in ListId /\ IndexOf[c] \in 0..(ListLength - 1)
    BY ListAssumption
  <2>2. PositionOf(IndexOf[c]) \in Position
    BY <2>1, WordsCover
  <2>3. QED
    BY <2>1, <2>2 DEF RevocationInit, RevokedStatus
<1>3. AnsweredIsRevoked /\ NotifiedIsPushed /\ HoldersAreTold
  BY DEF RevocationInit, AnsweredIsRevoked, NotifiedIsPushed, HoldersAreTold
<1>4. QED
  BY <1>1, <1>2, <1>3 DEF RevocationInv

\* The transaction, mined or not.
LEMMA SetRevokedOnChainPreserves ==
  ASSUME RevocationInv, NEW r \in Revocation, SetRevokedOnChain(r)
  PROVE  RevocationInv'
<1> DEFINE c == CredentialOf[r]
<1>1. c \in Credential
  BY RevocationAssumption
<1>2. CASE SetRevokedStatus(c)
  <2>1. /\ lists' \in [ListId -> [Position -> SUBSET (0..(WordSize - 1))]]
        /\ \A d \in Credential : RevokedStatus(d)' <=> (RevokedStatus(d) \/ d = c)
    BY <1>1, <1>2, BitIsSet DEF RevocationInv, RevocationTypeOK
  <2>2. revoked' = revoked \cup {c}
    BY <1>2 DEF SetRevokedStatus
  <2> HIDE DEF c
  <2>3. RevokedIsExact'
    BY <2>1, <2>2 DEF RevocationInv, RevokedIsExact
  <2>4. RevocationTypeOK'
    BY <1>1, <2>1, <2>2, RevocationAssumption
    DEF RevocationInv, RevocationTypeOK, SetRevokedOnChain, Fault, NoFault, To
  <2>5. AnsweredIsRevoked'
    BY <2>2 DEF RevocationInv, AnsweredIsRevoked, SetRevokedOnChain, To, RevocationTypeOK, c
  <2>6. QED
    BY <2>3, <2>4, <2>5
    DEF RevocationInv, RevocationTypeOK, NotifiedIsPushed, HoldersAreTold, Telling,
        SetRevokedOnChain, To
<1>3. CASE UNCHANGED <<lists, revoked>> /\ Fault /\ To(r, "failed")
  BY <1>3, RevocationAssumption
  DEF RevocationInv, RevocationTypeOK, RevokedIsExact, RevokedStatus, AnsweredIsRevoked,
      NotifiedIsPushed, HoldersAreTold, Telling, SetRevokedOnChain, Fault, To
<1>4. QED
  BY <1>2, <1>3 DEF SetRevokedOnChain

\* Every other step leaves the ledger alone.
LEMMA RevocationInvStep == RevocationInv /\ [RevocationNext]_revocation => RevocationInv'
<1> SUFFICES ASSUME RevocationInv, [RevocationNext]_revocation
             PROVE  RevocationInv'
  OBVIOUS
<1> USE RevocationAssumption
    DEF RevocationInv, RevocationTypeOK, RevokedIsExact, RevokedStatus, AnsweredIsRevoked,
        NotifiedIsPushed, HoldersAreTold, Telling, To, NoFault, Fault, Answer
<1>1. CASE UNCHANGED revocation
  BY <1>1 DEF revocation
<1>2. ASSUME NEW r \in Revocation, FindOffer(r) PROVE RevocationInv'
  BY <1>2 DEF FindOffer
<1>3. ASSUME NEW r \in Revocation, SetRevokedTime(r) PROVE RevocationInv'
  BY <1>3 DEF SetRevokedTime
<1>4. ASSUME NEW r \in Revocation, TriggerPush(r) PROVE RevocationInv'
  BY <1>4 DEF TriggerPush
<1>5. ASSUME NEW r \in Revocation, SetNotifiedTime(r) PROVE RevocationInv'
  BY <1>5 DEF SetNotifiedTime
<1>6. ASSUME NEW r \in Revocation, RevocationFails(r) PROVE RevocationInv'
  BY <1>6 DEF RevocationFails
<1>7. CASE IssuerCrash
  BY <1>7 DEF IssuerCrash
<1>8. QED
  BY <1>1, <1>2, <1>3, <1>4, <1>5, <1>6, <1>7, SetRevokedOnChainPreserves
  DEF RevocationNext, Revoke
\* A step of the relying party's agent only counts a fault there.
LEMMA IssuerUnchangedPreserves ==
  ASSUME RevocationInv, IssuerUnchanged, faults' \in 0..MaxFaults
  PROVE  RevocationInv'
  BY DEF IssuerUnchanged, RevocationInv, RevocationTypeOK, RevokedIsExact, RevokedStatus,
         AnsweredIsRevoked, NotifiedIsPushed, HoldersAreTold, Telling

-----------------------------------------------------------------------------
(* The relying party's agent. *)

\* A submission reads the ledger after it was received, when the bits of what had
\* been answered were set.
ReadAfterwards ==
  \A s \in Submission :
    /\ answeredBefore[s] \subseteq revoked
    /\ step[s] \in {"new", "loaded"} => \A c \in Credential : statuses[s][c] = "NONE"
    /\ \A c \in Credential : statuses[s][c] = "UNREVOKED" => c \notin answeredBefore[s]

\* Credentials reach the vendor only after the checks were read, and identify a user
\* only if all passed when they must.
DeliveredAfterwards ==
  \A s \in Submission :
    /\ step[s] = "send" => ~ IsIssuingDisclosure
    /\ s \in delivered => step[s] \notin {"new", "loaded", "received"}
    /\ (s \in delivered /\ IsIssuingDisclosure /\ AutoIdentityCheck) =>
         Passed(s) = Presented(s)

\* A submission completes after it was received and delivered.
CompletesDelivered ==
  \A s \in Submission :
    /\ step[s] \in {"received", "send", "identify", "complete", "done"} => Received(s)
    /\ step[s] \in {"complete", "done"} => s \in delivered
    /\ step[s] = "done" => CompletionState \in events

\* The exchange's presentationId is the last one received.
LastReceived ==
  received # <<>> => presentationId = SubmittedBy[received[Len(received)]]

IInv == /\ TypeOK /\ RevocationInv /\ ReadAfterwards /\ DeliveredAfterwards
        /\ CompletesDelivered /\ LastReceived /\ RepeatsAreApart
        /\ SubmissionsLeaveAnEnd /\ CompleteIsDelivered

\* A new exchange.
LEMMA IInvInit == Init => IInv
<1> SUFFICES ASSUME Init PROVE IInv
  OBVIOUS
<1>1. RevocationInv
  BY RevocationInvInit DEF Init
<1>2. TypeOK
  BY <1>1 DEF Init, ExchangeInit, TypeOK, RevocationInv, Ended
<1>3. ReadAfterwards /\ DeliveredAfterwards /\ CompletesDelivered /\ LastReceived
      /\ RepeatsAreApart /\ SubmissionsLeaveAnEnd /\ CompleteIsDelivered
  BY DEF Init, ExchangeInit, ReadAfterwards, DeliveredAfterwards, CompletesDelivered,
         LastReceived, RepeatsAreApart, SubmissionsLeaveAnEnd, CompleteIsDelivered
<1>4. QED
  BY <1>1, <1>2, <1>3 DEF IInv

\* The issuer's agent only adds bits.
LEMMA IssuerStepPreserves ==
  ASSUME IInv, [RevocationNext]_revocation, UNCHANGED exchange
  PROVE  IInv'
<1>1. RevocationInv'
  BY RevocationInvStep DEF IInv
<1>2. revoked \subseteq revoked'
  BY DEF RevocationNext, Revoke, FindOffer, SetRevokedOnChain, SetRevokedStatus,
         SetRevokedTime, TriggerPush, SetNotifiedTime, RevocationFails, IssuerCrash, revocation
<1>3. ReadAfterwards'
  BY <1>2 DEF IInv, ReadAfterwards, exchange
<1>4. TypeOK'
  BY <1>1 DEF IInv, TypeOK, RevocationInv, exchange
<1>5. QED
  BY <1>1, <1>3, <1>4
  DEF IInv, DeliveredAfterwards, CompletesDelivered, LastReceived, RepeatsAreApart,
      SubmissionsLeaveAnEnd, CompleteIsDelivered, exchange, Received, Passed, Presented,
      IsIssuingDisclosure, CompletionState

\* A received submission goes to the end of the list, after another presentation.
LEMMA ReceivePreserves ==
  ASSUME IInv, NEW s \in Submission, step[s] = "loaded", presentationId # SubmittedBy[s],
         Receive(s)
  PROVE  /\ received' \in Seq(Submission)
         /\ \A q \in Submission : Received(q)' <=> (Received(q) \/ q = s)
         /\ LastReceived' /\ RepeatsAreApart'
<1>1. received \in Seq(Submission) /\ received' = Append(received, s)
  BY DEF IInv, TypeOK, Receive
<1>2. /\ received' \in Seq(Submission)
      /\ DOMAIN received = 1..Len(received)
      /\ DOMAIN received' = 1..(Len(received) + 1) /\ Len(received) \in Nat
      /\ Len(received') = Len(received) + 1
      /\ \A i \in DOMAIN received : received'[i] = received[i]
      /\ received'[Len(received) + 1] = s
  BY <1>1
<1>3. LastReceived'
  BY <1>2 DEF LastReceived, Receive
<1>4. \A q \in Submission : Received(q)' <=> (Received(q) \/ q = s)
  BY <1>2 DEF Received
<1>5. ASSUME NEW i \in DOMAIN received', NEW j \in DOMAIN received', i < j,
             SubmittedBy[received'[i]] = SubmittedBy[received'[j]]
      PROVE  \E k \in (i + 1)..(j - 1) : SubmittedBy[received'[k]] # SubmittedBy[received'[i]]
  <2>1. CASE j \in DOMAIN received
    <3>1. PICK k \in (i + 1)..(j - 1) : SubmittedBy[received[k]] # SubmittedBy[received[i]]
      BY <1>2, <1>5, <2>1 DEF IInv, RepeatsAreApart
    <3>2. QED
      BY <1>2, <1>5, <2>1, <3>1
  <2>2. CASE j = Len(received) + 1
    <3>1. i \in DOMAIN received /\ received # <<>>
      BY <1>2, <1>5, <2>2
    <3>2. SubmittedBy[received[Len(received)]] # SubmittedBy[s]
      BY <3>1 DEF IInv, LastReceived
    <3>3. i # Len(received) /\ Len(received) \in (i + 1)..(j - 1)
      BY <1>2, <1>5, <2>2, <3>1, <3>2
    <3>4. QED
      BY <1>2, <1>5, <2>2, <3>1, <3>2, <3>3
  <2>3. QED
    BY <1>2, <2>1, <2>2
<1>6. RepeatsAreApart'
  BY <1>5 DEF RepeatsAreApart
<1>7. QED
  BY <1>2, <1>3, <1>4, <1>6
\* The duplicate check, and the receipt of a new submission.
LEMMA DeduplicatePreserves ==
  ASSUME IInv, NEW s \in Submission, Deduplicate(s)
  PROVE  IInv'
<1>1. RevocationInv'
  BY IssuerUnchangedPreserves DEF IInv, RevocationInv, RevocationTypeOK, Deduplicate, NoFault
<1> USE DEF IInv, TypeOK, ReadAfterwards, DeliveredAfterwards, CompletesDelivered,
            SubmissionsLeaveAnEnd, CompleteIsDelivered, Deduplicate, Goes, ChecksUnchanged,
            IssuerUnchanged, Passed, Presented, IsIssuingDisclosure, CompletionState, Ended
<1>2. CASE presentationId # SubmittedBy[s]
  <2>1. /\ received' \in Seq(Submission)
        /\ \A q \in Submission : Received(q)' <=> (Received(q) \/ q = s)
        /\ LastReceived' /\ RepeatsAreApart'
    BY <1>2, ReceivePreserves
  <2>2. answered \subseteq Credential /\ answered \subseteq revoked
    BY DEF RevocationInv, RevocationTypeOK, AnsweredIsRevoked
  <2>3. Receive(s)
    BY <1>2
  <2>4. TypeOK'
    BY <1>1, <2>1, <2>2, <2>3, SubmissionAssumption DEF Receive, RevocationInv
  <2>5. ReadAfterwards'
    BY <2>2, <2>3 DEF Receive
  <2>6. DeliveredAfterwards' /\ CompletesDelivered' /\ SubmissionsLeaveAnEnd'
        /\ CompleteIsDelivered'
    BY <2>1, <2>3 DEF Receive
  <2>7. QED
    BY <1>1, <2>1, <2>4, <2>5, <2>6
<1>3. CASE presentationId = SubmittedBy[s]
  <2>1. ReceiptUnchanged
    BY <1>3
  <2>2. /\ \A q \in Submission : Received(q)' <=> Received(q)
        /\ LastReceived' /\ RepeatsAreApart'
    BY <2>1 DEF ReceiptUnchanged, Received, LastReceived, RepeatsAreApart
  <2>3. TypeOK'
    BY <1>1, <1>3, <2>1 DEF ReceiptUnchanged, RevocationInv
  <2>4. ReadAfterwards'
    BY <1>3, <2>1 DEF ReceiptUnchanged
  <2>5. DeliveredAfterwards'
    BY <1>3, <2>1 DEF ReceiptUnchanged
  <2>6. CompletesDelivered' /\ SubmissionsLeaveAnEnd' /\ CompleteIsDelivered'
    BY <1>3, <2>1, <2>2
  <2>7. QED
    BY <1>1, <2>2, <2>3, <2>4, <2>5, <2>6
<1>4. QED
  BY <1>2, <1>3

\* Each status is read of the ledger as it is.
LEMMA ResolveStatusPreserves ==
  ASSUME IInv, NEW s \in Submission, NEW c \in Credential, ResolveStatus(s, c)
  PROVE  IInv'
<1>1. RevocationInv'
  BY IssuerUnchangedPreserves, RevocationAssumption
  DEF IInv, RevocationInv, RevocationTypeOK, ResolveStatus, NoFault, Fault
<1>2. ReadAfterwards'
  <2>1. statuses'[s][c] = "UNREVOKED" => c \notin revoked
    BY DEF IInv, TypeOK, RevocationInv, RevokedIsExact, ResolveStatus
  <2>2. QED
    BY <2>1
    DEF IInv, TypeOK, ReadAfterwards, ResolveStatus, ReceiptUnchanged, IssuerUnchanged
<1>3. s \notin delivered
  BY DEF IInv, DeliveredAfterwards, ResolveStatus
<1>4. DeliveredAfterwards'
  BY <1>3 DEF IInv, TypeOK, DeliveredAfterwards, ResolveStatus, Passed, Presented,
              IsIssuingDisclosure
<1>5. TypeOK'
  BY SMTT(30), <1>1 DEF IInv, TypeOK, RevocationInv, ResolveStatus, ReceiptUnchanged
<1>6. LastReceived' /\ RepeatsAreApart' /\ CompletesDelivered' /\ SubmissionsLeaveAnEnd'
      /\ CompleteIsDelivered'
  BY DEF IInv, ResolveStatus, ReceiptUnchanged, LastReceived, RepeatsAreApart,
         CompletesDelivered, SubmissionsLeaveAnEnd, CompleteIsDelivered, Received,
         CompletionState, IsIssuingDisclosure
<1>7. QED
  BY <1>1, <1>2, <1>4, <1>5, <1>6 DEF IInv

\* The steps that neither receive nor read a status.
LEMMA OtherStepsPreserve ==
  ASSUME IInv, NEW s \in Submission,
         \/ LoadExchange(s) \/ AddUnchecked(s) \/ ResolveKeys(s) \/ AddChecked(s)
         \/ SendCredentials(s) \/ Identify(s) \/ Complete(s) \/ HandleError(s)
         \/ SubmissionFails(s)
  PROVE  IInv'
<1>1. RevocationInv'
  BY IssuerUnchangedPreserves, RevocationAssumption
  DEF IInv, RevocationInv, RevocationTypeOK, NoFault, Fault, LoadExchange, AddUnchecked,
      ResolveKeys, AddChecked, SendCredentials, Identify, Complete, HandleError,
      SubmissionFails
<1>2. ReceiptUnchanged /\ IssuerUnchanged /\ vendorEndpoint' = vendorEndpoint
  BY DEF LoadExchange, AddUnchecked, ResolveKeys, AddChecked, SendCredentials, Identify,
         Complete, HandleError, SubmissionFails
<1>3. /\ \A q \in Submission : Received(q)' <=> Received(q)
      /\ LastReceived' /\ RepeatsAreApart'
  BY <1>2 DEF IInv, ReceiptUnchanged, Received, LastReceived, RepeatsAreApart
<1> USE <1>1, <1>2, <1>3
    DEF IInv, TypeOK, RevocationInv, ReadAfterwards, DeliveredAfterwards, CompletesDelivered,
        SubmissionsLeaveAnEnd, CompleteIsDelivered, Goes, ReceiptUnchanged, ChecksUnchanged,
        IssuerUnchanged, Passed, Presented, IsIssuingDisclosure, CompletionState, Ended
<1>4. CASE LoadExchange(s)
  BY <1>4 DEF LoadExchange
<1>5. CASE AddUnchecked(s)
  BY <1>5 DEF AddUnchecked
<1>6. CASE ResolveKeys(s)
  <2>1. TypeOK'
    BY <1>6 DEF ResolveKeys
  <2>2. ReadAfterwards'
    BY <1>6 DEF ResolveKeys
  <2>3. DeliveredAfterwards'
    BY <1>6 DEF ResolveKeys
  <2>4. CompletesDelivered'
    BY <1>6 DEF ResolveKeys
  <2>5. SubmissionsLeaveAnEnd'
    BY <1>6 DEF ResolveKeys
  <2>6. CompleteIsDelivered'
    BY <1>6 DEF ResolveKeys
  <2>7. QED
    BY <2>1, <2>2, <2>3, <2>4, <2>5, <2>6
<1>7. CASE AddChecked(s)
  BY <1>7 DEF AddChecked
<1>8. CASE SendCredentials(s)
  <2>1. TypeOK'
    BY <1>8 DEF SendCredentials
  <2>2. ReadAfterwards'
    BY <1>8 DEF SendCredentials
  <2>3. DeliveredAfterwards'
    BY <1>8 DEF SendCredentials
  <2>4. CompletesDelivered'
    BY <1>8 DEF SendCredentials
  <2>5. SubmissionsLeaveAnEnd'
    BY <1>8 DEF SendCredentials
  <2>6. CompleteIsDelivered'
    BY <1>8 DEF SendCredentials
  <2>7. QED
    BY <2>1, <2>2, <2>3, <2>4, <2>5, <2>6
<1>9. CASE Identify(s)
  <2>1. TypeOK'
    BY <1>9 DEF Identify
  <2>2. ReadAfterwards'
    BY <1>9 DEF Identify
  <2>3. DeliveredAfterwards'
    BY <1>9 DEF Identify
  <2>4. CompletesDelivered'
    BY <1>9 DEF Identify
  <2>5. SubmissionsLeaveAnEnd'
    BY <1>9 DEF Identify
  <2>6. CompleteIsDelivered'
    BY <1>9 DEF Identify
  <2>7. QED
    BY <2>1, <2>2, <2>3, <2>4, <2>5, <2>6
<1>10. CASE Complete(s)
  BY SMTT(30), <1>10 DEF Complete
<1>11. CASE HandleError(s)
  <2>1. TypeOK'
    BY <1>11 DEF HandleError, Strand, ErrorState
  <2>2. ReadAfterwards'
    BY <1>11 DEF HandleError, Strand, ErrorState
  <2>3. DeliveredAfterwards'
    BY <1>11 DEF HandleError, Strand, ErrorState
  <2>4. CompletesDelivered'
    BY <1>11 DEF HandleError, Strand, ErrorState
  <2>5. SubmissionsLeaveAnEnd'
    BY <1>11 DEF HandleError, Strand, ErrorState
  <2>6. CompleteIsDelivered'
    BY <1>11 DEF HandleError, Strand, ErrorState
  <2>7. QED
    BY <2>1, <2>2, <2>3, <2>4, <2>5, <2>6
<1>12. CASE SubmissionFails(s)
  BY <1>12 DEF SubmissionFails
<1>13. QED
  BY <1>4, <1>5, <1>6, <1>7, <1>8, <1>9, <1>10, <1>11, <1>12

\* The agent stops: what was received is stranded.
LEMMA AgentCrashPreserves ==
  ASSUME IInv, AgentCrash
  PROVE  IInv'
<1>1. RevocationInv'
  BY IssuerUnchangedPreserves, RevocationAssumption
  DEF IInv, RevocationInv, RevocationTypeOK, AgentCrash, Fault
<1>2. QED
  BY <1>1
  DEF IInv, TypeOK, RevocationInv, ReadAfterwards, DeliveredAfterwards, CompletesDelivered,
      LastReceived, RepeatsAreApart, SubmissionsLeaveAnEnd, CompleteIsDelivered, AgentCrash,
      ReceiptUnchanged, ChecksUnchanged, IssuerUnchanged, Received, Passed, Presented,
      IsIssuingDisclosure, CompletionState, Ended, Strand

\* Every step.
LEMMA IInvStep == IInv /\ [Next]_vars => IInv'
<1> SUFFICES ASSUME IInv, [Next]_vars PROVE IInv'
  OBVIOUS
<1>1. CASE UNCHANGED vars
  BY <1>1, IssuerStepPreserves DEF vars
<1>2. CASE ExchangeNext
  BY <1>2, DeduplicatePreserves, ResolveStatusPreserves, OtherStepsPreserve,
     AgentCrashPreserves
  DEF ExchangeNext, Submit
<1>3. CASE RevocationNext /\ UNCHANGED exchange
  BY <1>3, IssuerStepPreserves
<1>4. QED
  BY <1>1, <1>2, <1>3 DEF Next, Finished

-----------------------------------------------------------------------------
(* The theorems. *)

LEMMA IInvAlways == Spec => []IInv
  BY IInvInit, IInvStep, PTL DEF Spec

\* Every variable has values of its type.
THEOREM TypeCorrect == Spec => []TypeOK
<1>1. IInv => TypeOK
  BY DEF IInv
<1>2. QED
  BY <1>1, IInvAlways, PTL

\* setRevokedStatus and getRevokedStatus agree for each credential, whatever the
\* lengths of the lists and of the words.
THEOREM RevocationIsExact == Spec => []RevokedIsExact
<1>1. IInv => RevokedIsExact
  BY DEF IInv, RevocationInv
<1>2. QED
  BY <1>1, IInvAlways, PTL

\* The holder of a revoked credential is told unless a request was cut short.
THEOREM RevokedHoldersAreTold == Spec => []HoldersAreTold
<1>1. IInv => HoldersAreTold
  BY DEF IInv, RevocationInv
<1>2. QED
  BY <1>1, IInvAlways, PTL

\* An answered revocation is seen by every presentation received after it.
THEOREM AnsweredRevocationsAreSeen == Spec => []RevocationsAreSeen
<1>1. IInv => RevocationsAreSeen
  <2> SUFFICES ASSUME IInv, NEW s \in delivered
               PROVE  /\ Passed(s) \cap answeredBefore[s] = {}
                      /\ IsIssuingDisclosure /\ AutoIdentityCheck =>
                           Presented(s) \cap answeredBefore[s] = {}
    BY DEF RevocationsAreSeen
  <2>1. s \in Submission /\ Presented(s) \subseteq Credential
    BY SubmissionAssumption DEF IInv, TypeOK, Presented
  <2>2. Passed(s) \cap answeredBefore[s] = {}
    BY <2>1 DEF IInv, ReadAfterwards, Passed
  <2>3. QED
    BY <2>1, <2>2 DEF IInv, DeliveredAfterwards
<1>2. QED
  BY <1>1, IInvAlways, PTL

\* Submissions of one presentation are received with another one in between.
THEOREM DuplicatesAreRefused == Spec => []RepeatsAreApart
<1>1. IInv => RepeatsAreApart
  BY DEF IInv
<1>2. QED
  BY <1>1, IInvAlways, PTL

\* A received submission that is over left an end for the wallet to see.
THEOREM ReceivedSubmissionsEnd == Spec => []SubmissionsLeaveAnEnd
<1>1. IInv => SubmissionsLeaveAnEnd
  BY DEF IInv
<1>2. QED
  BY <1>1, IInvAlways, PTL

\* A complete exchange's vendor got what was presented.
THEOREM CompletionFollowsDelivery == Spec => []CompleteIsDelivered
<1>1. IInv => CompleteIsDelivered
  BY DEF IInv
<1>2. QED
  BY <1>1, IInvAlways, PTL
=============================================================================
