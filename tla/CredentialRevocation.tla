------------------------ MODULE CredentialRevocation ------------------------
(***************************************************************************)
(* POST issued-credentials/:credentialId/revoke of the issuer's credential *)
(* agent, and the RevocationRegistry contract it writes to.                *)
(*                                                                         *)
(* A request marks the credential on the ledger, then in the database,     *)
(* then tells the holder's wallet.  The wallet that holds the lists is     *)
(* registered, and the lists exist (CredentialIssuing is about both).      *)
(***************************************************************************)
EXTENDS Naturals, FiniteSets

CONSTANTS
  Credential,     \* issued credentials
  ListId,         \* revocation lists of the issuer
  ListOf,         \* the list of a credential's credentialStatus url
  IndexOf,        \* its index in that list
  ListLength,     \* REVOCATION_LIST_LENGTH: 10240
  WordSize,       \* bits of a uint256
  Pushable,       \* credentials found in the finalizedOfferIds of an exchange
                  \* with a pushDelegate
  Revocation,     \* revoke requests
  CredentialOf,   \* the credential each names
  MaxFaults       \* bound: errors and crashes

ASSUME ListAssumption ==
  /\ WordSize \in Nat \ {0} /\ ListLength \in Nat /\ ListLength % WordSize = 0
  /\ ListOf \in [Credential -> ListId]
  /\ IndexOf \in [Credential -> 0..(ListLength - 1)]
\* What CredentialIssuing promises: no two credentials share an entry.
ASSUME EntriesAssumption ==
  \A c, d \in Credential : <<ListOf[c], IndexOf[c]>> = <<ListOf[d], IndexOf[d]>> => c = d
ASSUME RevocationAssumption ==
  /\ Pushable \subseteq Credential
  /\ CredentialOf \in [Revocation -> Credential]
  /\ MaxFaults \in Nat

VARIABLES
  lists,                   \* the words of each list: the offsets of the bits that are 1
  revokedAt,               \* offers whose credentialStatus.revokedAt is set
  notifiedOfRevocationAt,  \* offers where it is set
  pushed,                  \* credentials whose holder's wallet was told
  stage,                   \* how far each request is
  faults,                  \* errors and crashes so far
  revoked,                 \* history: credentials a setRevokedStatus was mined for
  answered,                \* history: credentials a revoke answered 200 for
  cutShort                 \* history: credentials with a request that ended between
                           \* setRevokedTime and setNotifiedTime, or an unsent push

revocation == <<lists, revokedAt, notifiedOfRevocationAt, pushed, stage, faults,
                revoked, answered, cutShort>>

Position == 0..((ListLength \div WordSize) - 1)   \* REVOCATION_ARRAY_SIZE words

FirstWord(index) == 0         \* mutant: the word is not looked up
WholeOffset(index) == index   \* mutant: no remainder

\* getPositionAndOffset
PositionOf(index) == index \div WordSize
OffsetOf(index) == index % WordSize

\* getRevokedStatus
RevokedStatus(c) == OffsetOf(IndexOf[c]) \in lists[ListOf[c]][PositionOf(IndexOf[c])]

RevocationInit ==
  /\ lists = [l \in ListId |-> [p \in Position |-> {}]]
  /\ revokedAt = {}
  /\ notifiedOfRevocationAt = {}
  /\ pushed = {}
  /\ stage = [r \in Revocation |-> "new"]
  /\ faults = 0
  /\ revoked = {}
  /\ answered = {}
  /\ cutShort = {}

Fault == faults < MaxFaults /\ faults' = faults + 1
NoFault == faults' = faults
To(r, s) == stage' = [stage EXCEPT ![r] = s]

\* 200.
Answer(r) == To(r, "done") /\ answered' = answered \cup {CredentialOf[r]}

\* setRevokedStatusInternal, for the credential's entry.
SetRevokedStatus(c) ==
  /\ lists' = [lists EXCEPT ![ListOf[c]][PositionOf(IndexOf[c])] =
                 @ \cup {OffsetOf(IndexOf[c])}]
  /\ revoked' = revoked \cup {c}

\* findOne and the checks on the offer, on a copy of it: {} when it was revoked.
FindOffer(r) ==
  /\ stage[r] = "new"
  /\ NoFault
  /\ IF CredentialOf[r] \in revokedAt THEN Answer(r)
     ELSE To(r, "chain") /\ answered' = answered
  /\ UNCHANGED <<lists, revokedAt, notifiedOfRevocationAt, pushed, revoked, cutShort>>

RevokedAtFirst(r) ==   \* mutant: the database is written before the ledger
  /\ stage[r] = "chain"
  /\ revokedAt' = revokedAt \cup {CredentialOf[r]}
  /\ \/ SetRevokedStatus(CredentialOf[r]) /\ NoFault /\ To(r, "time")
     \/ SetRevokedStatus(CredentialOf[r]) /\ Fault /\ To(r, "failed")
     \/ UNCHANGED <<lists, revoked>> /\ Fault /\ To(r, "failed")
  /\ UNCHANGED <<notifiedOfRevocationAt, pushed, answered, cutShort>>

\* setRevokedOnChain: the transaction is mined, mined with its receipt lost, or not
\* mined at all (sent to no avail, or refused: the key is no operator's any more).
SetRevokedOnChain(r) ==
  /\ stage[r] = "chain"
  /\ \/ SetRevokedStatus(CredentialOf[r]) /\ NoFault /\ To(r, "time")
     \/ SetRevokedStatus(CredentialOf[r]) /\ Fault /\ To(r, "failed")
     \/ UNCHANGED <<lists, revoked>> /\ Fault /\ To(r, "failed")
  /\ UNCHANGED <<revokedAt, notifiedOfRevocationAt, pushed, answered, cutShort>>

\* setRevokedTime
SetRevokedTime(r) ==
  /\ stage[r] = "time"
  /\ revokedAt' = revokedAt \cup {CredentialOf[r]}
  /\ NoFault
  /\ To(r, "push")
  /\ UNCHANGED <<lists, notifiedOfRevocationAt, pushed, revoked, answered, cutShort>>

PushOnly(r) ==   \* mutant: answers without setNotifiedTime
  /\ stage[r] = "push"
  /\ pushed' = pushed \cup (Pushable \cap {CredentialOf[r]})
  /\ NoFault
  /\ Answer(r)
  /\ UNCHANGED <<lists, revokedAt, notifiedOfRevocationAt, revoked, cutShort>>

\* getPushDelegate and triggerPush; sendPush catches every error and goes on.
TriggerPush(r) ==
  /\ stage[r] = "push"
  /\ LET c == CredentialOf[r] IN
     \/ /\ c \notin Pushable
        /\ Answer(r) /\ NoFault
        /\ UNCHANGED <<pushed, cutShort>>
     \/ /\ c \in Pushable
        /\ pushed' = pushed \cup {c}
        /\ To(r, "notified") /\ NoFault
        /\ UNCHANGED <<answered, cutShort>>
     \/ /\ c \in Pushable
        /\ Fault /\ cutShort' = cutShort \cup {c}
        /\ To(r, "notified")
        /\ UNCHANGED <<answered, pushed>>
  /\ UNCHANGED <<lists, revokedAt, notifiedOfRevocationAt, revoked>>

\* setNotifiedTime
SetNotifiedTime(r) ==
  /\ stage[r] = "notified"
  /\ notifiedOfRevocationAt' = notifiedOfRevocationAt \cup {CredentialOf[r]}
  /\ NoFault
  /\ Answer(r)
  /\ UNCHANGED <<lists, revokedAt, pushed, revoked, cutShort>>

\* Credentials of requests that are past setRevokedTime and not answered.
Telling == {CredentialOf[r] : r \in {q \in Revocation : stage[q] \in {"push", "notified"}}}

\* MongoDB fails one request.
RevocationFails(r) ==
  /\ stage[r] \in {"new", "time", "push", "notified"}
  /\ Fault
  /\ To(r, "failed")
  /\ cutShort' = cutShort \cup
       IF stage[r] \in {"push", "notified"} THEN {CredentialOf[r]} ELSE {}
  /\ UNCHANGED <<lists, revokedAt, notifiedOfRevocationAt, pushed, revoked, answered>>

\* The issuer's agent stops; nothing resumes a request.
IssuerCrash ==
  /\ \E r \in Revocation : stage[r] \in {"chain", "time", "push", "notified"}
  /\ Fault
  /\ stage' = [r \in Revocation |->
                 IF stage[r] \in {"new", "done"} THEN stage[r] ELSE "failed"]
  /\ cutShort' = cutShort \cup Telling
  /\ UNCHANGED <<lists, revokedAt, notifiedOfRevocationAt, pushed, revoked, answered>>

Revoke(r) == FindOffer(r) \/ SetRevokedOnChain(r) \/ SetRevokedTime(r)
             \/ TriggerPush(r) \/ SetNotifiedTime(r)
RevocationNext == (\E r \in Revocation : Revoke(r) \/ RevocationFails(r)) \/ IssuerCrash

RevocationSpec == RevocationInit /\ [][RevocationNext]_revocation

\* Every variable has values of its type.
RevocationTypeOK ==
  /\ lists \in [ListId -> [Position -> SUBSET (0..(WordSize - 1))]]
  /\ revokedAt \subseteq Credential
  /\ notifiedOfRevocationAt \subseteq Credential
  /\ pushed \subseteq Credential
  /\ stage \in [Revocation -> {"new", "chain", "time", "push", "notified", "done", "failed"}]
  /\ faults \in 0..MaxFaults
  /\ revoked \subseteq Credential /\ answered \subseteq Credential
  /\ cutShort \subseteq Credential

\* The registry answers "revoked" for a credential exactly when a revocation of that
\* credential was mined, though credentials share words: no bit of a neighbour is
\* written or read, at the words' boundaries neither.
RevokedIsExact == \A c \in Credential : RevokedStatus(c) <=> c \in revoked

\* The holder of a credential that is marked as revoked in the database was told and
\* the notification recorded, unless some request was cut short in between, whatever
\* requests overlap.  Nobody else would do it: a later request finds revokedAt set
\* and answers {}.
HoldersAreTold ==
  \A c \in (revokedAt \cap Pushable) \ Telling :
    c \in pushed \cap notifiedOfRevocationAt \/ c \in cutShort
=============================================================================
