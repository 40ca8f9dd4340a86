--------------------------- MODULE SignatoryProofs ---------------------------
(***************************************************************************)
(* How often a signatory is mailed, which code is asked for and what an    *)
(* approval leaves, for any number of runs at once, responses, reminders   *)
(* and faults.  The last theorem is of the behaviours of MCSignatory in    *)
(* which the subscriber, runs and responses come one at a time.            *)
(***************************************************************************)
EXTENDS MCSignatory, FiniteSetTheorems, TLAPS

-----------------------------------------------------------------------------
(* Types. *)

LEMMA CountedType ==
  ASSUME size \in 0 .. MaxReminderCount, NEW n \in Nat
  PROVE  /\ Counted(n) \in 0 .. MaxReminderCount
         /\ size =< Counted(n)
         /\ Counted(n) < MaxReminderCount => Counted(n) = size + n
  BY BoundsAssumption DEF Counted

\* What addState does, whatever the state.
LEMMA AddStateFacts ==
  ASSUME NEW s \in SignatoryEventStatus \ {"COMPLETED"}, AddState(s),
         events \subseteq SignatoryEventStatus, size \in 0 .. MaxReminderCount,
         "COMPLETED" \in events <=> events \cap Outcome # {}
  PROVE  /\ events' \subseteq SignatoryEventStatus /\ events' # {}
         /\ events' \subseteq events \cup {s, "COMPLETED"}
         /\ events \cup {s} \subseteq events'
         /\ "COMPLETED" \in events' <=> events' \cap Outcome # {}
         /\ size' \in 0 .. MaxReminderCount /\ size =< size'
         /\ due' \in BOOLEAN
         /\ UNCHANGED <<authCodes, latest, expired>>
<1> DEFINE added == IF s \in Outcome THEN {s, "COMPLETED"} ELSE {s}
<1>1. IsFiniteSet({s}) /\ IsFiniteSet({s} \cup {"COMPLETED"})
  BY FS_Singleton, FS_AddElement
<1>2. added = {s} \/ added = {s} \cup {"COMPLETED"}
  OBVIOUS
<1>3. Cardinality(added) \in Nat
  BY <1>1, <1>2, FS_CardinalityType
<1>4. size' \in 0 .. MaxReminderCount /\ size =< size'
  BY <1>3, CountedType DEF AddState
<1>5. events' = events \cup added
  BY DEF AddState
<1>6. added \subseteq SignatoryEventStatus /\ s \in added
  BY DEF SignatoryEventStatus
<1>7. due' \in BOOLEAN /\ UNCHANGED <<authCodes, latest, expired>>
  BY DEF AddState
<1>8. "COMPLETED" \in events' <=> events' \cap Outcome # {}
  <2>1. "COMPLETED" \in added <=> added \cap Outcome # {}
    BY DEF Outcome
  <2>2. QED
    BY <1>5, <2>1
<1> HIDE DEF added
<1>9. QED
  BY <1>2, <1>4, <1>5, <1>6, <1>7, <1>8

LEMMA TypeInit == Init => TypeOK
<1> SUFFICES ASSUME Init PROVE TypeOK
  OBVIOUS
<1> USE DEF Init, RunStage, ResponseStage, NoLink
<1>1. run \in [Run -> RunStage] /\ copy \in [Run -> 0 .. MaxReminderCount]
      /\ code \in [Run -> Nat] /\ size \in 0 .. MaxReminderCount
  BY BoundsAssumption
<1>2. NoLink \in [code : Nat, answer : {"approve", "reject", "none"}]
  OBVIOUS
<1>3. response \in [Response -> ResponseStage]
      /\ link \in [Response -> [code : Nat, answer : {"approve", "reject", "none"}]]
  BY <1>2
<1>4. QED
  BY <1>1, <1>3 DEF TypeOK

LEMMA TypeSubscriber == TypeOK /\ (SubscriberStep \/ SubscriberFails) => TypeOK'
<1> SUFFICES ASSUME TypeOK, SubscriberStep \/ SubscriberFails PROVE TypeOK'
  OBVIOUS
<1> USE DEF TypeOK, organizations, runs, responses, mails, status
<1>1. CASE InsertWithState
  <2>1. events' \subseteq SignatoryEventStatus /\ size' \in 0 .. MaxReminderCount
        /\ authCodes' \subseteq Nat /\ latest' \in Nat
        /\ "COMPLETED" \notin events' /\ events' \cap Outcome = {}
    BY <1>1, BoundsAssumption DEF InsertWithState, SignatoryEventStatus, Outcome
  <2>2. QED
    BY <1>1, <2>1 DEF InsertWithState
<1>2. CASE MailLink
  BY <1>2 DEF MailLink
<1>3. CASE SubscriberFails
  BY <1>3 DEF SubscriberFails, Fault
<1>4. QED
  BY <1>1, <1>2, <1>3 DEF SubscriberStep

LEMMA TypeRun ==
  ASSUME TypeOK, NEW r \in Run,
         FindByEvent(r) \/ RunStep(r) \/ ReminderThrows(r) \/ RunStops(r)
  PROVE  TypeOK'
<1> USE DEF TypeOK, RunStage, GoTo, EndRun, Await, AwaitAndEnd, Fault, runs, responses,
            mails, status, organizations
<1>0. {"REMINDER_ERROR", "MAX_REACHED", "LINK_SENT"} \subseteq SignatoryEventStatus \ {"COMPLETED"}
  BY DEF SignatoryEventStatus
<1>1. CASE FindByEvent(r)
  BY <1>1 DEF FindByEvent
<1>2. CASE SendReminder(r)
  BY <1>2 DEF SendReminder
<1>3. CASE OrganizationNotFound(r)
  <2>1. AddState("REMINDER_ERROR") /\ UNCHANGED <<organizations, consented, subscriber, responses, mails>>
    BY <1>3 DEF OrganizationNotFound
  <2>2. run' \in [Run -> RunStage] /\ copy' \in [Run -> 0 .. MaxReminderCount]
        /\ code' \in [Run -> Nat] /\ faults' \in Nat
    BY <1>3, BoundsAssumption DEF OrganizationNotFound
  <2>3. QED
    BY <1>0, <2>1, <2>2, AddStateFacts
<1>4. CASE MaxReached(r)
  <2>1. AddState("MAX_REACHED") /\ UNCHANGED <<organizations, consented, subscriber, responses, mails>>
    BY <1>4 DEF MaxReached
  <2>2. run' \in [Run -> RunStage] /\ copy' \in [Run -> 0 .. MaxReminderCount]
        /\ code' \in [Run -> Nat] /\ faults' \in Nat
    BY <1>4, BoundsAssumption DEF MaxReached
  <2>3. QED
    BY <1>0, <2>1, <2>2, AddStateFacts
<1>5. CASE SendSupportEmail(r)
  BY <1>5, BoundsAssumption DEF SendSupportEmail
<1>6. CASE MailReminder(r)
  BY <1>6 DEF MailReminder
<1>7. CASE LinkSent(r)
  <2>1. Counted(1) \in 0 .. MaxReminderCount
    BY CountedType
  <2>2. code[r] \in Nat
    OBVIOUS
  <2>3. run' \in [Run -> RunStage] /\ copy' \in [Run -> 0 .. MaxReminderCount]
        /\ code' \in [Run -> Nat] /\ faults' \in Nat
    BY <1>7, BoundsAssumption DEF LinkSent
  <2>4. AddStateAndCode("LINK_SENT", code[r])
        /\ UNCHANGED <<organizations, consented, subscriber, responses, mails>>
    BY <1>7 DEF LinkSent
  <2>5. "COMPLETED" \in events' <=> events' \cap Outcome # {}
    BY <2>4 DEF AddStateAndCode, Outcome
  <2>6. QED
    BY <1>0, <2>1, <2>2, <2>3, <2>4, <2>5 DEF AddStateAndCode
<1>8. CASE ReminderThrows(r)
  BY <1>8 DEF ReminderThrows
<1>9. CASE ReminderError(r)
  <2>1. AddState("REMINDER_ERROR") /\ UNCHANGED <<organizations, consented, subscriber, responses, mails>>
    BY <1>9 DEF ReminderError
  <2>2. run' \in [Run -> RunStage] /\ copy' \in [Run -> 0 .. MaxReminderCount]
        /\ code' \in [Run -> Nat] /\ faults' \in Nat
    BY <1>9, BoundsAssumption DEF ReminderError
  <2>3. QED
    BY <1>0, <2>1, <2>2, AddStateFacts
<1>10. CASE RunStops(r)
  BY <1>10, BoundsAssumption DEF RunStops
<1>11. CASE InviterNotFound(r)
  BY <1>11 DEF InviterNotFound
<1>12. QED
  BY <1>1, <1>2, <1>3, <1>4, <1>5, <1>6, <1>7, <1>8, <1>9, <1>10, <1>11 DEF RunStep

LEMMA TypeResponse ==
  ASSUME TypeOK, NEW q \in Response, Respond(q) \/ ResponseStep(q) \/ ResponseStops(q)
  PROVE  TypeOK'
<1> USE DEF TypeOK, ResponseStage, EndResponse, NoLink, Fault, runs, responses, mails, status,
            organizations
<1>0. {"APPROVED", "REJECTED"} \subseteq SignatoryEventStatus \ {"COMPLETED"}
  BY DEF SignatoryEventStatus
<1>1. CASE Respond(q)
  BY <1>1 DEF Respond
<1>2. CASE ValidateAuthCode(q)
  BY <1>2 DEF ValidateAuthCode
<1>3. CASE MailSupport(q)
  BY <1>3 DEF MailSupport
<1>4. CASE ApproveReminder(q)
  <2>1. AddState("APPROVED")
        /\ UNCHANGED <<organizations, consented, subscriber, runs, link, mails, faults>>
    BY <1>4 DEF ApproveReminder
  <2>2. response' \in [Response -> ResponseStage]
    BY <1>4 DEF ApproveReminder
  <2>3. QED
    BY <1>0, <2>1, <2>2, AddStateFacts
<1>5. CASE RegisterConsent(q)
  BY <1>5 DEF RegisterConsent
<1>6. CASE RejectReminder(q)
  <2>1. AddState("REJECTED")
        /\ UNCHANGED <<organizations, consented, subscriber, runs, mails, faults>>
    BY <1>6 DEF RejectReminder
  <2>2. response' \in [Response -> ResponseStage]
        /\ link' \in [Response -> [code : Nat, answer : {"approve", "reject", "none"}]]
    BY <1>6 DEF RejectReminder
  <2>3. QED
    BY <1>0, <2>1, <2>2, AddStateFacts
<1>7. CASE ResponseStops(q)
  BY <1>7 DEF ResponseStops
<1>8. QED
  BY <1>1, <1>2, <1>3, <1>4, <1>5, <1>6, <1>7 DEF ResponseStep

LEMMA TypeStep == TypeOK /\ [Next]_vars => TypeOK'
<1> SUFFICES ASSUME TypeOK, [Next]_vars PROVE TypeOK'
  OBVIOUS
<1>1. CASE ResendTimePasses \/ LinkExpires \/ DeleteOrganization \/ DeleteInviter
  BY <1>1 DEF TypeOK, ResendTimePasses, LinkExpires, DeleteOrganization, DeleteInviter, runs,
              responses, mails, status, organizations
<1>2. CASE UNCHANGED vars
  BY <1>2 DEF TypeOK, vars, runs, responses, mails, status, organizations
<1>3. QED
  BY <1>1, <1>2, TypeSubscriber, TypeRun, TypeResponse DEF Next

\* The document, the mails and the local variables keep their shape.
THEOREM TypeCorrect == Spec => []TypeOK
  BY TypeInit, TypeStep, PTL DEF Spec

-----------------------------------------------------------------------------
(* How often the signatory is mailed. *)

\* Runs that will mail a reminder although others may do so before, and runs
\* that mailed one and have not counted it.
Mailing == {r \in Run : run[r] \in {"loading", "mailing"} /\ copy[r] < MaxReminderCount}
Pushing == {r \in Run : run[r] = "pushing"}

\* The document counts the reminders, but for faults and those being pushed,
\* until it is full; and then what remains was allowed by a copy read before.
BoundInv ==
  /\ subscriber = "inserting" => events = {}
  /\ subscriber = "mailing" => events # {}
  /\ events = {} => /\ reminders = 0 /\ mailed = {}
                    /\ \A r \in Run : run[r] = "idle"
                    /\ \A q \in Response : response[q] = "idle"
  /\ events # {} /\ size < MaxReminderCount
       => reminders + 1 =< size + Cardinality(Pushing) + faults
  /\ reminders + 1 + Cardinality(Mailing) < MaxReminderCount + Cardinality(Run) + faults
  /\ \A r \in Run : run[r] = "mailing" => copy[r] < MaxReminderCount

LEMMA DisjointRuns ==
  ASSUME NEW S \in SUBSET Run, NEW T \in SUBSET Run, S \cap T = {}
  PROVE  /\ Cardinality(S) \in Nat /\ Cardinality(T) \in Nat
         /\ Cardinality(S) + Cardinality(T) =< Cardinality(Run)
<1>1. /\ IsFiniteSet(S) /\ IsFiniteSet(T)
      /\ Cardinality(S) \in Nat /\ Cardinality(T) \in Nat
  BY RunAssumption, FS_Subset, FS_CardinalityType
<1>2. Cardinality(S \cup T) = Cardinality(S) + Cardinality(T)
  <2>1. Cardinality(S \cup T) = Cardinality(S) + Cardinality(T) - Cardinality(S \cap T)
    BY <1>1, FS_Union
  <2>2. Cardinality(S \cap T) = 0
    BY FS_EmptySet
  <2>3. QED
    BY <1>1, <2>1, <2>2
<1>3. S \cup T \in SUBSET Run
  OBVIOUS
<1>4. Cardinality(S \cup T) =< Cardinality(Run)
  BY <1>3, RunAssumption, FS_Subset
<1>5. QED
  BY <1>1, <1>2, <1>4

LEMMA RunSets ==
  /\ IsFiniteSet(Mailing) /\ IsFiniteSet(Pushing)
  /\ Cardinality(Mailing) \in Nat /\ Cardinality(Pushing) \in Nat
  /\ Cardinality(Run) \in Nat \ {0}
  /\ Cardinality(Mailing) + Cardinality(Pushing) =< Cardinality(Run)
<1>1. Mailing \in SUBSET Run /\ Pushing \in SUBSET Run /\ Mailing \cap Pushing = {}
  BY DEF Mailing, Pushing
<1>2. /\ IsFiniteSet(Mailing) /\ IsFiniteSet(Pushing)
      /\ Cardinality(Mailing) \in Nat /\ Cardinality(Pushing) \in Nat
      /\ Cardinality(Run) \in Nat
  BY <1>1, RunAssumption, FS_Subset, FS_CardinalityType
<1>3. Cardinality(Run) # 0
  BY RunAssumption, FS_EmptySet
<1>4. QED
  BY <1>1, <1>2, <1>3, DisjointRuns

\* A step that lets no further run mail, and counts what it stops pushing or
\* is a fault.
LEMMA BoundKept ==
  ASSUME TypeOK, TypeOK', BoundInv, events # {},
         Mailing' \subseteq Mailing, reminders' = reminders,
         events' # {}, size =< size', faults =< faults',
         \A r \in Run : run'[r] = "mailing" => copy'[r] < MaxReminderCount,
         subscriber' # "inserting",
         size' < MaxReminderCount =>
           size + Cardinality(Pushing) + faults =< size' + Cardinality(Pushing)' + faults'
  PROVE  BoundInv'
<1>1. Cardinality(Mailing)' \in Nat /\ Cardinality(Mailing)' =< Cardinality(Mailing)
  BY RunSets, FS_Subset, FS_CardinalityType, Mailing' \in SUBSET Mailing
<1>2. Cardinality(Mailing) \in Nat /\ Cardinality(Run) \in Nat
      /\ Cardinality(Pushing) \in Nat
  BY RunSets
<1>3. Cardinality(Pushing)' \in Nat
  <2>1. Pushing' \in SUBSET Run
    BY DEF Pushing
  <2>2. QED
    BY <2>1, RunAssumption, FS_Subset, FS_CardinalityType
<1>4. reminders' + 1 + Cardinality(Mailing)' < MaxReminderCount + Cardinality(Run) + faults'
  BY <1>1, <1>2, BoundsAssumption DEF BoundInv, TypeOK
<1>5. size' < MaxReminderCount
        => reminders' + 1 =< size' + Cardinality(Pushing)' + faults'
  BY <1>2, <1>3, BoundsAssumption DEF BoundInv, TypeOK
<1>6. QED
  BY <1>4, <1>5 DEF BoundInv

LEMMA BoundInit == Init => BoundInv
<1> SUFFICES ASSUME Init PROVE BoundInv
  OBVIOUS
<1>1. Mailing = {}
  BY DEF Mailing, Init
<1>2. Cardinality(Mailing) = 0 /\ Cardinality(Run) \in Nat \ {0}
  BY <1>1, FS_EmptySet, RunSets
<1>3. QED
  BY <1>2, BoundsAssumption DEF BoundInv, Init

LEMMA SetsUnchanged ==
  ASSUME UNCHANGED <<run, copy>>
  PROVE  Mailing' = Mailing /\ Cardinality(Pushing)' = Cardinality(Pushing)
<1>1. Mailing' = Mailing /\ Pushing' = Pushing
  BY DEF Mailing, Pushing
<1>2. QED
  BY <1>1

LEMMA BoundSubscriber ==
  ASSUME TypeOK, BoundInv, SubscriberStep \/ SubscriberFails
  PROVE  BoundInv'
<1>0. UNCHANGED <<run, copy>> /\ reminders' = reminders /\ faults =< faults'
  BY DEF SubscriberStep, InsertWithState, MailLink, SubscriberFails, Fault, runs, mails, TypeOK
<1>1. Cardinality(Mailing)' = Cardinality(Mailing)
      /\ Cardinality(Pushing)' = Cardinality(Pushing)
  BY <1>0, SetsUnchanged
<1>2. Cardinality(Mailing) \in Nat /\ Cardinality(Pushing) \in Nat
      /\ Cardinality(Run) \in Nat
  BY RunSets
<1>3. CASE InsertWithState
  <2>1. reminders = 0 /\ size' = 1 /\ events' # {} /\ subscriber' = "mailing"
    BY <1>3 DEF InsertWithState, BoundInv
  <2>2. QED
    BY <1>0, <1>1, <1>2, <1>3, <2>1, BoundsAssumption
    DEF BoundInv, TypeOK, InsertWithState
<1>4. CASE MailLink \/ SubscriberFails
  <2>1. UNCHANGED <<events, size, response>> /\ subscriber' = "ended" /\ faults' \in Nat
    BY <1>4 DEF MailLink, SubscriberFails, status, responses, Fault, TypeOK
  <2>2. events = {} => mailed' = mailed
    BY <1>4 DEF MailLink, SubscriberFails, BoundInv, mails
  <2>3. events' # {} /\ size' < MaxReminderCount
          => reminders' + 1 =< size' + Cardinality(Pushing)' + faults'
    BY <1>0, <1>1, <1>2, <2>1 DEF BoundInv, TypeOK
  <2>4. reminders' + 1 + Cardinality(Mailing)' < MaxReminderCount + Cardinality(Run) + faults'
    BY <1>0, <1>1, <1>2, <2>1, BoundsAssumption DEF BoundInv, TypeOK
  <2>5. QED
    BY <1>0, <2>1, <2>2, <2>3, <2>4 DEF BoundInv
<1>5. QED
  BY <1>3, <1>4 DEF SubscriberStep

\* A run that begins has read a document that is not full, and then all that
\* are pushing and all that will mail are runs, or one that is full.
LEMMA BoundFind ==
  ASSUME TypeOK, BoundInv, NEW r \in Run, FindByEvent(r)
  PROVE  BoundInv'
<1>1. /\ run' = [run EXCEPT ![r] = "loading"] /\ copy' = [copy EXCEPT ![r] = size]
      /\ run[r] = "idle" /\ events # {}
      /\ UNCHANGED <<events, size, subscriber, reminders, faults>>
  BY DEF FindByEvent, GoTo, status, mails
<1>2. Pushing' = Pushing
  BY <1>1 DEF Pushing, TypeOK
<1>3. Cardinality(Pushing)' = Cardinality(Pushing)
  BY <1>2
<1>4. Mailing' = IF size < MaxReminderCount THEN Mailing \cup {r} ELSE Mailing
  BY <1>1 DEF Mailing, TypeOK
<1>5. Cardinality(Mailing)' \in Nat
      /\ Cardinality(Mailing)' + Cardinality(Pushing) =< Cardinality(Run)
  <2>1. /\ Mailing' \in SUBSET Run /\ Pushing \in SUBSET Run
        /\ Mailing' \cap Pushing = {}
    BY <1>1, <1>4 DEF Mailing, Pushing, TypeOK
  <2>2. QED
    BY <2>1, DisjointRuns
<1>6. reminders + 1 + Cardinality(Mailing)' < MaxReminderCount + Cardinality(Run) + faults
  <2>1. CASE size < MaxReminderCount
    <3>1. reminders + 1 =< size + Cardinality(Pushing) + faults
      BY <1>1, <2>1 DEF BoundInv
    <3>2. QED
      BY <1>5, <2>1, <3>1, RunSets, BoundsAssumption DEF TypeOK
  <2>2. CASE ~(size < MaxReminderCount)
    BY <1>4, <2>2 DEF BoundInv
  <2>3. QED
    BY <2>1, <2>2
<1>7. \A x \in Run : run'[x] = "mailing" => copy'[x] < MaxReminderCount
  BY <1>1 DEF BoundInv, TypeOK
<1>8. QED
  BY <1>1, <1>3, <1>6, <1>7 DEF BoundInv

LEMMA BoundRunStep ==
  ASSUME TypeOK, BoundInv, NEW r \in Run,
         RunStep(r) \/ ReminderThrows(r) \/ RunStops(r)
  PROVE  BoundInv'
<1> USE DEF GoTo, EndRun, Await, AwaitAndEnd, Fault, mails
<1>0. run[r] # "idle" /\ events # {} /\ subscriber # "inserting" /\ TypeOK'
  <2>1. run[r] # "idle"
    BY DEF RunStep, SendReminder, OrganizationNotFound, MaxReached, SendSupportEmail,
           MailReminder, InviterNotFound, LinkSent, ReminderError, ReminderThrows, RunStops
  <2>2. QED
    BY <2>1, TypeRun DEF BoundInv
<1>a. {"REMINDER_ERROR", "MAX_REACHED"} \subseteq SignatoryEventStatus \ {"COMPLETED"}
  BY DEF SignatoryEventStatus
<1>b. ASSUME run[r] # "pushing", run'[r] # "pushing", run'[r] # "mailing",
             \A x \in Run \ {r} : run'[x] = run[x] /\ copy'[x] = copy[x],
             run'[r] # "loading",
             reminders' = reminders, events' # {}, size =< size', faults =< faults',
             subscriber' = subscriber
      PROVE  BoundInv'
  <2>1. Pushing' = Pushing /\ Mailing' \subseteq Mailing
    BY <1>b DEF Pushing, Mailing
  <2>2. Cardinality(Pushing)' = Cardinality(Pushing)
    BY <2>1
  <2>3. \A x \in Run : run'[x] = "mailing" => copy'[x] < MaxReminderCount
    BY <1>b DEF BoundInv
  <2>4. QED
    BY <1>0, <1>b, <2>1, <2>2, <2>3, RunSets, BoundKept DEF TypeOK
<1>1. CASE SendReminder(r)
  <2>1. /\ run' = [run EXCEPT ![r] = IF organization = "deleted" THEN "missing"
                     ELSE IF copy[r] >= MaxReminderCount THEN "stopping" ELSE "mailing"]
        /\ run[r] = "loading"
        /\ UNCHANGED <<events, size, subscriber, copy, reminders, faults>>
    BY <1>1 DEF SendReminder, status
  <2>2. Pushing' = Pushing
    BY <2>1 DEF Pushing, TypeOK
  <2>3. Cardinality(Pushing)' = Cardinality(Pushing)
    BY <2>2
  <2>4. Mailing' \subseteq Mailing
    BY <2>1 DEF Mailing, TypeOK
  <2>5. \A x \in Run : run'[x] = "mailing" => copy'[x] < MaxReminderCount
    BY <2>1, BoundsAssumption DEF BoundInv, TypeOK
  <2>6. QED
    BY <1>0, <2>1, <2>3, <2>4, <2>5, RunSets, BoundKept DEF TypeOK
<1>2. CASE OrganizationNotFound(r)
  <2>1. events' # {} /\ size =< size'
    BY <1>2, <1>a, AddStateFacts DEF OrganizationNotFound, TypeOK
  <2>2. QED
    BY <1>2, <2>1, <1>b DEF OrganizationNotFound, TypeOK
<1>3. CASE MaxReached(r)
  <2>1. events' # {} /\ size =< size'
    BY <1>3, <1>a, AddStateFacts DEF MaxReached, TypeOK
  <2>2. QED
    BY <1>3, <2>1, <1>b DEF MaxReached, TypeOK
<1>4. CASE SendSupportEmail(r)
  BY <1>0, <1>4, <1>b DEF SendSupportEmail, TypeOK, status
<1>5. CASE MailReminder(r)
  <2>1. /\ run[r] = "mailing" /\ reminders' = reminders + 1 /\ copy' = copy
        /\ UNCHANGED <<events, size, subscriber>>
        /\ \/ run' = [run EXCEPT ![r] = "pushing"] /\ faults' = faults
           \/ run' = [run EXCEPT ![r] = "catching"] /\ faults' = faults + 1
    BY <1>5 DEF MailReminder, status
  <2>2. r \in Mailing /\ Mailing' = Mailing \ {r}
    BY <2>1 DEF Mailing, BoundInv, TypeOK
  <2>3. Cardinality(Mailing') = Cardinality(Mailing) - 1
    BY <2>2, RunSets, FS_RemoveElement
  <2>4. \/ Cardinality(Pushing)' = Cardinality(Pushing) + 1 /\ faults' = faults
        \/ Cardinality(Pushing)' = Cardinality(Pushing) /\ faults' = faults + 1
    <3>1. CASE run' = [run EXCEPT ![r] = "pushing"] /\ faults' = faults
      <4>1. r \notin Pushing /\ Pushing' = Pushing \cup {r}
        BY <2>1, <3>1 DEF Pushing, TypeOK
      <4>2. Cardinality(Pushing') = Cardinality(Pushing) + 1
        BY <4>1, RunSets, FS_AddElement
      <4>3. QED
        BY <3>1, <4>2
    <3>2. CASE run' = [run EXCEPT ![r] = "catching"] /\ faults' = faults + 1
      <4>1. Pushing' = Pushing
        BY <2>1, <3>2 DEF Pushing, TypeOK
      <4>2. QED
        BY <3>2, <4>1
    <3>3. QED
      BY <2>1, <3>1, <3>2
  <2>5. reminders' + 1 + Cardinality(Mailing)' < MaxReminderCount + Cardinality(Run) + faults'
    BY <2>1, <2>3, <2>4, RunSets, BoundsAssumption DEF BoundInv, TypeOK
  <2>6. size' < MaxReminderCount
          => reminders' + 1 =< size' + Cardinality(Pushing)' + faults'
    BY <1>0, <2>1, <2>4, RunSets, BoundsAssumption DEF BoundInv, TypeOK
  <2>7. \A x \in Run : run'[x] = "mailing" => copy'[x] < MaxReminderCount
    BY <2>1 DEF BoundInv, TypeOK
  <2>8. QED
    BY <1>0, <2>1, <2>5, <2>6, <2>7 DEF BoundInv
<1>6. CASE LinkSent(r)
  <2>1. /\ run[r] = "pushing" /\ UNCHANGED <<subscriber, reminders>>
        /\ size' = Counted(1) /\ events' # {}
        /\ run' \in {[run EXCEPT ![r] = "idle"], [run EXCEPT ![r] = "catching"]}
        /\ \A x \in Run \ {r} : copy'[x] = copy[x]
        /\ faults' \in {faults, faults + 1}
    BY <1>6 DEF LinkSent, AddStateAndCode, TypeOK
  <2>2. r \in Pushing /\ Pushing' = Pushing \ {r}
    BY <2>1 DEF Pushing, TypeOK
  <2>3. Cardinality(Pushing') = Cardinality(Pushing) - 1
    BY <2>2, RunSets, FS_RemoveElement
  <2>4. Mailing' \subseteq Mailing
    BY <2>1 DEF Mailing, TypeOK
  <2>5. size =< size' /\ (size' < MaxReminderCount => size' = size + 1)
    BY <2>1, CountedType DEF TypeOK
  <2>6. \A x \in Run : run'[x] = "mailing" => copy'[x] < MaxReminderCount
    BY <2>1 DEF BoundInv, TypeOK
  <2>7. size' < MaxReminderCount =>
          size + Cardinality(Pushing) + faults =< size' + Cardinality(Pushing)' + faults'
    BY <2>1, <2>3, <2>5, RunSets DEF TypeOK
  <2>8. faults =< faults'
    BY <2>1 DEF TypeOK
  <2>9. QED
    BY <1>0, <2>1, <2>4, <2>5, <2>6, <2>7, <2>8, BoundKept
<1>7. CASE ReminderError(r)
  <2>1. events' # {} /\ size =< size'
    BY <1>7, <1>a, AddStateFacts DEF ReminderError, TypeOK
  <2>2. QED
    BY <1>7, <2>1, <1>b DEF ReminderError, TypeOK
<1>8. CASE ReminderThrows(r) \/ RunStops(r)
  <2>1. /\ UNCHANGED <<events, size, subscriber, reminders>> /\ faults' = faults + 1
        /\ run' \in {[run EXCEPT ![r] = "idle"], [run EXCEPT ![r] = "catching"]}
        /\ \A x \in Run \ {r} : copy'[x] = copy[x]
    BY <1>8 DEF ReminderThrows, RunStops, status, TypeOK
  <2>2. Pushing' = Pushing \ {r} /\ Mailing' \subseteq Mailing
    BY <2>1 DEF Pushing, Mailing, TypeOK
  <2>3. Cardinality(Pushing') \in Nat /\ Cardinality(Pushing) =< Cardinality(Pushing') + 1
    <3>1. Cardinality(Pushing') = IF r \in Pushing THEN Cardinality(Pushing) - 1
                                  ELSE Cardinality(Pushing)
      BY <2>2, RunSets, FS_RemoveElement
    <3>2. Pushing' \in SUBSET Run
      BY <2>2 DEF Pushing
    <3>3. Cardinality(Pushing') \in Nat
      BY <3>2, RunAssumption, FS_Subset, FS_CardinalityType
    <3>4. QED
      BY <3>1, <3>3, RunSets
  <2>4. \A x \in Run : run'[x] = "mailing" => copy'[x] < MaxReminderCount
    BY <2>1 DEF BoundInv, TypeOK
  <2>5. size + Cardinality(Pushing) + faults =< size' + Cardinality(Pushing)' + faults'
    BY <2>1, <2>3, RunSets DEF TypeOK
  <2>6. faults =< faults' /\ size =< size'
    BY <2>1 DEF TypeOK
  <2>7. QED
    BY <1>0, <2>1, <2>2, <2>4, <2>5, <2>6, BoundKept
<1>9. CASE InviterNotFound(r)
  BY <1>0, <1>9, <1>b DEF InviterNotFound, TypeOK, status
<1>10. QED
  BY <1>1, <1>2, <1>3, <1>4, <1>5, <1>6, <1>7, <1>8, <1>9 DEF RunStep

LEMMA BoundResponse ==
  ASSUME TypeOK, BoundInv, NEW q \in Response, Respond(q) \/ ResponseStep(q) \/ ResponseStops(q)
  PROVE  BoundInv'
<1>a. {"APPROVED", "REJECTED"} \subseteq SignatoryEventStatus \ {"COMPLETED"}
  BY DEF SignatoryEventStatus
<1>1. UNCHANGED <<run, copy, subscriber, reminders>> /\ faults =< faults'
  BY DEF Respond, ResponseStep, ValidateAuthCode, MailSupport, ApproveReminder,
         RegisterConsent, RejectReminder, ResponseStops, Fault, runs, mails, TypeOK
<1>0. events # {}
  BY DEF BoundInv, Respond, ResponseStep, ValidateAuthCode, MailSupport, ApproveReminder,
         RegisterConsent, RejectReminder, ResponseStops
<1>2. events' # {} /\ size =< size'
  <2>1. CASE AddState("APPROVED") \/ AddState("REJECTED")
    BY <1>a, <2>1, AddStateFacts DEF TypeOK
  <2>2. CASE UNCHANGED status
    BY <1>0, <2>2 DEF status, TypeOK
  <2>3. QED
    BY <2>1, <2>2 DEF Respond, ResponseStep, ValidateAuthCode, MailSupport, ApproveReminder,
      RegisterConsent, RejectReminder, ResponseStops, status
<1>3. Mailing' = Mailing /\ Cardinality(Pushing)' = Cardinality(Pushing)
  BY <1>1, SetsUnchanged
<1>4. TypeOK'
  BY TypeResponse
<1>5. subscriber' # "inserting"
  BY <1>0, <1>1 DEF BoundInv
<1>6. \A x \in Run : run'[x] = "mailing" => copy'[x] < MaxReminderCount
  BY <1>1 DEF BoundInv
<1>7. size' < MaxReminderCount =>
        size + Cardinality(Pushing) + faults =< size' + Cardinality(Pushing)' + faults'
  BY <1>1, <1>2, <1>3, <1>4, RunSets DEF TypeOK
<1>8. QED
  BY <1>0, <1>1, <1>2, <1>3, <1>4, <1>5, <1>6, <1>7, BoundKept

LEMMA BoundStep == TypeOK /\ BoundInv /\ [Next]_vars => BoundInv'
<1> SUFFICES ASSUME TypeOK, BoundInv, [Next]_vars PROVE BoundInv'
  OBVIOUS
<1>1. CASE /\ UNCHANGED <<events, size, subscriber, run, copy, response, mailed, reminders>>
           /\ faults' = faults
  <2>1. Mailing' = Mailing /\ Cardinality(Pushing)' = Cardinality(Pushing)
    BY <1>1, SetsUnchanged
  <2>2. QED
    BY <1>1, <2>1 DEF BoundInv
<1>2. CASE ResendTimePasses \/ LinkExpires \/ DeleteOrganization \/ DeleteInviter \/ UNCHANGED vars
  BY <1>1, <1>2 DEF ResendTimePasses, LinkExpires, DeleteOrganization, DeleteInviter, vars, runs,
                    responses, mails, status
<1>3. QED
  BY <1>2, BoundSubscriber, BoundFind, BoundRunStep, BoundResponse DEF Next

\* However runs of sendReminders overlap and fail, the mails to the signatory
\* stay within signatoryMaxReminderCount, but for one per further run at the
\* same time and one per fault.
THEOREM SignatoryIsNotFlooded == Spec => []RemindersAreBounded
<1>1. TypeOK /\ BoundInv => RemindersAreBounded
  BY RunSets, BoundsAssumption DEF BoundInv, RemindersAreBounded, TypeOK
<1>2. QED
  BY <1>1, TypeInit, TypeStep, BoundInit, BoundStep, PTL DEF Spec

-----------------------------------------------------------------------------
(* Which code is asked for. *)

CodeInv ==
  /\ LatestCodeWasMailed
  /\ \A r \in Run : run[r] = "pushing" => code[r] \in mailed

LEMMA CodeInvInit == Init => CodeInv
  BY DEF Init, CodeInv, LatestCodeWasMailed

LEMMA CodeInvStep == TypeOK /\ CodeInv /\ [Next]_vars => CodeInv'
<1> SUFFICES ASSUME TypeOK, CodeInv, [Next]_vars PROVE CodeInv'
  OBVIOUS
<1> USE DEF CodeInv, LatestCodeWasMailed
<1>0. ASSUME UNCHANGED latest, mailed \subseteq mailed',
             \A x \in Run : run'[x] = "pushing" => run[x] = "pushing" /\ code'[x] = code[x]
      PROVE  CodeInv'
  BY <1>0
<1>1. CASE SubscriberStep \/ SubscriberFails
  BY <1>1 DEF SubscriberStep, SubscriberFails, InsertWithState, MailLink, runs, mails,
              status, TypeOK
<1>2. ASSUME NEW r \in Run, FindByEvent(r) \/ RunStep(r) \/ ReminderThrows(r) \/ RunStops(r)
      PROVE  CodeInv'
  <2> USE DEF GoTo, EndRun, Await, AwaitAndEnd, TypeOK, mails, status
  <2>1. CASE FindByEvent(r) \/ SendReminder(r) \/ SendSupportEmail(r)
             \/ InviterNotFound(r) \/ ReminderThrows(r) \/ RunStops(r)
    BY <1>0, <2>1 DEF FindByEvent, SendReminder, SendSupportEmail, InviterNotFound,
                      ReminderThrows, RunStops
  <2>2. CASE OrganizationNotFound(r) \/ MaxReached(r) \/ ReminderError(r)
    BY <1>0, <2>2 DEF OrganizationNotFound, MaxReached, ReminderError, AddState
  <2>3. CASE MailReminder(r)
    BY <2>3 DEF MailReminder
  <2>4. CASE LinkSent(r)
    <3>1. latest' = code[r] /\ mailed' = mailed /\ run[r] = "pushing"
      BY <2>4 DEF LinkSent, AddStateAndCode
    <3>2. \A x \in Run : run'[x] = "pushing" => run[x] = "pushing" /\ code'[x] = code[x]
      BY <2>4 DEF LinkSent
    <3>3. QED
      BY <3>1, <3>2
  <2>5. QED
    BY <1>2, <2>1, <2>2, <2>3, <2>4 DEF RunStep
<1>3. ASSUME NEW q \in Response, Respond(q) \/ ResponseStep(q) \/ ResponseStops(q)
      PROVE  CodeInv'
  BY <1>0, <1>3 DEF Respond, ResponseStep, ValidateAuthCode, MailSupport, ApproveReminder,
     RegisterConsent, RejectReminder, ResponseStops, AddState, runs, mails, status
<1>4. CASE ResendTimePasses \/ LinkExpires \/ DeleteOrganization \/ DeleteInviter \/ UNCHANGED vars
  BY <1>0, <1>4 DEF ResendTimePasses, LinkExpires, DeleteOrganization, DeleteInviter, vars, runs, mails, status
<1>5. QED
  BY <1>1, <1>2, <1>3, <1>4 DEF Next

\* The code that validateAuthCode asks for, once it is a reminder's, is one
\* the signatory was mailed, whatever overlaps and fails.
THEOREM SignatoryIsNotLockedOut == Spec => []LatestCodeWasMailed
<1>1. CodeInv => LatestCodeWasMailed
  BY DEF CodeInv
<1>2. QED
  BY <1>1, TypeInit, TypeStep, CodeInvInit, CodeInvStep, PTL DEF Spec

-----------------------------------------------------------------------------
(* What an approval leaves. *)

ConsentInv ==
  /\ ConsentMatchesApproval
  /\ \A q \in Response : response[q] = "consenting" => "APPROVED" \in events

LEMMA ConsentInvInit == Init => ConsentInv
  BY DEF Init, ConsentInv, ConsentMatchesApproval

LEMMA ConsentInvStep == TypeOK /\ BoundInv /\ ConsentInv /\ [Next]_vars => ConsentInv'
<1> SUFFICES ASSUME TypeOK, BoundInv, ConsentInv, [Next]_vars PROVE ConsentInv'
  OBVIOUS
<1> USE DEF ConsentInv, ConsentMatchesApproval, TypeOK
<1>a. {"REMINDER_ERROR", "MAX_REACHED", "APPROVED", "REJECTED"}
        \subseteq SignatoryEventStatus \ {"COMPLETED"}
  BY DEF SignatoryEventStatus
<1>b. faults' \in Nat
  BY TypeStep
<1>0. ASSUME UNCHANGED <<consented, response>>, faults =< faults',
             "APPROVED" \in events' <=> "APPROVED" \in events
      PROVE  ConsentInv'
  <2>1. faults > 0 => faults' > 0
    BY <1>0, <1>b
  <2>2. QED
    BY <1>0, <2>1
<1>1. CASE SubscriberStep \/ SubscriberFails
  <2>1. "APPROVED" \in events' <=> "APPROVED" \in events
    BY <1>1 DEF SubscriberStep, InsertWithState, MailLink, SubscriberFails, status, BoundInv
  <2>2. QED
    BY <1>0, <1>1, <2>1
    DEF SubscriberStep, InsertWithState, MailLink, SubscriberFails, Fault, responses
<1>2. ASSUME NEW r \in Run, FindByEvent(r) \/ RunStep(r) \/ ReminderThrows(r) \/ RunStops(r)
      PROVE  ConsentInv'
  <2>1. UNCHANGED <<consented, response>> /\ faults =< faults'
    BY <1>2 DEF FindByEvent, RunStep, ReminderThrows, RunStops, SendReminder,
       OrganizationNotFound, MaxReached, SendSupportEmail, MailReminder, InviterNotFound, LinkSent,
       ReminderError, Await, AwaitAndEnd, Fault, responses
  <2>2. CASE AddState("REMINDER_ERROR") \/ AddState("MAX_REACHED")
    BY <1>0, <1>a, <2>1, <2>2, AddStateFacts
  <2>3. CASE UNCHANGED events \/ events' = events \cup {"LINK_SENT"}
    BY <1>0, <2>1, <2>3
  <2>4. QED
    BY <1>2, <2>2, <2>3 DEF FindByEvent, RunStep, ReminderThrows, RunStops, SendReminder,
       OrganizationNotFound, MaxReached, SendSupportEmail, MailReminder, InviterNotFound, LinkSent,
       ReminderError, AddStateAndCode, status
<1>3. ASSUME NEW q \in Response, Respond(q) \/ ResponseStep(q) \/ ResponseStops(q)
      PROVE  ConsentInv'
  <2>1. CASE Respond(q) \/ ValidateAuthCode(q) \/ MailSupport(q)
    BY <2>1 DEF Respond, ValidateAuthCode, MailSupport, EndResponse, status
  <2>2. CASE ApproveReminder(q)
    <3>1. "APPROVED" \in events' /\ response' = [response EXCEPT ![q] = "consenting"]
      BY <1>a, <2>2, AddStateFacts DEF ApproveReminder
    <3>2. QED
      BY <3>1
  <2>3. CASE RegisterConsent(q)
    BY <2>3 DEF RegisterConsent, EndResponse, status
  <2>4. CASE RejectReminder(q)
    <3>1. "APPROVED" \in events' <=> "APPROVED" \in events
      BY <1>a, <2>4, AddStateFacts DEF RejectReminder
    <3>2. QED
      BY <2>4, <3>1 DEF RejectReminder, EndResponse
  <2>5. CASE ResponseStops(q)
    BY <2>5 DEF ResponseStops, EndResponse, Fault, status
  <2>6. QED
    BY <1>3, <2>1, <2>2, <2>3, <2>4, <2>5 DEF ResponseStep
<1>4. CASE ResendTimePasses \/ LinkExpires \/ DeleteOrganization \/ DeleteInviter \/ UNCHANGED vars
  <2>1. UNCHANGED <<consented, response, faults, events>>
    BY <1>4 DEF ResendTimePasses, LinkExpires, DeleteOrganization, DeleteInviter, vars, responses, status
  <2>2. QED
    BY <1>0, <2>1
<1>5. QED
  BY <1>1, <1>2, <1>3, <1>4 DEF Next

\* A consent is only registered for an approval, and an approval has one
\* unless its request is under way or something failed.
THEOREM ConsentsAreApprovals == Spec => []ConsentMatchesApproval
<1>1. ConsentInv => ConsentMatchesApproval
  BY DEF ConsentInv
<1>2. QED
  BY <1>1, TypeInit, TypeStep, BoundInit, BoundStep, ConsentInvInit, ConsentInvStep, PTL
  DEF Spec

-----------------------------------------------------------------------------
(* What comes one at a time completes the document once. *)

ActiveRuns == {r \in Run : run[r] # "idle"}
ActiveResponses == {q \in Response : response[q] \notin {"idle", "ended"}}

OneAtATime ==
  /\ subscriber # "ended" => ActiveRuns = {} /\ ActiveResponses = {}
  /\ ActiveRuns = {} \/ ActiveResponses = {}
  /\ \A r, x \in ActiveRuns : r = x
  /\ \A q, y \in ActiveResponses : q = y

\* A document has an outcome only once it is completed, and while a run or a
\* response is between its check of COMPLETED and its outcome it is not.
AtMostOneOutcome ==
  /\ \A s, t \in events \cap Outcome : s = t
  /\ "COMPLETED" \notin events => events \cap Outcome = {}
  /\ \A r \in Run : run[r] \in {"loading", "stopping"} => "COMPLETED" \notin events
  /\ \A q \in Response : response[q] \in {"mailing", "deciding"} => "COMPLETED" \notin events

SerialInv == serial => OneAtATime /\ AtMostOneOutcome

LEMMA AtMostOneMember ==
  ASSUME NEW S, IsFiniteSet(S), Cardinality(S) =< 1
  PROVE  \A a, b \in S : a = b
<1> SUFFICES ASSUME NEW a \in S, NEW b \in S, a # b PROVE FALSE
  OBVIOUS
<1>1. IsFiniteSet({a}) /\ Cardinality({a}) = 1
  BY FS_Singleton
<1>2. Cardinality({a} \cup {b}) = 2
  BY <1>1, FS_AddElement
<1>3. Cardinality({a} \cup {b}) =< Cardinality(S)
  BY FS_Subset
<1>4. Cardinality(S) \in Nat
  BY FS_CardinalityType
<1>5. 2 =< Cardinality(S)
  BY <1>2, <1>3
<1>6. QED
  BY <1>4, <1>5

LEMMA NotMany ==
  ASSUME NEW S, IsFiniteSet(S), \A a, b \in S : a = b
  PROVE  Cardinality(S) =< 1
<1>1. CASE S = {}
  BY <1>1, FS_EmptySet
<1>2. CASE S # {}
  <2>1. PICK a \in S : TRUE
    BY <1>2
  <2>2. S = {a}
    BY <2>1
  <2>3. QED
    BY <2>2, FS_Singleton
<1>3. QED
  BY <1>1, <1>2

\* Only one response is begun at a time, so those that are active are finite.
LEMMA ResponsesBegin ==
  ASSUME TypeOK, [Next]_vars
  PROVE  \E q : ActiveResponses' \subseteq ActiveResponses \cup {q}
<1> USE DEF TypeOK, ActiveResponses
<1>1. CASE \E q \in Response : Respond(q) \/ ResponseStep(q) \/ ResponseStops(q)
  <2>1. PICK q \in Response : Respond(q) \/ ResponseStep(q) \/ ResponseStops(q)
    BY <1>1
  <2>2. \A y \in Response : y # q => response'[y] = response[y]
    BY <2>1 DEF Respond, ResponseStep, ResponseStops, ValidateAuthCode, MailSupport,
       ApproveReminder, RegisterConsent, RejectReminder, EndResponse
  <2>3. QED
    BY <2>2
<1>2. CASE UNCHANGED response
  BY <1>2
<1>3. QED
  BY <1>1, <1>2
  DEF Next, vars, responses, SubscriberStep, InsertWithState, MailLink, SubscriberFails,
      FindByEvent, RunStep, ReminderThrows, RunStops, SendReminder, OrganizationNotFound,
      MaxReached, SendSupportEmail, MailReminder, InviterNotFound, LinkSent, ReminderError,
      ResendTimePasses, LinkExpires, DeleteOrganization, DeleteInviter

LEMMA OneAtATimeKept ==
  ASSUME TypeOK, OneAtATime, serial, MCNext PROVE OneAtATime'
<1>1. [Next]_vars /\ Active' =< 1
  BY DEF MCNext
<1>2. IsFiniteSet(ActiveRuns')
  <2>1. ActiveRuns' \subseteq Run
    BY DEF ActiveRuns
  <2>2. QED
    BY <2>1, RunAssumption, FS_Subset
<1>3. IsFiniteSet(ActiveResponses')
  <2>1. PICK q : ActiveResponses' \subseteq ActiveResponses \cup {q}
    BY <1>1, ResponsesBegin
  <2>2. CASE ActiveResponses = {}
    <3>1. ActiveResponses' \subseteq {q}
      BY <2>1, <2>2
    <3>2. QED
      BY <3>1, FS_Singleton, FS_Subset
  <2>3. CASE ActiveResponses # {}
    <3>1. PICK y \in ActiveResponses : TRUE
      BY <2>3
    <3>2. ActiveResponses = {y}
      BY <3>1 DEF OneAtATime
    <3>3. IsFiniteSet({y} \cup {q})
      BY FS_Singleton, FS_AddElement
    <3>4. QED
      BY <2>1, <3>2, <3>3, FS_Subset
  <2>4. QED
    BY <2>2, <2>3
<1> DEFINE n == Cardinality(ActiveRuns')
           m == Cardinality(ActiveResponses')
<1>4. n \in Nat /\ m \in Nat
  BY <1>2, <1>3, FS_CardinalityType
<1>5. Active' = (IF subscriber' = "ended" THEN 0 ELSE 1) + n + m
  BY DEF Active, ActiveRuns, ActiveResponses
<1>6. n =< 1 /\ m =< 1 /\ (n = 0 \/ m = 0) /\ (subscriber' # "ended" => n = 0 /\ m = 0)
  <2> HIDE DEF n, m
  <2>1. QED
    BY <1>1, <1>4, <1>5
<1>7. (n = 0 => ActiveRuns' = {}) /\ (m = 0 => ActiveResponses' = {})
  BY <1>2, <1>3, FS_EmptySet
<1>8. (\A r, x \in ActiveRuns' : r = x) /\ (\A q, y \in ActiveResponses' : q = y)
  BY <1>2, <1>3, <1>6, AtMostOneMember
<1>9. QED
  <2> HIDE DEF n, m
  <2>1. QED
    BY <1>6, <1>7, <1>8 DEF OneAtATime

\* A step that adds no outcome and begins no check keeps the rest.
LEMMA NoOutcomeAdded ==
  ASSUME TypeOK, AtMostOneOutcome,
         events' \cap Outcome = events \cap Outcome,
         "COMPLETED" \in events' <=> "COMPLETED" \in events,
         \A r \in Run : run'[r] \in {"loading", "stopping"} =>
           run[r] \in {"loading", "stopping"} \/ "COMPLETED" \notin events,
         \A q \in Response : response'[q] \in {"mailing", "deciding"} =>
           response[q] \in {"mailing", "deciding"} \/ "COMPLETED" \notin events
  PROVE  AtMostOneOutcome'
  BY DEF AtMostOneOutcome

\* The one outcome is added by the only one that is active.
LEMMA OutcomeAdded ==
  ASSUME TypeOK, AtMostOneOutcome, NEW s \in Outcome, AddState(s), "COMPLETED" \notin events,
         \A r \in Run : run'[r] \notin {"loading", "stopping"},
         \A q \in Response : response'[q] \notin {"mailing", "deciding"}
  PROVE  AtMostOneOutcome'
<1>1. events \cap Outcome = {}
  BY DEF AtMostOneOutcome
<1>2. events' \cap Outcome = {s} /\ "COMPLETED" \in events'
  BY <1>1 DEF AddState, Outcome
<1>3. QED
  BY <1>2 DEF AtMostOneOutcome

LEMMA OutcomeSubscriber ==
  ASSUME TypeOK, OneAtATime, AtMostOneOutcome, SubscriberStep \/ SubscriberFails
  PROVE  AtMostOneOutcome'
<1>1. UNCHANGED <<run, response>>
  BY DEF SubscriberStep, InsertWithState, MailLink, SubscriberFails, runs, responses
<1>2. CASE InsertWithState
  <2>1. events' = {"LINK_SENT"} /\ "COMPLETED" \notin events' /\ events' \cap Outcome = {}
    BY <1>2 DEF InsertWithState, Outcome
  <2>2. QED
    BY <1>1, <2>1 DEF AtMostOneOutcome
<1>3. CASE MailLink \/ SubscriberFails
  BY <1>1, <1>3, NoOutcomeAdded DEF MailLink, SubscriberFails, status
<1>4. QED
  BY <1>2, <1>3 DEF SubscriberStep

LEMMA OutcomeRun ==
  ASSUME TypeOK, OneAtATime, AtMostOneOutcome, NEW r \in Run,
         FindByEvent(r) \/ RunStep(r) \/ ReminderThrows(r) \/ RunStops(r)
  PROVE  AtMostOneOutcome'
<1> USE DEF TypeOK
<1>1. UNCHANGED response /\ \A x \in Run : x # r => run'[x] = run[x]
  BY DEF FindByEvent, RunStep, ReminderThrows, RunStops, SendReminder,
     OrganizationNotFound, MaxReached, SendSupportEmail, MailReminder, InviterNotFound, LinkSent,
     ReminderError, Await, AwaitAndEnd, GoTo, EndRun, responses
<1>2. CASE FindByEvent(r)
  <2>1. UNCHANGED events /\ "COMPLETED" \notin events
    BY <1>2 DEF FindByEvent, status
  <2>2. QED
    BY <1>1, <2>1, NoOutcomeAdded
<1>3. CASE SendReminder(r)
  <2>1. UNCHANGED events /\ run[r] = "loading"
    BY <1>3 DEF SendReminder, status
  <2>2. QED
    BY <1>1, <2>1, NoOutcomeAdded
<1>4. CASE MaxReached(r)
  <2>1. run[r] = "stopping" /\ run'[r] \in {"support", "catching"} /\ AddState("MAX_REACHED")
    BY <1>4 DEF MaxReached, Await, GoTo
  <2>2. "COMPLETED" \notin events
    BY <2>1 DEF AtMostOneOutcome
  <2>3. ActiveRuns = {r} /\ ActiveResponses = {}
    BY <2>1 DEF OneAtATime, ActiveRuns
  <2>4. \A x \in Run : run'[x] \notin {"loading", "stopping"}
    BY <1>1, <2>1, <2>3 DEF ActiveRuns
  <2>5. \A q \in Response : response'[q] \notin {"mailing", "deciding"}
    BY <1>1, <2>3 DEF ActiveResponses
  <2>6. QED
    BY <2>1, <2>2, <2>4, <2>5, OutcomeAdded DEF Outcome
<1>5. ASSUME AddState("REMINDER_ERROR"), run'[r] \in {"idle", "catching"}
      PROVE  AtMostOneOutcome'
  <2>1. events' = events \cup {"REMINDER_ERROR"}
    BY <1>5 DEF AddState, Outcome
  <2>2. QED
    BY <1>1, <1>5, <2>1, NoOutcomeAdded DEF Outcome
<1>6. CASE OrganizationNotFound(r)
  BY <1>5, <1>6 DEF OrganizationNotFound, AwaitAndEnd, GoTo, EndRun
<1>7. CASE ReminderError(r)
  BY <1>5, <1>7 DEF ReminderError, EndRun, GoTo
<1>8. CASE LinkSent(r)
  <2>1. events' = events \cup {"LINK_SENT"} /\ run'[r] \in {"idle", "catching"}
    BY <1>8 DEF LinkSent, AddStateAndCode, AwaitAndEnd, GoTo, EndRun
  <2>2. QED
    BY <1>1, <2>1, NoOutcomeAdded DEF Outcome
<1>9. CASE \/ SendSupportEmail(r) \/ MailReminder(r) \/ InviterNotFound(r)
           \/ ReminderThrows(r) \/ RunStops(r)
  <2>1. UNCHANGED events /\ run'[r] \in {"idle", "catching", "pushing"}
    BY <1>9 DEF SendSupportEmail, MailReminder, InviterNotFound, ReminderThrows, RunStops,
       AwaitAndEnd, GoTo, EndRun, status
  <2>2. QED
    BY <1>1, <2>1, NoOutcomeAdded
<1>10. QED
  BY <1>2, <1>3, <1>4, <1>6, <1>7, <1>8, <1>9 DEF RunStep

LEMMA OutcomeResponse ==
  ASSUME TypeOK, OneAtATime, AtMostOneOutcome, NEW q \in Response,
         Respond(q) \/ ResponseStep(q) \/ ResponseStops(q)
  PROVE  AtMostOneOutcome'
<1> USE DEF TypeOK
<1>1. UNCHANGED run /\ \A y \in Response : y # q => response'[y] = response[y]
  BY DEF Respond, ResponseStep, ResponseStops, ValidateAuthCode, MailSupport,
     ApproveReminder, RegisterConsent, RejectReminder, EndResponse, runs
<1>2. CASE ValidateAuthCode(q)
  <2>1. UNCHANGED events
        /\ (response'[q] \in {"mailing", "deciding"} => "COMPLETED" \notin events)
    BY <1>2 DEF ValidateAuthCode, ValidAuthCode, EndResponse, status
  <2>2. QED
    BY <1>1, <2>1, NoOutcomeAdded
<1>3. CASE MailSupport(q)
  <2>1. UNCHANGED events /\ response[q] = "mailing"
    BY <1>3 DEF MailSupport, status
  <2>2. QED
    BY <1>1, <2>1, NoOutcomeAdded
<1>4. ASSUME NEW s \in {"APPROVED", "REJECTED"}, AddState(s), response[q] = "deciding",
             response'[q] \notin {"mailing", "deciding"}
      PROVE  AtMostOneOutcome'
  <2>1. "COMPLETED" \notin events
    BY <1>4 DEF AtMostOneOutcome
  <2>2. ActiveRuns = {} /\ ActiveResponses = {q}
    BY <1>4 DEF OneAtATime, ActiveResponses
  <2>3. \A r \in Run : run'[r] \notin {"loading", "stopping"}
    BY <1>1, <2>2 DEF ActiveRuns
  <2>4. \A y \in Response : response'[y] \notin {"mailing", "deciding"}
    BY <1>1, <1>4, <2>2 DEF ActiveResponses
  <2>5. QED
    BY <1>4, <2>1, <2>3, <2>4, OutcomeAdded DEF Outcome
<1>5. CASE ApproveReminder(q)
  BY <1>4, <1>5 DEF ApproveReminder
<1>6. CASE RejectReminder(q)
  BY <1>4, <1>6 DEF RejectReminder, EndResponse
<1>7. CASE Respond(q) \/ RegisterConsent(q) \/ ResponseStops(q)
  <2>1. UNCHANGED events /\ response'[q] \in {"validating", "ended"}
    BY <1>7 DEF Respond, RegisterConsent, ResponseStops, EndResponse, status
  <2>2. QED
    BY <1>1, <2>1, NoOutcomeAdded
<1>8. QED
  BY <1>2, <1>3, <1>5, <1>6, <1>7 DEF ResponseStep

LEMMA SerialStep == TypeOK /\ SerialInv /\ [MCNext]_<<vars, serial>> => SerialInv'
<1> SUFFICES ASSUME TypeOK, SerialInv, [MCNext]_<<vars, serial>>, serial'
             PROVE  OneAtATime' /\ AtMostOneOutcome'
  BY DEF SerialInv
<1>1. serial /\ OneAtATime /\ AtMostOneOutcome
  BY DEF SerialInv, MCNext
<1>2. CASE UNCHANGED <<vars, serial>>
  <2>1. UNCHANGED <<events, subscriber, run, response>>
    BY <1>2 DEF vars, status, runs, responses
  <2>2. QED
    BY <1>1, <2>1 DEF OneAtATime, AtMostOneOutcome, ActiveRuns, ActiveResponses
<1>3. CASE MCNext
  <2>1. OneAtATime'
    BY <1>1, <1>3, OneAtATimeKept
  <2>2. CASE ResendTimePasses \/ LinkExpires \/ DeleteOrganization \/ DeleteInviter
    <3>1. UNCHANGED <<events, run, response>>
      BY <2>2 DEF ResendTimePasses, LinkExpires, DeleteOrganization, DeleteInviter, status, runs, responses
    <3>2. QED
      BY <1>1, <2>1, <3>1 DEF AtMostOneOutcome
  <2>3. Next
    BY <1>3 DEF MCNext
  <2>4. QED
    BY <1>1, <2>1, <2>2, <2>3, OutcomeSubscriber, OutcomeRun, OutcomeResponse DEF Next
<1>4. QED
  BY <1>2, <1>3

\* When subscriber, runs and responses come one at a time the document is
\* completed once: approved, rejected or given up, never two of them.
THEOREM OneAtATimeSettlesOnce == MCSpec => []SerialOneOutcome
<1>1. MCInit => SerialInv
  BY DEF MCInit, Init, SerialInv, OneAtATime, AtMostOneOutcome, ActiveRuns, ActiveResponses
<1>2. MCInit => TypeOK
  BY TypeInit DEF MCInit
<1>3. TypeOK /\ [MCNext]_<<vars, serial>> => TypeOK'
  BY TypeStep DEF MCNext, vars
<1>4. SerialInv => SerialOneOutcome
  <2>1. Outcome = {"APPROVED"} \cup {"REJECTED"} \cup {"MAX_REACHED"}
    BY DEF Outcome
  <2>2. IsFiniteSet(Outcome)
    BY <2>1, FS_Singleton, FS_AddElement
  <2>3. IsFiniteSet(events \cap Outcome)
    BY <2>2, FS_Subset
  <2>4. QED
    BY <2>3, NotMany DEF SerialInv, AtMostOneOutcome, SerialOneOutcome, OneOutcome
<1>5. QED
  BY <1>1, <1>2, <1>3, <1>4, SerialStep, PTL DEF MCSpec
=============================================================================
