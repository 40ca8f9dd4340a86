------------------------------ MODULE Signatory ------------------------------
(***************************************************************************)
(* packages/endpoints-organizations-registrar: the approval of one         *)
(* organization by its signatory.  A subscriber mails a link when the      *)
(* organization is created, triggered runs of sendReminders mail it again, *)
(* and the signatory answers with the code of a mail.                      *)
(*                                                                         *)
(* Subscriber, runs and responses share the signatoryStatus document; each *)
(* await is a step between which the others go on.  Run is a set of slots: *)
(* a slot may run many times, and slots run at once.  Codes are numbered,  *)
(* 1 the subscriber's, n + 1 the n-th reminder's.  Instead of timestamps   *)
(* the document has two flags, due (its last event is older than           *)
(* signatoryLinkResend) and expired (its last code is older than           *)
(* signatoryLinkExpiration).  The number of events is only compared with   *)
(* signatoryMaxReminderCount, so size stops there.                         *)
(***************************************************************************)
EXTENDS Integers, FiniteSets

CONSTANTS
  Run,               \* slots of sendReminders
  Response,          \* requests of the signatory
  MaxReminderCount,  \* config.signatoryMaxReminderCount
  MaxFaults          \* bound: errors, lost answers and crashes

ASSUME RunAssumption == IsFiniteSet(Run) /\ Run # {}
ASSUME BoundsAssumption == MaxReminderCount \in Nat \ {0} /\ MaxFaults \in Nat

SignatoryEventStatus == {"APPROVED", "COMPLETED", "REJECTED", "LINK_SENT",
                         "MAX_REACHED", "REMINDER_ERROR"}
OutcomeAnswered == {"APPROVED", "REJECTED"}   \* mutant: MAX_REACHED forgotten
Outcome == {"APPROVED", "REJECTED", "MAX_REACHED"}

VARIABLES
  organization,  \* "present" or "deleted"
  inviter,       \* the organization whose invitation it accepted, likewise
  events,        \* the states of signatoryStatus.events, {} before the insert
  size,          \* the number of events
  authCodes,     \* the codes of signatoryStatus.authCodes
  latest,        \* the one with the latest timestamp
  due, expired,
  consented,     \* a consent of the signatory is registered
  subscriber,    \* where notifySignatory is
  run,           \* run[r]: where a run is
  copy,          \* copy[r]: size of signatoryStatusDoc.events, as read
  code,          \* code[r]: the reminder's code
  response,      \* response[q]: where a request is
  link,          \* link[q]: its code and its answer
  mailed,        \* history: codes mailed to the signatory
  reminders,     \* history: reminders mailed
  faults

organizations == <<organization, inviter>>
status == <<events, size, authCodes, latest, due, expired>>
runs == <<run, copy, code>>
responses == <<response, link>>
mails == <<mailed, reminders>>
vars == <<organizations, status, consented, subscriber, runs, responses, mails, faults>>

RunStage == {"idle", "loading", "missing", "stopping", "support", "mailing",
             "pushing", "catching"}
ResponseStage == {"idle", "validating", "mailing", "deciding", "consenting", "ended"}
NoLink == [code |-> 0, answer |-> "none"]

Init ==
  /\ organization = "present" /\ inviter = "present"
  /\ events = {} /\ size = 0 /\ authCodes = {} /\ latest = 0
  /\ due = FALSE /\ expired = FALSE
  /\ consented = FALSE
  /\ subscriber = "inserting"
  /\ run = [r \in Run |-> "idle"]
  /\ copy = [r \in Run |-> 0]
  /\ code = [r \in Run |-> 0]
  /\ response = [q \in Response |-> "idle"]
  /\ link = [q \in Response |-> NoLink]
  /\ mailed = {} /\ reminders = 0
  /\ faults = 0

Fault == faults < MaxFaults /\ faults' = faults + 1

GoTo(r, s) == run' = [run EXCEPT ![r] = s]
\* A run that ends drops its local variables.
EndRun(r) == /\ GoTo(r, "idle")
             /\ copy' = [copy EXCEPT ![r] = 0]
             /\ code' = [code EXCEPT ![r] = 0]

EndResponse(q) == /\ response' = [response EXCEPT ![q] = "ended"]
                  /\ link' = [link EXCEPT ![q] = NoLink]

Counted(n) == IF size + n < MaxReminderCount THEN size + n ELSE MaxReminderCount

AddUnansweredState(s) ==   \* mutant: MAX_REACHED does not complete the document
  LET added == IF s \in OutcomeAnswered THEN {s, "COMPLETED"} ELSE {s} IN
    /\ events' = events \cup added
    /\ size' = Counted(Cardinality(added))
    /\ due' = FALSE
    /\ UNCHANGED <<authCodes, latest, expired>>

\* addState: APPROVED, REJECTED and MAX_REACHED complete the document.
AddState(s) ==
  LET added == IF s \in Outcome THEN {s, "COMPLETED"} ELSE {s} IN
    /\ events' = events \cup added
    /\ size' = Counted(Cardinality(added))
    /\ due' = FALSE
    /\ UNCHANGED <<authCodes, latest, expired>>

AddStateAndCode(s, c) ==
  /\ events' = events \cup {s}
  /\ size' = Counted(1)
  /\ authCodes' = authCodes \cup {c} /\ latest' = c
  /\ due' = FALSE /\ expired' = FALSE

-----------------------------------------------------------------------------
(***************************************************************************)
(* notifySignatory: the code is in the database before it is mailed.  The  *)
(* mail names the inviter; findOneByDid throws if that one was deleted,    *)
(* and nothing is mailed.                                                  *)
(***************************************************************************)
InsertWithState ==
  /\ subscriber = "inserting"
  /\ events' = {"LINK_SENT"} /\ size' = 1
  /\ authCodes' = {1} /\ latest' = 1
  /\ subscriber' = "mailing"
  /\ UNCHANGED <<organizations, due, expired, consented, runs, responses, mails, faults>>

MailLink ==
  /\ subscriber = "mailing"
  /\ mailed' = IF inviter = "present" THEN mailed \cup {1} ELSE mailed
  /\ subscriber' = "ended"
  /\ UNCHANGED <<organizations, status, consented, runs, responses, reminders, faults>>

\* pubsubPlugin logs what the subscriber throws.
SubscriberFails ==
  /\ subscriber # "ended"
  /\ Fault
  /\ subscriber' = "ended"
  /\ UNCHANGED <<organizations, status, consented, runs, responses, mails>>

-----------------------------------------------------------------------------
(***************************************************************************)
(* sendReminders.                                                          *)
(***************************************************************************)
\* The call of MongoDB or of the mailer succeeds, or it was done and its
\* answer is lost.
Await(r, next) == \/ GoTo(r, next) /\ UNCHANGED <<copy, code, faults>>
                  \/ GoTo(r, "catching") /\ Fault /\ UNCHANGED <<copy, code>>
AwaitAndEnd(r) == \/ EndRun(r) /\ UNCHANGED faults
                  \/ GoTo(r, "catching") /\ Fault /\ UNCHANGED <<copy, code>>

FindByEvent(r) ==
  /\ run[r] = "idle"
  /\ events # {} /\ "COMPLETED" \notin events /\ due
  /\ GoTo(r, "loading")
  /\ copy' = [copy EXCEPT ![r] = size]
  /\ UNCHANGED <<organizations, status, consented, subscriber, code, responses, mails, faults>>

SendReminderLate(r) ==   \* mutant: > for >=
  /\ run[r] = "loading"
  /\ GoTo(r, IF organization = "deleted" THEN "missing"
             ELSE IF copy[r] > MaxReminderCount THEN "stopping"
             ELSE "mailing")
  /\ UNCHANGED <<organizations, status, consented, subscriber, copy, code, responses,
                 mails, faults>>

\* The organization is read; the size is that of the copy.
SendReminder(r) ==
  /\ run[r] = "loading"
  /\ GoTo(r, IF organization = "deleted" THEN "missing"
             ELSE IF copy[r] >= MaxReminderCount THEN "stopping"
             ELSE "mailing")
  /\ UNCHANGED <<organizations, status, consented, subscriber, copy, code, responses,
                 mails, faults>>

OrganizationNotFound(r) ==
  /\ run[r] = "missing"
  /\ AddState("REMINDER_ERROR")
  /\ AwaitAndEnd(r)
  /\ UNCHANGED <<organizations, consented, subscriber, responses, mails>>

MaxReached(r) ==
  /\ run[r] = "stopping"
  /\ AddState("MAX_REACHED")
  /\ Await(r, "support")
  /\ UNCHANGED <<organizations, consented, subscriber, responses, mails>>

SendSupportEmail(r) ==
  /\ run[r] = "support"
  /\ AwaitAndEnd(r)
  /\ UNCHANGED <<organizations, status, consented, subscriber, responses, mails>>

MailReminderTried(r) ==   \* mutant: the mailer's error not thrown
  /\ run[r] = "mailing" /\ inviter = "present"
  /\ \/ /\ reminders' = reminders + 1
        /\ mailed' = mailed \cup {reminders + 2}
        /\ UNCHANGED faults
     \/ Fault /\ UNCHANGED mails
  /\ GoTo(r, "pushing")
  /\ code' = [code EXCEPT ![r] = reminders + 2]
  /\ UNCHANGED <<organizations, status, consented, subscriber, copy, responses>>

MailReminder(r) ==
  /\ run[r] = "mailing" /\ inviter = "present"
  /\ reminders' = reminders + 1
  /\ mailed' = mailed \cup {reminders + 2}
  /\ \/ GoTo(r, "pushing") /\ UNCHANGED faults
     \/ GoTo(r, "catching") /\ Fault
  /\ code' = [code EXCEPT ![r] = reminders + 2]
  /\ UNCHANGED <<organizations, status, consented, subscriber, copy, responses>>

\* The mail of a reminder names the inviter too.
InviterNotFound(r) ==
  /\ run[r] = "mailing" /\ inviter = "deleted"
  /\ GoTo(r, "catching")
  /\ UNCHANGED <<organizations, status, consented, subscriber, copy, code, responses,
                 mails, faults>>

LinkSent(r) ==
  /\ run[r] = "pushing"
  /\ AddStateAndCode("LINK_SENT", code[r])
  /\ AwaitAndEnd(r)
  /\ UNCHANGED <<organizations, consented, subscriber, responses, mails>>

\* An error of any call that was not done; that of the catch block ends the run.
ReminderThrows(r) ==
  /\ run[r] \in RunStage \ {"idle", "catching"}
  /\ Fault
  /\ GoTo(r, "catching")
  /\ UNCHANGED <<organizations, status, consented, subscriber, copy, code, responses, mails>>

ReminderError(r) ==
  /\ run[r] = "catching"
  /\ AddState("REMINDER_ERROR")
  /\ EndRun(r)
  /\ UNCHANGED <<organizations, consented, subscriber, responses, mails, faults>>

\* The process stops, or the catch block throws.
RunStops(r) ==
  /\ run[r] # "idle"
  /\ Fault
  /\ EndRun(r)
  /\ UNCHANGED <<organizations, status, consented, subscriber, responses, mails>>

-----------------------------------------------------------------------------
(***************************************************************************)
(* The signatory: GET response/approve or response/reject.                 *)
(***************************************************************************)
\* findOneByDid: a deleted organization is answered 404.  A code that no mail
\* has is answered 401.
Respond(q) ==
  /\ response[q] = "idle"
  /\ organization = "present"
  /\ \E c \in mailed, answer \in {"approve", "reject"} :
       link' = [link EXCEPT ![q] = [code |-> c, answer |-> answer]]
  /\ response' = [response EXCEPT ![q] = "validating"]
  /\ UNCHANGED <<organizations, status, consented, subscriber, runs, mails, faults>>

ValidAuthCodeAgain(c) ==   \* mutant: COMPLETED not looked at
  c \in authCodes /\ c = latest /\ ~expired

ValidAuthCode(c) == /\ c \in authCodes
                    /\ "COMPLETED" \notin events
                    /\ c = latest
                    /\ ~expired

ValidateAuthCode(q) ==
  /\ response[q] = "validating"
  /\ IF ValidAuthCode(link[q].code)
       THEN response' = [response EXCEPT ![q] = "mailing"] /\ UNCHANGED link
       ELSE EndResponse(q)
  /\ UNCHANGED <<organizations, status, consented, subscriber, runs, mails, faults>>

MailSupport(q) ==
  /\ response[q] = "mailing"
  /\ response' = [response EXCEPT ![q] = "deciding"]
  /\ UNCHANGED <<organizations, status, consented, subscriber, runs, link, mails, faults>>

ApproveAfterConsent(q) ==   \* mutant: the consent first
  /\ response[q] = "deciding" /\ link[q].answer = "approve"
  /\ consented' = TRUE
  /\ response' = [response EXCEPT ![q] = "consenting"]
  /\ UNCHANGED <<organizations, status, subscriber, runs, link, mails, faults>>

ApproveReminder(q) ==
  /\ response[q] = "deciding" /\ link[q].answer = "approve"
  /\ AddState("APPROVED")
  /\ response' = [response EXCEPT ![q] = "consenting"]
  /\ UNCHANGED <<organizations, consented, subscriber, runs, link, mails, faults>>

RegisterConsent(q) ==
  /\ response[q] = "consenting"
  /\ consented' = TRUE
  /\ EndResponse(q)
  /\ UNCHANGED <<organizations, status, subscriber, runs, mails, faults>>

RejectReminder(q) ==
  /\ response[q] = "deciding" /\ link[q].answer = "reject"
  /\ AddState("REJECTED")
  /\ EndResponse(q)
  /\ UNCHANGED <<organizations, consented, subscriber, runs, mails, faults>>

\* An error or a crash before a call is done.  After its last call a request
\* has nothing left to do; after another, stopping then is stopping here.
ResponseStops(q) ==
  /\ response[q] \notin {"idle", "ended"}
  /\ Fault
  /\ EndResponse(q)
  /\ UNCHANGED <<organizations, status, consented, subscriber, runs, mails>>

-----------------------------------------------------------------------------
(***************************************************************************)
(* Time, and the deletion of an organization.                              *)
(***************************************************************************)
ResendTimePasses ==
  /\ events # {} /\ ~due
  /\ due' = TRUE
  /\ UNCHANGED <<organizations, events, size, authCodes, latest, expired, consented,
                 subscriber, runs, responses, mails, faults>>

LinkExpires ==
  /\ events # {} /\ ~expired
  /\ expired' = TRUE
  /\ UNCHANGED <<organizations, events, size, authCodes, latest, due, consented,
                 subscriber, runs, responses, mails, faults>>

DeleteOrganization ==
  /\ organization = "present"
  /\ organization' = "deleted"
  /\ UNCHANGED <<inviter, status, consented, subscriber, runs, responses, mails, faults>>

DeleteInviter ==
  /\ inviter = "present"
  /\ inviter' = "deleted"
  /\ UNCHANGED <<organization, status, consented, subscriber, runs, responses, mails, faults>>

SubscriberStep == InsertWithState \/ MailLink

RunStep(r) == \/ SendReminder(r) \/ OrganizationNotFound(r) \/ MaxReached(r)
              \/ SendSupportEmail(r) \/ MailReminder(r) \/ InviterNotFound(r)
              \/ LinkSent(r) \/ ReminderError(r)

ResponseStep(q) == \/ ValidateAuthCode(q) \/ MailSupport(q) \/ ApproveReminder(q)
                   \/ RegisterConsent(q) \/ RejectReminder(q)

Next == \/ SubscriberStep \/ SubscriberFails
        \/ \E r \in Run : \/ FindByEvent(r) \/ RunStep(r)
                          \/ ReminderThrows(r) \/ RunStops(r)
        \/ \E q \in Response : Respond(q) \/ ResponseStep(q) \/ ResponseStops(q)
        \/ ResendTimePasses \/ LinkExpires
        \/ DeleteOrganization \/ DeleteInviter

Spec == Init /\ [][Next]_vars

\* The calls that were begun go on, time passes, and whoever calls
\* send-reminder keeps calling it.
Fairness == /\ WF_vars(SubscriberStep)
            /\ \A r \in Run : WF_vars(FindByEvent(r)) /\ WF_vars(RunStep(r))
            /\ \A q \in Response : WF_vars(ResponseStep(q))
            /\ WF_vars(ResendTimePasses)
FairSpec == Spec /\ Fairness

-----------------------------------------------------------------------------
(***************************************************************************)
(* Properties.                                                             *)
(***************************************************************************)

\* The document, the mails and the local variables keep their shape; the
\* document is completed by each outcome, and by nothing else.
TypeOK ==
  /\ organization \in {"present", "deleted"} /\ inviter \in {"present", "deleted"}
  /\ events \subseteq SignatoryEventStatus
  /\ "COMPLETED" \in events <=> events \cap Outcome # {}
  /\ size \in 0 .. MaxReminderCount
  /\ authCodes \subseteq Nat /\ latest \in Nat
  /\ due \in BOOLEAN /\ expired \in BOOLEAN /\ consented \in BOOLEAN
  /\ subscriber \in {"inserting", "mailing", "ended"}
  /\ run \in [Run -> RunStage]
  /\ copy \in [Run -> 0 .. MaxReminderCount]
  /\ code \in [Run -> Nat]
  /\ response \in [Response -> ResponseStage]
  /\ link \in [Response -> [code : Nat, answer : {"approve", "reject", "none"}]]
  /\ mailed \subseteq Nat /\ reminders \in Nat
  /\ faults \in Nat

\* However runs of sendReminders overlap and fail, the mails to the signatory
\* stay within signatoryMaxReminderCount, but for one per further run at the
\* same time and one per fault.
RemindersAreBounded ==
  reminders + 1 < MaxReminderCount + Cardinality(Run) + faults

\* The code that validateAuthCode asks for, once it is a reminder's, is one
\* the signatory was mailed: no failure locks the signatory out.
LatestCodeWasMailed == latest > 1 => latest \in mailed

\* A consent is only registered for an approval, and an approval has one
\* unless its request is under way or something failed.
ConsentMatchesApproval ==
  /\ consented => "APPROVED" \in events
  /\ "APPROVED" \in events =>
       \/ consented
       \/ faults > 0
       \/ \E q \in Response : response[q] = "consenting"

\* The document is completed once: approved, rejected or given up.
OneOutcome == Cardinality(events \cap Outcome) =< 1

\* What the signatory leaves unanswered comes to an end, unless the
\* organization is deleted.
SignatoryIsSettled ==
  (events # {}) ~> ("COMPLETED" \in events \/ organization = "deleted")
=============================================================================
