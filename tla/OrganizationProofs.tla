------------------------- MODULE OrganizationProofs -------------------------
(***************************************************************************)
(* The registrar's organization, for any services, keys and numbers of     *)
(* requests, errors and overlaps.                                          *)
(***************************************************************************)
EXTENDS Organization, PermissionsProofs

-----------------------------------------------------------------------------
(***************************************************************************)
(* The types, with the Permissions contract's own invariant.               *)
(***************************************************************************)

TypeInv == TypeOK /\ OperatorsHavePrimaries

\* Zero is not the account, and the keys createOrganization makes are addresses.
LEMMA Addresses ==
  /\ Account \in Address
  /\ PermissioningKey \in Address
  /\ RotationKey \in Address
  /\ NewKeys \subseteq Address
  /\ NewKeys \cup VnfKeys \subseteq KeyId
  /\ Account # Zero
  BY KeysAssumption, AddressAssumption DEF VnfKeys

\* The scopes of a set of categories are names of scopes.
LEMMA ScopesOfCategories ==
  ASSUME NEW categories \in SUBSET ServiceCategory
  PROVE  PermissionsOf(categories) \in SUBSET Scope
  BY ScopesAssumption DEF PermissionsOf

\* The categories of a set of services are categories.
LEMMA CategoriesOfServices ==
  ASSUME NEW services \in SUBSET ServiceId
  PROVE  Category(services) \in SUBSET ServiceCategory
  BY ServicesAssumption DEF Category

LEMMA CreatedType ==
  ASSUME NEW services \in SUBSET ServiceId, NEW activated \in SUBSET ServiceId
  PROVE  Created(services, activated) \in Document
  BY CategoriesOfServices, KeysAssumption DEF Created, Document

LEMMA NoDocumentType == NoDocument \in Document
  BY DEF NoDocument, Document

LEMMA TypeInit == Init => TypeInv
<1> SUFFICES ASSUME Init PROVE TypeInv
  OBVIOUS
<1>1. organization \in Document /\ organizationKeys \subseteq KeyId
  BY CreatedType, NoDocumentType, Addresses DEF Init
<1>2. PermissionsInv
  <2>1. CASE PermissionsInit
    BY <2>1, PermissionsInvInit
  <2>2. CASE ~ PermissionsInit
    <3>1. PICK activated \in SUBSET ServiceId :
            /\ VNF = Deployer
            /\ addressToPermissions = [a \in Address |->
                 IF a = Account THEN PermissionsOf(Category(activated)) ELSE {}]
            /\ primaryToPermissioning = [a \in Address |->
                 IF a = Account THEN PermissioningKey ELSE Zero]
            /\ primaryToRotation = [a \in Address |->
                 IF a = Account THEN RotationKey ELSE Zero]
            /\ operatorToPrimary = [a \in Address |->
                 IF a \in NewKeys \cap DltKeys THEN Account ELSE Zero]
            /\ primaries = {Account}
      BY <2>2 DEF Init
    <3>2. PermissionsOf(Category(activated)) \in SUBSET Scope
      BY CategoriesOfServices, ScopesOfCategories
    <3>3. QED
      BY <3>1, <3>2, Addresses, AddressAssumption
      DEF PermissionsInv, PermissionsTypeOK, OperatorsHavePrimaries
  <2>3. QED
    BY <2>1, <2>2
<1>3. QED
  BY <1>1, <1>2, NoDocumentType, BoundsAssumption
  DEF Init, TypeInv, TypeOK, PermissionsInv, Stage

\* What a request keeps while it is served.
LocalsTyped ==
  /\ stage \in [Request -> Stage]
  /\ operation \in [Request -> Operation \cup {NoOperation}]
  /\ loaded \in [Request -> Document]
  /\ updated \in [Request -> Document]

LEMMA EndTyped ==
  ASSUME LocalsTyped, NEW r \in Request, NEW s \in Stage, End(r, s)
  PROVE  LocalsTyped'
  BY NoDocumentType DEF LocalsTyped, End

LEMMA ContinueTyped ==
  ASSUME LocalsTyped, NEW r \in Request, NEW s \in Stage, Continue(r, s)
  PROVE  LocalsTyped'
  BY EndTyped DEF LocalsTyped, Continue, GoTo

LEMMA AnsweredTyped ==
  ASSUME LocalsTyped, faults \in 0..MaxFaults, NEW r \in Request, NEW s \in Stage,
         Answered(r, s)
  PROVE  LocalsTyped' /\ faults' \in 0..MaxFaults
<1>1. CASE Continue(r, s) /\ UNCHANGED faults
  BY <1>1, ContinueTyped
<1>2. CASE End(r, "failed") /\ Fault
  <2>1. LocalsTyped'
    BY <1>2, EndTyped DEF Stage
  <2>2. QED
    BY <1>2, <2>1, BoundsAssumption DEF Fault
<1>3. QED
  BY <1>1, <1>2 DEF Answered

\* What the operations of each handler name.
LEMMA OperationFields ==
  ASSUME NEW o \in Operation
  PROVE  /\ o.handler \in Handler
         /\ o.services \in SUBSET ServiceId
         /\ o.keys \in SUBSET KeyId
         /\ o.handler \in KeyHandlers => \E k \in KeyId : o.keys = {k}
         /\ o.handler = "addKey" => o.keys \cap (NewKeys \cup VnfKeys) = {}
<1>1. CASE o \in [handler : Handlers \cap {"create"}, services : SUBSET ServiceId,
                  auto : BOOLEAN, keys : {{}}]
  BY <1>1 DEF Handler, KeyHandlers
<1>2. CASE o \in [handler : Handlers \cap {"addService"},
                  services : {{s} : s \in ServiceId}, auto : BOOLEAN, keys : {{}}]
  BY <1>2 DEF Handler, KeyHandlers
<1>3. CASE o \in [handler : Handlers \cap {"deleteService", "updateService"},
                  services : {{s} : s \in ServiceId}, auto : {FALSE}, keys : {{}}]
  BY <1>3 DEF Handler, KeyHandlers
<1>4. CASE o \in [handler : Handlers \cap {"activateServices", "deactivateServices"},
                  services : (SUBSET ServiceId) \ {{}}, auto : {FALSE}, keys : {{}}]
  BY <1>4 DEF Handler, KeyHandlers
<1>5. CASE o \in [handler : Handlers \cap {"updateProfile", "deleteOrganization"},
                  services : {{}}, auto : {FALSE}, keys : {{}}]
  BY <1>5 DEF Handler, KeyHandlers
<1>6. CASE o \in [handler : Handlers \cap {"addKey"}, services : {{}}, auto : {FALSE},
                  keys : {{k} : k \in KeyId \ (NewKeys \cup VnfKeys)}]
  BY <1>6 DEF Handler, KeyHandlers
<1>7. CASE o \in [handler : Handlers \cap {"deleteKey"},
                  services : {{}}, auto : {FALSE}, keys : {{k} : k \in KeyId}]
  BY <1>7 DEF Handler, KeyHandlers
<1>8. QED
  BY <1>1, <1>2, <1>3, <1>4, <1>5, <1>6, <1>7 DEF Operation

\* The operation of a request names services and keys there are.
LEMMA OperationTyped ==
  ASSUME LocalsTyped, NEW r \in Request
  PROVE  /\ Services(r) \in SUBSET ServiceId
         /\ Keys(r) \in SUBSET KeyId
         /\ loaded[r] \in Document
         /\ updated[r] \in Document
<1>1. operation[r] \in Operation \cup {NoOperation}
  BY DEF LocalsTyped
<1>2. operation[r].services \in SUBSET ServiceId /\ operation[r].keys \in SUBSET KeyId
  BY <1>1, OperationFields DEF NoOperation
<1>3. QED
  BY <1>2 DEF LocalsTyped, Services, Keys

\* The first stage of an operation that a handler accepts.
LEMMA FirstStageTyped ==
  ASSUME NEW o \in Operation, NEW doc \in Document
  PROVE  FirstStage(o, doc) \in Stage
<1>1. o.handler \in Handler
  BY OperationFields
<1>2. QED
  BY <1>1 DEF FirstStage, Stage, Handler

LEMMA BeginTyped ==
  ASSUME LocalsTyped, organization \in Document, NEW r \in Request,
         NEW o \in Operation, Begin(r, o)
  PROVE  LocalsTyped'
<1> DEFINE first == IF organization.status # "deleted" /\ Accepts(o, organization)
                      THEN FirstStage(o, organization) ELSE "failed"
<1>1. first \in Stage
  BY FirstStageTyped DEF Stage
<1>2. CASE first \in Ended
  BY <1>1, <1>2, EndTyped DEF Begin
<1>3. CASE first \notin Ended
  <2>1. /\ stage' = [stage EXCEPT ![r] = first]
        /\ operation' = [operation EXCEPT ![r] = o]
        /\ loaded' = [loaded EXCEPT ![r] = organization]
        /\ UNCHANGED updated
    BY <1>3 DEF Begin
  <2> HIDE DEF first
  <2>2. QED
    BY <1>1, <2>1 DEF LocalsTyped
<1>4. QED
  BY <1>2, <1>3

LEMMA TypeParts == TypeOK <=> /\ organization \in Document
                              /\ organizationKeys \subseteq KeyId
                              /\ PermissionsTypeOK
                              /\ LocalsTyped
                              /\ faults \in 0..MaxFaults
                              /\ overlaps \subseteq SUBSET {"service", "key"}
  BY DEF TypeOK, LocalsTyped

\* The stages a handler goes on to.
LEMMA StagesTyped ==
  ASSUME NEW r \in Request
  PROVE  AfterDidDoc(r) \in Stage /\ AfterModify(r) \in Stage
<1>1. AfterDidDoc(r) \in Stage
  BY DEF AfterDidDoc, Stage
<1>2. AfterModify(r) \in Stage
  BY DEF AfterModify, Stage
<1>3. QED
  BY <1>1, <1>2

LEMMA ActivatedTyped ==
  ASSUME LocalsTyped, NEW r \in Request
  PROVE  ActivatedServices(r) \in SUBSET ServiceId
<1>1. loaded[r].activated \in SUBSET ServiceId
  BY OperationTyped DEF Document
<1>2. QED
  BY <1>1, OperationTyped DEF ActivatedServices

\* The writes of the organization's document.
LEMMA DocumentWritesTyped ==
  ASSUME TypeOK, NEW r \in Request,
         \/ InsertOrganization(r) \/ PushService(r) \/ WriteServices(r)
         \/ WriteDidDoc(r) \/ ModifyOrganization(r) \/ WriteProfile(r)
         \/ DeleteOrganization(r)
  PROVE  organization' \in Document /\ LocalsTyped' /\ UNCHANGED <<organizationKeys, permissions, faults>>
<1> USE TypeParts
<1>0. /\ Services(r) \in SUBSET ServiceId
      /\ Keys(r) \in SUBSET KeyId
      /\ loaded[r] \in Document
      /\ updated[r] \in Document
  BY OperationTyped
<1>1. CASE InsertOrganization(r)
  <2> DEFINE made == Created(Services(r), {})
             doc == [made EXCEPT !.account = FALSE]
  <2>1. made \in Document
    BY <1>0, CreatedType
  <2>2. /\ organization' = doc
        /\ loaded' = [loaded EXCEPT ![r] = doc]
        /\ stage' = [stage EXCEPT ![r] = "modify"]
        /\ UNCHANGED <<operation, updated, organizationKeys, permissions, faults>>
    BY <1>1 DEF InsertOrganization
  <2> HIDE DEF made
  <2>3. doc \in Document
    BY <2>1 DEF Document
  <2> HIDE DEF doc
  <2>4. LocalsTyped'
    BY <2>2, <2>3 DEF LocalsTyped, Stage
  <2>5. QED
    BY <2>2, <2>3, <2>4
<1>2. CASE PushService(r)
  <2>1. LocalsTyped'
    BY <1>2, ContinueTyped DEF PushService, Stage
  <2>2. QED
    BY <1>2, <2>1 DEF PushService, Document
<1>3. CASE WriteServices(r)
  <2>1. LocalsTyped'
    BY <1>3, ContinueTyped DEF WriteServices, Stage
  <2>2. QED
    BY <1>0, <1>3, <2>1 DEF WriteServices, Update, Document
<1>4. CASE WriteDidDoc(r)
  <2> DEFINE doc == [organization EXCEPT !.didServices = DidServices(r),
                                         !.didKeys = DidKeys(r)]
  <2>1. DidServices(r) \in SUBSET ServiceId /\ DidKeys(r) \in SUBSET KeyId
    BY <1>0 DEF DidServices, DidKeys, Document
  <2>2. doc \in Document
    BY <2>1 DEF Document
  <2>3. organization' = doc
    BY <1>4 DEF WriteDidDoc, Update
  <2>4. CASE AfterDidDoc(r) \in Ended
    <3>1. End(r, AfterDidDoc(r))
      BY <1>4, <2>4 DEF WriteDidDoc
    <3>2. LocalsTyped'
      BY <3>1, EndTyped, StagesTyped
    <3>3. QED
      BY <1>4, <2>2, <2>3, <3>2 DEF WriteDidDoc
  <2>5. CASE AfterDidDoc(r) \notin Ended
    <3>1. GoTo(r, AfterDidDoc(r)) /\ updated' = [updated EXCEPT ![r] = doc]
      BY <1>4, <2>5 DEF WriteDidDoc
    <3> HIDE DEF doc
    <3>2. LocalsTyped'
      BY <2>2, <3>1, StagesTyped DEF GoTo, LocalsTyped
    <3>3. QED
      BY <1>4, <2>2, <2>3, <3>2 DEF WriteDidDoc
  <2>6. QED
    BY <2>4, <2>5
<1>5. CASE ModifyOrganization(r)
  <2> DEFINE categories == Category(ActivatedServices(r))
             doc == [organization EXCEPT
                       !.account = @ \/ Does(r, {"create"}),
                       !.activated = ActivatedServices(r),
                       !.permitted = IF categories = Base(r).permitted THEN @
                                                                       ELSE categories]
  <2>1. ActivatedServices(r) \in SUBSET ServiceId
    BY ActivatedTyped
  <2>2. categories \in SUBSET ServiceCategory
    BY <2>1, CategoriesOfServices
  <2>3. doc \in Document
    <3> HIDE DEF categories
    <3>1. QED
      BY <2>1, <2>2 DEF Document
  <2>4. organization' = doc
    BY <1>5 DEF ModifyOrganization, Update
  <2>5. CASE AfterModify(r) \in Ended
    <3>1. End(r, AfterModify(r))
      BY <1>5, <2>5 DEF ModifyOrganization
    <3>2. LocalsTyped'
      BY <3>1, EndTyped, StagesTyped
    <3> HIDE DEF doc
    <3>3. QED
      BY <1>5, <2>3, <2>4, <3>2 DEF ModifyOrganization
  <2>6. CASE AfterModify(r) \notin Ended
    <3>1. GoTo(r, AfterModify(r)) /\ updated' = [updated EXCEPT ![r] = doc]
      BY <1>5, <2>6 DEF ModifyOrganization
    <3> HIDE DEF doc
    <3>2. LocalsTyped'
      BY <2>3, <3>1, StagesTyped DEF GoTo, LocalsTyped
    <3>3. QED
      BY <1>5, <2>3, <2>4, <3>2 DEF ModifyOrganization
  <2>7. QED
    BY <2>5, <2>6
<1>6. CASE WriteProfile(r)
  <2>1. LocalsTyped'
    BY <1>6, EndTyped DEF WriteProfile, Stage
  <2>2. QED
    BY <1>0, <1>6, <2>1 DEF WriteProfile, Update, Document
<1>7. CASE DeleteOrganization(r)
  <2>1. LocalsTyped'
    BY <1>7, EndTyped DEF DeleteOrganization, Stage
  <2>2. QED
    BY <1>0, <1>7, <2>1 DEF DeleteOrganization, Update, Document
<1>8. QED
  BY <1>1, <1>2, <1>3, <1>4, <1>5, <1>6, <1>7

\* The transactions.
LEMMA LedgerTyped ==
  ASSUME TypeOK, OperatorsHavePrimaries, NEW r \in Request,
         AddPrimary(r) \/ AddOperators(r) \/ RemoveOperator(r) \/ UpdateScopes(r)
  PROVE  /\ PermissionsInv'
         /\ LocalsTyped'
         /\ faults' \in 0..MaxFaults
         /\ UNCHANGED documents
<1> USE TypeParts
<1>0. /\ PermissionsInv
      /\ Keys(r) \in SUBSET Address
      /\ InsertedKeys(r) \in SUBSET Address
      /\ Signers(r) \in SUBSET Address
      /\ updated[r].permitted \in SUBSET ServiceCategory
  BY OperationTyped, Addresses, KeysAssumption
  DEF PermissionsInv, InsertedKeys, Signers, Document
<1>1. CASE AddPrimary(r)
  <2>1. PermissionsInv'
    BY <1>0, <1>1, Addresses, AddressAssumption, VnfCallsPreserve DEF AddPrimary
  <2>2. LocalsTyped' /\ faults' \in 0..MaxFaults
    BY <1>1, AnsweredTyped DEF AddPrimary, Stage
  <2>3. QED
    BY <1>1, <2>1, <2>2 DEF AddPrimary
<1>2. CASE AddOperators(r)
  <2>1. PICK k \in Signers(r) :
          ChangeOperators(k, Account, {}, InsertedKeys(r) \cap DltKeys)
    BY <1>2 DEF AddOperators
  <2>2. PermissionsInv'
    BY <1>0, <2>1, Addresses, OperatorsPreserve
  <2>3. LocalsTyped' /\ faults' \in 0..MaxFaults
    BY <1>2, AnsweredTyped DEF AddOperators, Stage
  <2>4. QED
    BY <1>2, <2>2, <2>3 DEF AddOperators
<1>3. CASE RemoveOperator(r)
  <2>1. PICK k \in Signers(r) : ChangeOperators(k, Account, Keys(r), {})
    BY <1>3 DEF RemoveOperator
  <2>2. PermissionsInv'
    BY <1>0, <2>1, Addresses, OperatorsPreserve
  <2>3. LocalsTyped' /\ faults' \in 0..MaxFaults
    BY <1>3, AnsweredTyped DEF RemoveOperator, Stage
  <2>4. QED
    BY <1>3, <2>2, <2>3 DEF RemoveOperator
<1>4. CASE UpdateScopes(r)
  <2> DEFINE granted == PermissionsOf(updated[r].permitted)
             removed == PermissionsOf(ServiceCategory) \ granted
  <2>1. granted \in SUBSET Scope /\ removed \in SUBSET Scope
    BY <1>0, ScopesOfCategories
  <2>2. updateAddressScopes(Deployer, Account, granted, removed)
    BY <1>4 DEF UpdateScopes
  <2> HIDE DEF granted, removed
  <2>3. PermissionsInv'
    BY <1>0, <2>1, <2>2, Addresses, AddressAssumption, VnfCallsPreserve
  <2>4. LocalsTyped' /\ faults' \in 0..MaxFaults
    BY <1>4, AnsweredTyped DEF UpdateScopes, Stage
  <2>5. QED
    BY <1>4, <2>3, <2>4 DEF UpdateScopes
<1>5. QED
  BY <1>1, <1>2, <1>3, <1>4

\* The steps that change no document but the keys, and no contract.
LEMMA KeyStepsTyped ==
  ASSUME TypeOK, NEW r \in Request,
         CheckKey(r) \/ InsertKeys(r) \/ FindKey(r) \/ DeleteKey(r)
  PROVE  /\ organizationKeys' \subseteq KeyId
         /\ LocalsTyped'
         /\ UNCHANGED <<organization, permissions, faults>>
<1> USE TypeParts
<1>1. CASE CheckKey(r)
  <2>1. LocalsTyped'
    BY <1>1, ContinueTyped DEF CheckKey, Stage
  <2>2. QED
    BY <1>1, <2>1 DEF CheckKey, documents
<1>2. CASE InsertKeys(r)
  <2>1. LocalsTyped'
    BY <1>2, ContinueTyped DEF InsertKeys, Stage
  <2>2. InsertedKeys(r) \subseteq KeyId
    BY OperationTyped, Addresses DEF InsertedKeys
  <2>3. QED
    BY <1>2, <2>1, <2>2 DEF InsertKeys
<1>3. CASE FindKey(r)
  <2>1. LocalsTyped'
    BY <1>3, ContinueTyped DEF FindKey, Stage
  <2>2. QED
    BY <1>3, <2>1 DEF FindKey, documents
<1>4. CASE DeleteKey(r)
  <2>1. LocalsTyped'
    BY <1>4, ContinueTyped DEF DeleteKey, Stage
  <2>2. QED
    BY <1>4, <2>1 DEF DeleteKey
<1>5. QED
  BY <1>1, <1>2, <1>3, <1>4

\* Requests that begin, are refused or fail.
LEMMA RequestEndsTyped ==
  ASSUME TypeOK, NEW r \in Request,
         (\E o \in Operation : Begin(r, o)) \/ Refused(r) \/ Throws(r)
  PROVE  LocalsTyped' /\ faults' \in 0..MaxFaults /\ UNCHANGED <<documents, permissions>>
<1> USE TypeParts
<1>1. CASE \E o \in Operation : Begin(r, o)
  <2>1. PICK o \in Operation : Begin(r, o)
    BY <1>1
  <2>2. LocalsTyped'
    BY <2>1, BeginTyped
  <2>3. QED
    BY <2>1, <2>2 DEF Begin
<1>2. CASE Refused(r)
  <2>1. End(r, "failed") /\ UNCHANGED <<documents, permissions, faults>>
    BY <1>2 DEF Refused
  <2>2. LocalsTyped'
    BY <2>1, EndTyped DEF Stage
  <2>3. QED
    BY <2>1, <2>2
<1>3. CASE Throws(r)
  <2>1. LocalsTyped'
    BY <1>3, EndTyped DEF Throws, Stage
  <2>2. QED
    BY <1>3, <2>1, BoundsAssumption DEF Throws, Fault
<1>4. QED
  BY <1>1, <1>2, <1>3

LEMMA CrashTyped ==
  ASSUME TypeOK, Crash
  PROVE  LocalsTyped' /\ faults' \in 0..MaxFaults /\ UNCHANGED <<documents, permissions>>
<1>1. LocalsTyped'
  BY NoDocumentType, TypeParts DEF Crash, LocalsTyped, Stage
<1>2. QED
  BY <1>1, TypeParts, BoundsAssumption DEF Crash, Fault

LEMMA TypeStep == TypeInv /\ [Next]_vars => TypeInv'
<1> SUFFICES ASSUME TypeInv, [Next]_vars PROVE TypeInv'
  OBVIOUS
<1> USE DEF TypeInv
<1>1. PermissionsInv
  BY TypeParts DEF PermissionsInv
<1>2. ASSUME UNCHANGED permissions PROVE PermissionsInv'
  BY <1>1, <1>2
  DEF permissions, PermissionsInv, PermissionsTypeOK, OperatorsHavePrimaries
<1>3. ASSUME /\ organization' \in Document /\ organizationKeys' \subseteq KeyId
             /\ PermissionsInv' /\ LocalsTyped' /\ faults' \in 0..MaxFaults
             /\ overlaps' \subseteq SUBSET {"service", "key"}
      PROVE  TypeInv'
  BY <1>3, TypeParts DEF PermissionsInv, TypeOK, LocalsTyped
<1>4. CASE UNCHANGED vars
  BY <1>4, <1>1
  DEF TypeOK, PermissionsTypeOK, OperatorsHavePrimaries, vars, documents, locals, permissions
<1>5. CASE Next
  <2>1. CASE Finished
    BY <1>4, <2>1 DEF Finished
  <2>2. CASE Crash /\ overlaps' = overlaps \cup Overlapping'
    <3>1. overlaps' \subseteq SUBSET {"service", "key"}
      BY <2>2, TypeParts DEF Overlapping
    <3>2. QED
      BY <1>2, <1>3, <2>2, <3>1, CrashTyped, TypeParts DEF documents
  <2>3. ASSUME NEW r \in Request, Step(r), overlaps' = overlaps \cup Overlapping'
        PROVE  TypeInv'
    <3>1. overlaps' \subseteq SUBSET {"service", "key"}
      BY <2>3, TypeParts DEF Overlapping
    <3>2. CASE (\E o \in Operation : Begin(r, o)) \/ Refused(r) \/ Throws(r)
      BY <1>2, <1>3, <3>1, <3>2, RequestEndsTyped, TypeParts DEF documents
    <3>3. CASE \/ InsertOrganization(r) \/ PushService(r) \/ WriteServices(r)
               \/ WriteDidDoc(r) \/ ModifyOrganization(r) \/ WriteProfile(r)
               \/ DeleteOrganization(r)
      BY <1>2, <1>3, <3>1, <3>3, DocumentWritesTyped, TypeParts
    <3>4. CASE AddPrimary(r) \/ AddOperators(r) \/ RemoveOperator(r) \/ UpdateScopes(r)
      BY <1>3, <3>1, <3>4, LedgerTyped, TypeParts DEF documents
    <3>5. CASE CheckKey(r) \/ InsertKeys(r) \/ FindKey(r) \/ DeleteKey(r)
      BY <1>2, <1>3, <3>1, <3>5, KeyStepsTyped, TypeParts
    <3>6. QED
      BY <2>3, <3>2, <3>3, <3>4, <3>5 DEF Step
  <2>4. QED
    BY <1>5, <2>1, <2>2, <2>3 DEF Next
<1>6. QED
  BY <1>4, <1>5

\* Every variable has values of its type, whatever the requests do: the contract's
\* tables hold addresses and known scopes, and the documents known services and keys.
THEOREM TypeCorrect == Spec => []TypeOK
<1>1. TypeInv => TypeOK
  BY DEF TypeInv
<1>2. QED
  BY TypeInit, TypeStep, <1>1, PTL DEF Spec

-----------------------------------------------------------------------------
(***************************************************************************)
(* What a step does to the requests.                                       *)
(***************************************************************************)

Others(r) == \A q \in Request \ {r} : /\ stage'[q] = stage[q]
                                      /\ operation'[q] = operation[q]
                                      /\ loaded'[q] = loaded[q]
                                      /\ updated'[q] = updated[q]

\* Request r goes on to a stage of S, with what it knows, or ends.
Moved(r, S) == /\ Others(r)
               /\ stage'[r] \in S
               /\ stage'[r] \in Ended \/ (/\ operation'[r] = operation[r]
                                         /\ loaded'[r] = loaded[r])

LEMMA EndMoves ==
  ASSUME LocalsTyped, NEW r \in Request, NEW s \in Ended, End(r, s)
  PROVE  Moved(r, {s})
  BY DEF LocalsTyped, End, Moved, Others

LEMMA ContinueMoves ==
  ASSUME LocalsTyped, NEW r \in Request, NEW s \in Stage, Continue(r, s)
  PROVE  Moved(r, {s})
<1>1. CASE s \in Ended
  BY <1>1, EndMoves DEF Continue
<1>2. CASE s \notin Ended
  BY <1>2 DEF Continue, GoTo, Moved, Others, LocalsTyped
<1>3. QED
  BY <1>1, <1>2

LEMMA AnsweredMoves ==
  ASSUME LocalsTyped, NEW r \in Request, NEW s \in Stage, Answered(r, s)
  PROVE  Moved(r, {s, "failed"})
  BY EndMoves, ContinueMoves DEF Answered, Moved, Ended

LEMMA WritesMove ==
  ASSUME TypeOK, NEW r \in Request
  PROVE  /\ InsertOrganization(r) => /\ Others(r) /\ stage'[r] = "modify"
                                     /\ operation'[r] = operation[r]
         /\ PushService(r) \/ WriteServices(r) => Moved(r, {"didDoc"})
         /\ WriteDidDoc(r) => Moved(r, {AfterDidDoc(r)})
         /\ ModifyOrganization(r) => Moved(r, {AfterModify(r)})
         /\ WriteProfile(r) \/ DeleteOrganization(r) => Moved(r, {"done"})
<1> USE TypeParts
<1>1. InsertOrganization(r) => /\ Others(r) /\ stage'[r] = "modify"
                               /\ operation'[r] = operation[r]
  BY DEF InsertOrganization, Others, LocalsTyped
<1>2. PushService(r) \/ WriteServices(r) => Moved(r, {"didDoc"})
  BY ContinueMoves DEF PushService, WriteServices, Stage
<1>3. WriteDidDoc(r) => Moved(r, {AfterDidDoc(r)})
  <2>1. WriteDidDoc(r) /\ AfterDidDoc(r) \in Ended => Moved(r, {AfterDidDoc(r)})
    BY EndMoves DEF WriteDidDoc
  <2>2. WriteDidDoc(r) /\ AfterDidDoc(r) \notin Ended => Moved(r, {AfterDidDoc(r)})
    BY DEF WriteDidDoc, GoTo, Moved, Others, LocalsTyped
  <2>3. QED
    BY <2>1, <2>2
<1>4. ModifyOrganization(r) => Moved(r, {AfterModify(r)})
  <2>1. ModifyOrganization(r) /\ AfterModify(r) \in Ended => Moved(r, {AfterModify(r)})
    BY EndMoves DEF ModifyOrganization
  <2>2. ModifyOrganization(r) /\ AfterModify(r) \notin Ended => Moved(r, {AfterModify(r)})
    BY DEF ModifyOrganization, GoTo, Moved, Others, LocalsTyped
  <2>3. QED
    BY <2>1, <2>2
<1>5. WriteProfile(r) \/ DeleteOrganization(r) => Moved(r, {"done"})
  BY EndMoves DEF WriteProfile, DeleteOrganization, Ended
<1>6. QED
  BY <1>1, <1>2, <1>3, <1>4, <1>5

LEMMA KeyStepsMove ==
  ASSUME TypeOK, NEW r \in Request
  PROVE  /\ AddPrimary(r) => Moved(r, {"insertKeys", "failed"})
         /\ CheckKey(r) => Moved(r, {"didDoc", "failed"})
         /\ InsertKeys(r) => Moved(r, {"addOperators", "done"})
         /\ AddOperators(r) =>
              Moved(r, {IF Does(r, {"create"}) THEN "scopes" ELSE "done", "failed"})
         /\ FindKey(r) => Moved(r, {"removeOperator", "deleteKey", "failed"})
         /\ RemoveOperator(r) => Moved(r, {"deleteKey", "failed"})
         /\ DeleteKey(r) => Moved(r, {"didDoc"})
         /\ UpdateScopes(r) => Moved(r, {"done", "failed"})
         /\ Refused(r) \/ Throws(r) => Moved(r, {"failed"})
<1> USE TypeParts
<1>1. AddPrimary(r) => Moved(r, {"insertKeys", "failed"})
  BY AnsweredMoves DEF AddPrimary, Stage
<1>2. CheckKey(r) => Moved(r, {"didDoc", "failed"})
  BY ContinueMoves DEF CheckKey, Stage, Moved
<1>3. InsertKeys(r) => Moved(r, {"addOperators", "done"})
  BY ContinueMoves DEF InsertKeys, Stage, Moved
<1>4. AddOperators(r) =>
        Moved(r, {IF Does(r, {"create"}) THEN "scopes" ELSE "done", "failed"})
  BY AnsweredMoves DEF AddOperators, Stage
<1>5. FindKey(r) => Moved(r, {"removeOperator", "deleteKey", "failed"})
  BY ContinueMoves DEF FindKey, Stage, Moved
<1>6. RemoveOperator(r) => Moved(r, {"deleteKey", "failed"})
  BY AnsweredMoves DEF RemoveOperator, Stage
<1>7. DeleteKey(r) => Moved(r, {"didDoc"})
  BY ContinueMoves DEF DeleteKey, Stage
<1>8. UpdateScopes(r) => Moved(r, {"done", "failed"})
  BY AnsweredMoves DEF UpdateScopes, Stage
<1>9. Refused(r) \/ Throws(r) => Moved(r, {"failed"})
  BY EndMoves DEF Refused, Throws, Ended
<1>10. QED
  BY <1>1, <1>2, <1>3, <1>4, <1>5, <1>6, <1>7, <1>8, <1>9

\* A request that begins either ends at once or has the document and its first stage.
LEMMA BeginMoves ==
  ASSUME TypeOK, NEW r \in Request, NEW o \in Operation, Begin(r, o)
  PROVE  /\ Others(r)
         /\ UNCHANGED <<documents, permissions>>
         /\ \/ stage'[r] \in Ended
            \/ /\ stage'[r] = FirstStage(o, organization)
               /\ operation'[r] = o
               /\ loaded'[r] = organization
               /\ o.handler = "create" <=> organization.status = "absent"
               /\ organization.status # "deleted" /\ Accepts(o, organization)
<1> DEFINE first == IF organization.status # "deleted" /\ Accepts(o, organization)
                      THEN FirstStage(o, organization) ELSE "failed"
<1>1. CASE first \in Ended
  BY <1>1, EndMoves, TypeParts DEF Begin, Moved
<1>2. CASE first \notin Ended
  <2>1. /\ stage' = [stage EXCEPT ![r] = first]
        /\ operation' = [operation EXCEPT ![r] = o]
        /\ loaded' = [loaded EXCEPT ![r] = organization]
        /\ o.handler = "create" <=> organization.status = "absent"
        /\ UNCHANGED <<documents, permissions, updated>>
    BY <1>2 DEF Begin
  <2>2. /\ first = FirstStage(o, organization)
        /\ organization.status # "deleted" /\ Accepts(o, organization)
    BY <1>2 DEF Ended
  <2> HIDE DEF first
  <2>3. QED
    BY <2>1, <2>2, TypeParts DEF Others, LocalsTyped
<1>3. QED
  BY <1>1, <1>2

-----------------------------------------------------------------------------
(***************************************************************************)
(* Which handlers reach which stages, and which requests overlap.          *)
(***************************************************************************)

ShapeOf(r) ==
  /\ stage[r] \in {"insert", "addPrimary"} => Does(r, {"create"})
  /\ stage[r] \in {"insertKeys", "addOperators"} => Does(r, {"create", "addKey"})
  /\ stage[r] = "checkKey" => Does(r, {"addKey"})
  /\ stage[r] \in {"findKey", "removeOperator", "deleteKey"} => Does(r, {"deleteKey"})
  /\ stage[r] = "services" => Does(r, {"addService", "deleteService"})
  /\ stage[r] = "didDoc" =>
       Does(r, {"addService", "deleteService", "updateService", "addKey", "deleteKey"})
  /\ stage[r] \in {"modify", "scopes"} =>
       Does(r, {"create", "addService", "deleteService", "activateServices",
                "deactivateServices"})
  /\ stage[r] = "profile" => Does(r, {"updateProfile"})
  /\ stage[r] = "delete" => Does(r, {"deleteOrganization"})

Shape == \A r \in Request : ShapeOf(r)

OverlapsKept == Overlapping \subseteq overlaps

ShapeInv == TypeInv /\ Shape /\ OverlapsKept

\* The shape of a request that goes on.
LEMMA ShapeMoves ==
  ASSUME Shape, NEW r \in Request, Others(r), ShapeOf(r)'
  PROVE  Shape'
<1>1. \A q \in Request \ {r} : ShapeOf(q)'
  BY DEF Shape, ShapeOf, Others, Does
<1>2. QED
  BY <1>1 DEF Shape

LEMMA ShapeEnds ==
  ASSUME NEW r \in Request, stage'[r] \in Ended
  PROVE  ShapeOf(r)'
  BY DEF ShapeOf, Ended

LEMMA ShapeStep ==
  ASSUME TypeOK, Shape, NEW r \in Request, Step(r)
  PROVE  Others(r) /\ Shape'
<1> USE DEF Ended
<1>0. ShapeOf(r)
  BY DEF Shape
<1>1. CASE \E o \in Operation : Begin(r, o)
  <2>1. PICK o \in Operation : Begin(r, o)
    BY <1>1
  <2>2. o.handler \in Handler
    BY OperationFields
  <2>3. Others(r) /\ ShapeOf(r)'
    BY <2>1, <2>2, BeginMoves DEF FirstStage, ShapeOf, Does, Handler
  <2>4. QED
    BY <2>3, ShapeMoves
<1>2. CASE \/ InsertOrganization(r) \/ PushService(r) \/ WriteServices(r)
           \/ WriteProfile(r) \/ DeleteOrganization(r)
  <2>1. InsertOrganization(r) => stage[r] = "insert"
    BY DEF InsertOrganization
  <2>2. Others(r) /\ ShapeOf(r)'
    BY <1>0, <1>2, <2>1, WritesMove
    DEF Moved, ShapeOf, Does, PushService, WriteServices
  <2>3. QED
    BY <2>2, ShapeMoves
<1>3. CASE WriteDidDoc(r)
  <2>1. Moved(r, {AfterDidDoc(r)})
    BY <1>3, WritesMove
  <2>2. Others(r) /\ ShapeOf(r)'
    BY <2>1 DEF Moved, AfterDidDoc, ShapeOf, Does
  <2>3. QED
    BY <2>2, ShapeMoves
<1>4. CASE ModifyOrganization(r)
  <2>1. Moved(r, {AfterModify(r)})
    BY <1>4, WritesMove
  <2>2. Others(r) /\ ShapeOf(r)'
    BY <1>0, <1>4, <2>1 DEF Moved, AfterModify, ShapeOf, Does, ModifyOrganization
  <2>3. QED
    BY <2>2, ShapeMoves
<1>5. CASE \/ AddPrimary(r) \/ CheckKey(r) \/ InsertKeys(r) \/ AddOperators(r)
           \/ FindKey(r) \/ RemoveOperator(r) \/ DeleteKey(r) \/ UpdateScopes(r)
           \/ Refused(r) \/ Throws(r)
  <2>1. CASE AddPrimary(r) \/ CheckKey(r) \/ InsertKeys(r)
    BY <1>0, <2>1, KeyStepsMove, ShapeMoves
    DEF Moved, ShapeOf, Does, AddPrimary, CheckKey, InsertKeys
  <2>2. CASE AddOperators(r)
    BY <2>2, KeyStepsMove, ShapeMoves DEF Moved, ShapeOf, Does
  <2>3. CASE FindKey(r) \/ RemoveOperator(r) \/ DeleteKey(r)
    BY <1>0, <2>3, KeyStepsMove, ShapeMoves
    DEF Moved, ShapeOf, Does, FindKey, RemoveOperator, DeleteKey
  <2>4. CASE UpdateScopes(r) \/ Refused(r) \/ Throws(r)
    BY <2>4, KeyStepsMove, ShapeMoves, ShapeEnds DEF Moved
  <2>5. QED
    BY <1>5, <2>1, <2>2, <2>3, <2>4
<1>6. QED
  BY <1>1, <1>2, <1>3, <1>4, <1>5 DEF Step

LEMMA ShapeInvInit == Init => ShapeInv
  BY TypeInit DEF Init, ShapeInv, Shape, ShapeOf, OverlapsKept, Overlapping, InFlight, Ended

LEMMA ShapeInvStep == ShapeInv /\ [Next]_vars => ShapeInv'
<1> SUFFICES ASSUME ShapeInv, [Next]_vars PROVE ShapeInv'
  OBVIOUS
<1> USE DEF ShapeInv
<1>1. TypeInv'
  BY TypeStep
<1>2. CASE UNCHANGED vars
  BY <1>1, <1>2 DEF vars, documents, locals, Shape, ShapeOf, Does, OverlapsKept, Overlapping, InFlight
<1>3. CASE Crash /\ overlaps' = overlaps \cup Overlapping'
  <2>1. Shape'
    BY <1>3 DEF Crash, Shape, ShapeOf, InFlight, Ended
  <2>2. QED
    BY <1>1, <1>3, <2>1 DEF OverlapsKept
<1>4. ASSUME NEW r \in Request, Step(r), overlaps' = overlaps \cup Overlapping'
      PROVE  ShapeInv'
  BY <1>1, <1>4, ShapeStep DEF OverlapsKept, TypeInv
<1>5. QED
  BY <1>2, <1>3, <1>4 DEF Next, Finished

\* A request that holds keys and another one in flight have overlapped.
LEMMA KeyRequestsOverlap ==
  ASSUME OverlapsKept, NEW q \in InFlight, NEW r \in InFlight, q # r,
         Does(r, {"create", "addKey", "deleteKey"})
  PROVE  /\ overlaps \cap {{"key"}, {"service", "key"}} # {}
         /\ Does(q, {"create", "addKey", "deleteKey"}) => {"key"} \in overlaps
<1> DEFINE kq == Kinds(operation[q])
           kr == Kinds(operation[r])
<1>1. "key" \in kr
  BY DEF Kinds, Does, KeyHandlers
<1>2. "key" \in kq \/ "service" \in kq
  BY DEF Kinds
<1>3. Does(q, {"create", "addKey", "deleteKey"}) => "key" \in kq
  BY DEF Kinds, Does, KeyHandlers
<1> HIDE DEF kq, kr
<1>4. \A a \in kq, b \in kr : {a, b} \in SUBSET {"service", "key"} => {a, b} \in overlaps
  BY DEF OverlapsKept, Overlapping, kq, kr
<1>5. "key" \in kq => {"key"} \in overlaps
  <2>1. {"key", "key"} = {"key"}
    OBVIOUS
  <2>2. QED
    BY <1>1, <1>4, <2>1
<1>6. "service" \in kq => {"service", "key"} \in overlaps
  BY <1>1, <1>4
<1>7. QED
  BY <1>2, <1>3, <1>5, <1>6

-----------------------------------------------------------------------------
(***************************************************************************)
(* Operators on the ledger are keys the registrar holds.                   *)
(***************************************************************************)

OperatorsOf(r) ==
  /\ stage[r] = "addOperators" => InsertedKeys(r) \subseteq organizationKeys
  /\ stage[r] = "deleteKey" => Keys(r) \cap operators = {}

OperatorsKept ==
  {"key"} \notin overlaps => /\ operators \subseteq organizationKeys \cap DltKeys
                            /\ \A r \in Request : OperatorsOf(r)

\* Nothing changes for the operators when neither they nor the keys do, and the
\* request that steps reaches neither of the two stages.
LEMMA OperatorsUntouched ==
  ASSUME OperatorsKept, overlaps \subseteq overlaps', NEW r \in Request, Others(r),
         UNCHANGED <<organizationKeys, permissions>>,
         stage'[r] \notin {"addOperators", "deleteKey"}
  PROVE  OperatorsKept'
<1> SUFFICES ASSUME {"key"} \notin overlaps'
             PROVE  /\ operators' \subseteq organizationKeys' \cap DltKeys
                    /\ \A q \in Request : OperatorsOf(q)'
  BY DEF OperatorsKept
<1>1. operators' = operators
  BY DEF operators, permissions
<1>2. \A q \in Request : OperatorsOf(q)'
  BY <1>1 DEF OperatorsKept, OperatorsOf, Others, InsertedKeys, Keys, Does
<1>3. QED
  BY <1>1, <1>2 DEF OperatorsKept

\* A request that waits at one of the two stages while keys change holds keys too.
LEMMA OtherKeyStages ==
  ASSUME ShapeInv, NEW q \in Request, NEW r \in Request, q # r, {"key"} \notin overlaps,
         stage[r] \notin Ended \cup {"idle"}, Does(r, {"create", "addKey", "deleteKey"})
  PROVE  stage[q] \notin {"addOperators", "deleteKey"}
<1> SUFFICES ASSUME stage[q] \in {"addOperators", "deleteKey"} PROVE FALSE
  OBVIOUS
<1>1. Does(q, {"create", "addKey", "deleteKey"})
  BY DEF ShapeInv, Shape, ShapeOf, Does
<1>2. q \in InFlight /\ r \in InFlight
  BY DEF InFlight, Ended
<1>3. QED
  BY <1>1, <1>2, KeyRequestsOverlap DEF ShapeInv

LEMMA AddOperatorsKeeps ==
  ASSUME ShapeInv, OperatorsKept, overlaps \subseteq overlaps', NEW r \in Request, AddOperators(r)
  PROVE  OperatorsKept'
<1> SUFFICES ASSUME {"key"} \notin overlaps'
             PROVE  /\ operators' \subseteq organizationKeys' \cap DltKeys
                    /\ \A q \in Request : OperatorsOf(q)'
  BY DEF OperatorsKept
<1>1. Moved(r, {"scopes", "done", "failed"})
  BY KeyStepsMove DEF ShapeInv, TypeInv, Moved
<1>2. Does(r, {"create", "addKey"}) /\ stage[r] = "addOperators"
  BY DEF ShapeInv, Shape, ShapeOf, AddOperators
<1>3. \A q \in Request \ {r} : stage[q] \notin {"addOperators", "deleteKey"}
  BY <1>2, OtherKeyStages DEF Does, Ended
<1>4. \A q \in Request : stage'[q] \notin {"addOperators", "deleteKey"}
  BY <1>1, <1>3 DEF Moved, Others
<1>5. operators' \subseteq operators \cup (InsertedKeys(r) \cap DltKeys)
  BY KeysAssumption, Addresses DEF AddOperators, ChangeOperators, operators
<1>6. InsertedKeys(r) \subseteq organizationKeys
  BY <1>2 DEF OperatorsKept, OperatorsOf
<1>7. organizationKeys' = organizationKeys
  BY DEF AddOperators, documents
<1>8. QED
  BY <1>4, <1>5, <1>6, <1>7 DEF OperatorsKept, OperatorsOf

LEMMA RemoveOperatorKeeps ==
  ASSUME ShapeInv, OperatorsKept, overlaps \subseteq overlaps', NEW r \in Request, RemoveOperator(r)
  PROVE  OperatorsKept'
<1> SUFFICES ASSUME {"key"} \notin overlaps'
             PROVE  /\ operators' \subseteq organizationKeys' \cap DltKeys
                    /\ \A q \in Request : OperatorsOf(q)'
  BY DEF OperatorsKept
<1>1. Moved(r, {"deleteKey", "failed"})
  BY KeyStepsMove DEF ShapeInv, TypeInv, RemoveOperator
<1>2. Does(r, {"deleteKey"}) /\ stage[r] = "removeOperator"
  BY DEF ShapeInv, Shape, ShapeOf, RemoveOperator
<1>3. \A q \in Request \ {r} : stage[q] \notin {"addOperators", "deleteKey"}
  BY <1>2, OtherKeyStages DEF Does, Ended
<1>4. operators' = operators \ Keys(r)
  BY KeysAssumption, Addresses DEF RemoveOperator, ChangeOperators, operators
<1>5. organizationKeys' = organizationKeys
  BY DEF RemoveOperator, documents
<1>6. OperatorsOf(r)'
  BY <1>1, <1>4 DEF Moved, OperatorsOf, Keys, Ended
<1>7. \A q \in Request \ {r} : OperatorsOf(q)'
  BY <1>1, <1>3 DEF Moved, Others, OperatorsOf
<1>8. QED
  BY <1>4, <1>5, <1>6, <1>7 DEF OperatorsKept

LEMMA InsertKeysKeeps ==
  ASSUME ShapeInv, OperatorsKept, overlaps \subseteq overlaps', NEW r \in Request, InsertKeys(r)
  PROVE  OperatorsKept'
<1> SUFFICES ASSUME {"key"} \notin overlaps'
             PROVE  /\ operators' \subseteq organizationKeys' \cap DltKeys
                    /\ \A q \in Request : OperatorsOf(q)'
  BY DEF OperatorsKept
<1>1. Moved(r, {"addOperators", "done"})
  BY KeyStepsMove DEF ShapeInv, TypeInv, InsertKeys
<1>2. organizationKeys' = organizationKeys \cup InsertedKeys(r) /\ operators' = operators
  BY DEF InsertKeys, permissions, operators
<1>3. OperatorsOf(r)'
  BY <1>1, <1>2 DEF Moved, OperatorsOf, InsertedKeys, Keys, Does, Ended
<1>4. \A q \in Request \ {r} : OperatorsOf(q)'
  BY <1>1, <1>2 DEF Moved, Others, OperatorsKept, OperatorsOf, InsertedKeys, Keys, Does
<1>5. QED
  BY <1>2, <1>3, <1>4 DEF OperatorsKept

\* removeOperatorKey is only left out for a key that is not a DLT key, which no
\* operator is.
LEMMA FindKeyKeeps ==
  ASSUME ShapeInv, OperatorsKept, overlaps \subseteq overlaps', NEW r \in Request, FindKey(r)
  PROVE  OperatorsKept'
<1> SUFFICES ASSUME {"key"} \notin overlaps'
             PROVE  /\ operators' \subseteq organizationKeys' \cap DltKeys
                    /\ \A q \in Request : OperatorsOf(q)'
  BY DEF OperatorsKept
<1>1. Moved(r, {"removeOperator", "deleteKey", "failed"})
  BY KeyStepsMove DEF ShapeInv, TypeInv, FindKey
<1>2. organizationKeys' = organizationKeys /\ operators' = operators
  BY DEF FindKey, documents, permissions, operators
<1>3. stage[r] = "findKey" /\ Does(r, {"deleteKey"})
  BY DEF ShapeInv, Shape, ShapeOf, FindKey
<1>4. \E k \in KeyId : Keys(r) = {k}
  <2>1. operation[r] \in Operation
    BY <1>3, TypeParts DEF ShapeInv, TypeInv, LocalsTyped, Does, NoOperation
  <2>2. QED
    BY <1>3, <2>1, OperationFields DEF Keys, Does, KeyHandlers
<1>5. stage'[r] = "deleteKey" => Keys(r) \cap DltKeys = {}
  <2>1. Continue(r, IF \/ ~ Keys(r) \subseteq organizationKeys
                       \/ \E k \in Keys(r) : NotRemovable(k)
                      THEN "failed"
                      ELSE IF Keys(r) \subseteq DltKeys THEN "removeOperator"
                                                        ELSE "deleteKey")
    BY DEF FindKey
  <2>2. Keys(r) \subseteq DltKeys => stage'[r] \in {"failed", "removeOperator"}
    BY <2>1, ContinueMoves, TypeParts DEF ShapeInv, TypeInv, Stage, Moved
  <2>3. QED
    BY <1>4, <2>2
<1>6. OperatorsOf(r)'
  BY <1>1, <1>2, <1>5 DEF Moved, OperatorsKept, OperatorsOf, Keys, Ended
<1>7. \A q \in Request \ {r} : OperatorsOf(q)'
  BY <1>1, <1>2 DEF Moved, Others, OperatorsKept, OperatorsOf, InsertedKeys, Keys, Does
<1>8. QED
  BY <1>2, <1>6, <1>7 DEF OperatorsKept

LEMMA DeleteKeyKeeps ==
  ASSUME ShapeInv, OperatorsKept, overlaps \subseteq overlaps', NEW r \in Request, DeleteKey(r)
  PROVE  OperatorsKept'
<1> SUFFICES ASSUME {"key"} \notin overlaps'
             PROVE  /\ operators' \subseteq organizationKeys' \cap DltKeys
                    /\ \A q \in Request : OperatorsOf(q)'
  BY DEF OperatorsKept
<1>1. Moved(r, {"didDoc"})
  BY KeyStepsMove DEF ShapeInv, TypeInv, DeleteKey
<1>2. Does(r, {"deleteKey"}) /\ stage[r] = "deleteKey"
  BY DEF ShapeInv, Shape, ShapeOf, DeleteKey
<1>3. \A q \in Request \ {r} : stage[q] \notin {"addOperators", "deleteKey"}
  BY <1>2, OtherKeyStages DEF Does, Ended
<1>4. organizationKeys' = organizationKeys \ Keys(r) /\ operators' = operators
  BY DEF DeleteKey, permissions, operators
<1>5. operators \cap Keys(r) = {}
  BY <1>2 DEF OperatorsKept, OperatorsOf
<1>6. \A q \in Request : OperatorsOf(q)'
  BY <1>1, <1>3 DEF Moved, Others, OperatorsOf
<1>7. QED
  BY <1>4, <1>5, <1>6 DEF OperatorsKept

LEMMA OperatorsInit == Init => OperatorsKept
<1> SUFFICES ASSUME Init PROVE OperatorsKept
  OBVIOUS
<1>1. \A r \in Request : stage[r] = "idle"
  BY DEF Init
<1>2. CASE PermissionsInit
  <2>1. operators = {}
    BY <1>2, Addresses, KeysAssumption DEF PermissionsInit, operators
  <2>2. QED
    BY <1>1, <2>1 DEF OperatorsKept, OperatorsOf
<1>3. CASE ~ PermissionsInit
  <2>1. /\ organizationKeys = NewKeys \cup VnfKeys
        /\ operatorToPrimary = [a \in Address |->
             IF a \in NewKeys \cap DltKeys THEN Account ELSE Zero]
    BY <1>3 DEF Init
  <2>2. operators \subseteq organizationKeys \cap DltKeys
    BY <2>1, Addresses, KeysAssumption DEF operators
  <2>3. QED
    BY <1>1, <2>2 DEF OperatorsKept, OperatorsOf
<1>4. QED
  BY <1>2, <1>3

LEMMA OperatorsStep == ShapeInv /\ OperatorsKept /\ [Next]_vars => OperatorsKept'
<1> SUFFICES ASSUME ShapeInv, OperatorsKept, [Next]_vars PROVE OperatorsKept'
  OBVIOUS
<1>0. TypeOK
  BY DEF ShapeInv, TypeInv
<1>1. CASE UNCHANGED vars
  BY <1>1
  DEF vars, documents, locals, permissions, OperatorsKept, OperatorsOf, operators,
      InsertedKeys, Keys, Does
<1>2. CASE Crash /\ overlaps' = overlaps \cup Overlapping'
  <2>1. operators' = operators /\ organizationKeys' = organizationKeys
    BY <1>2 DEF Crash, documents, permissions, operators
  <2>2. \A q \in Request : stage'[q] \notin {"addOperators", "deleteKey"}
    BY <1>2 DEF Crash, InFlight, Ended
  <2>3. QED
    BY <1>2, <2>1, <2>2 DEF OperatorsKept, OperatorsOf
<1>3. ASSUME NEW r \in Request, Step(r), overlaps' = overlaps \cup Overlapping'
      PROVE  OperatorsKept'
  <2>0. Others(r) /\ overlaps \subseteq overlaps'
    BY <1>0, <1>3, ShapeStep DEF ShapeInv
  <2>1. CASE \E o \in Operation : Begin(r, o)
    <3>1. PICK o \in Operation : Begin(r, o)
      BY <2>1
    <3>2. o.handler \in Handler
      BY OperationFields
    <3>3. stage'[r] \notin {"addOperators", "deleteKey"} /\ UNCHANGED <<documents, permissions>>
      BY <1>0, <3>1, <3>2, BeginMoves DEF FirstStage, Handler, Ended
    <3>4. QED
      BY <2>0, <3>3, OperatorsUntouched DEF documents
  <2>2. CASE \/ InsertOrganization(r) \/ PushService(r) \/ WriteServices(r)
             \/ WriteDidDoc(r) \/ ModifyOrganization(r) \/ WriteProfile(r)
             \/ DeleteOrganization(r)
    <3>1. UNCHANGED <<organizationKeys, permissions>>
      BY <1>0, <2>2, DocumentWritesTyped
    <3>2. stage'[r] \notin {"addOperators", "deleteKey"}
      BY <1>0, <2>2, WritesMove DEF Moved, AfterDidDoc, AfterModify
    <3>3. QED
      BY <2>0, <3>1, <3>2, OperatorsUntouched
  <2>3. CASE AddPrimary(r) \/ UpdateScopes(r)
    <3>1. operators' = operators /\ organizationKeys' = organizationKeys
      BY <2>3
      DEF AddPrimary, UpdateScopes, addPrimary, updateAddressScopes, documents, operators
    <3>2. stage'[r] \notin {"addOperators", "deleteKey"}
      BY <1>0, <2>3, KeyStepsMove DEF Moved
    <3>3. QED
      BY <2>0, <3>1, <3>2
      DEF OperatorsKept, OperatorsOf, Others, InsertedKeys, Keys, Does
  <2>4. CASE CheckKey(r) \/ Refused(r) \/ Throws(r)
    <3>1. UNCHANGED <<organizationKeys, permissions>>
      BY <2>4 DEF CheckKey, Refused, Throws, documents
    <3>2. stage'[r] \notin {"addOperators", "deleteKey"}
      BY <1>0, <2>4, KeyStepsMove DEF Moved
    <3>3. QED
      BY <2>0, <3>1, <3>2, OperatorsUntouched
  <2>5. QED
    BY <1>3, <2>0, <2>1, <2>2, <2>3, <2>4, AddOperatorsKeeps, RemoveOperatorKeeps,
       InsertKeysKeeps, FindKeyKeeps, DeleteKeyKeeps DEF Step
<1>4. QED
  BY <1>1, <1>2, <1>3 DEF Next, Finished

\* As long as no two requests of the organization's keys overlap, an operator on
\* the ledger is a DLT key the registrar still holds, whatever fails in between
\* and whatever else is served: the order of the writes in add-key and delete-key.
THEOREM OperatorsAreHeld == Spec => []OperatorsAreKeys
<1>1. Init => ShapeInv /\ OperatorsKept
  BY ShapeInvInit, OperatorsInit
<1>2. ShapeInv /\ OperatorsKept /\ [Next]_vars => (ShapeInv /\ OperatorsKept)'
  BY ShapeInvStep, OperatorsStep
<1>3. OperatorsKept => OperatorsAreKeys
  BY DEF OperatorsKept, OperatorsAreKeys
<1>4. QED
  BY <1>1, <1>2, <1>3, PTL DEF Spec

-----------------------------------------------------------------------------
(***************************************************************************)
(* The keys the registrar holds are in the DID document.                   *)
(***************************************************************************)

\* Requests of keys are served alone.
KeysAlone == overlaps \cap {{"key"}, {"service", "key"}} = {}

\* Before the organization is inserted there is only createOrganization.
AbsentOrganization ==
  organization.status = "absent" =>
    /\ organizationKeys = {}
    /\ \A r \in Request : stage[r] \in Ended \cup {"idle", "insert"}

\* The stages after which a request writes the DID document from its copy.
BeforeDidDoc == {"services", "didDoc", "delete", "checkKey", "findKey", "removeOperator",
                 "deleteKey"}

DidKeysOf(r) ==
  /\ stage[r] \in BeforeDidDoc => loaded[r].didKeys = organization.didKeys
  /\ stage[r] \in {"modify", "addPrimary", "insertKeys"} /\ Does(r, {"create"})
       => NewKeys \subseteq organization.didKeys
  /\ stage[r] = "insertKeys" /\ Does(r, {"addKey"}) => Keys(r) \subseteq organization.didKeys
  /\ stage[r] = "didDoc" /\ Does(r, {"deleteKey"}) => Keys(r) \cap organizationKeys = {}

DidKeysKept ==
  KeysAlone =>
    /\ organization.status = "present" => organizationKeys \ VnfKeys \subseteq organization.didKeys
    /\ \A r \in Request : DidKeysOf(r)

DidInv == ShapeInv /\ AbsentOrganization /\ DidKeysKept

LEMMA AloneBefore ==
  ASSUME KeysAlone', overlaps \subseteq overlaps'
  PROVE  KeysAlone
  BY DEF KeysAlone

\* A request of keys is the only one there is.
LEMMA AloneInFlight ==
  ASSUME ShapeInv, KeysAlone, NEW q \in Request, NEW r \in Request, q # r,
         stage[r] \notin Ended \cup {"idle"}, Does(r, {"create", "addKey", "deleteKey"})
  PROVE  stage[q] \in Ended \cup {"idle"}
<1> SUFFICES ASSUME stage[q] \notin Ended \cup {"idle"} PROVE FALSE
  OBVIOUS
<1>1. q \in InFlight /\ r \in InFlight
  BY DEF InFlight
<1>2. QED
  BY <1>1, KeyRequestsOverlap DEF ShapeInv, KeysAlone

\* A step that leaves the keys, the DID document's keys and the status alone.
LEMMA DidKeysUntouched ==
  ASSUME DidKeysKept, overlaps \subseteq overlaps', NEW r \in Request, Others(r),
         organizationKeys' = organizationKeys,
         organization'.didKeys = organization.didKeys,
         organization'.status = "present" => organization.status = "present",
         KeysAlone' => DidKeysOf(r)'
  PROVE  DidKeysKept'
<1> SUFFICES ASSUME KeysAlone'
             PROVE  /\ organization'.status = "present" =>
                         organizationKeys' \ VnfKeys \subseteq organization'.didKeys
                    /\ \A q \in Request : DidKeysOf(q)'
  BY DEF DidKeysKept
<1>1. KeysAlone
  BY AloneBefore
<1>2. \A q \in Request \ {r} : DidKeysOf(q)'
  BY <1>1 DEF DidKeysKept, DidKeysOf, Others, Keys, Does
<1>3. QED
  BY <1>1, <1>2 DEF DidKeysKept

\* A request that steps alone: those that are not in flight promise nothing.
LEMMA DidKeysAlone ==
  ASSUME ShapeInv, overlaps \subseteq overlaps', NEW r \in Request, Others(r),
         stage[r] \notin Ended \cup {"idle"}, Does(r, {"create", "addKey", "deleteKey"}),
         KeysAlone' => /\ DidKeysOf(r)'
                       /\ organization'.status = "present" =>
                            organizationKeys' \ VnfKeys \subseteq organization'.didKeys
  PROVE  DidKeysKept'
<1> SUFFICES ASSUME KeysAlone' PROVE \A q \in Request \ {r} : DidKeysOf(q)'
  BY DEF DidKeysKept
<1>1. KeysAlone
  BY AloneBefore
<1>2. \A q \in Request \ {r} : stage'[q] \in Ended \cup {"idle"}
  BY <1>1, AloneInFlight DEF Others
<1>3. QED
  BY <1>2 DEF DidKeysOf, BeforeDidDoc, Ended

LEMMA DidKeysEnd ==
  ASSUME NEW r \in Request, stage'[r] \in Ended \cup {"scopes", "profile"}
  PROVE  DidKeysOf(r)'
  BY DEF DidKeysOf, BeforeDidDoc, Ended

LEMMA InsertOrganizationKeeps ==
  ASSUME DidInv, overlaps \subseteq overlaps', NEW r \in Request, InsertOrganization(r)
  PROVE  DidKeysKept'
<1> USE DEF DidInv
<1>1. /\ Others(r) /\ stage'[r] = "modify" /\ operation'[r] = operation[r]
  BY WritesMove DEF ShapeInv, TypeInv
<1>2. stage[r] = "insert" /\ Does(r, {"create"}) /\ organizationKeys' = {}
  BY DEF InsertOrganization, ShapeInv, Shape, ShapeOf, AbsentOrganization
<1>3. organization'.didKeys = NewKeys
  BY DEF InsertOrganization, Created
<1>4. DidKeysOf(r)'
  BY <1>1, <1>3 DEF DidKeysOf, BeforeDidDoc
<1>5. QED
  BY <1>1, <1>2, <1>4, DidKeysAlone DEF Does, Ended

\* Writes of fields other than the DID document.
LEMMA OtherFieldsKeep ==
  ASSUME DidInv, overlaps \subseteq overlaps', NEW r \in Request,
         \/ PushService(r) \/ WriteServices(r) \/ ModifyOrganization(r)
         \/ WriteProfile(r) \/ DeleteOrganization(r)
  PROVE  DidKeysKept'
<1> USE DEF DidInv
<1>0. TypeOK /\ organization \in Document /\ loaded[r] \in Document
  BY TypeParts, OperationTyped DEF ShapeInv, TypeInv
<1>1. Others(r) /\ organizationKeys' = organizationKeys
  BY <1>0, WritesMove, DocumentWritesTyped DEF Moved
<1>2. CASE PushService(r) \/ WriteServices(r)
  <2>1. /\ organization'.didKeys = organization.didKeys
        /\ organization'.status = organization.status
    BY <1>0, <1>2 DEF PushService, WriteServices, Update, Document
  <2>2. stage[r] = "services" /\ Does(r, {"addService", "deleteService"})
    BY <1>2 DEF PushService, WriteServices, Does
  <2>3. Moved(r, {"didDoc"})
    BY <1>0, <1>2, WritesMove
  <2>4. KeysAlone' => DidKeysOf(r)'
    BY <2>1, <2>2, <2>3, AloneBefore
    DEF DidKeysKept, DidKeysOf, BeforeDidDoc, Moved, Does, Ended
  <2>5. QED
    BY <1>1, <2>1, <2>4, DidKeysUntouched
<1>3. CASE ModifyOrganization(r)
  <2>1. /\ organization'.didKeys = organization.didKeys
        /\ organization'.status = organization.status
    BY <1>0, <1>3 DEF ModifyOrganization, Update, Document
  <2>2. Moved(r, {AfterModify(r)}) /\ stage[r] = "modify"
    BY <1>0, <1>3, WritesMove DEF ModifyOrganization
  <2>3. KeysAlone' => DidKeysOf(r)'
    BY <2>1, <2>2, AloneBefore
    DEF DidKeysKept, DidKeysOf, BeforeDidDoc, Moved, Does, AfterModify, Ended
  <2>4. QED
    BY <1>1, <2>1, <2>3, DidKeysUntouched
<1>4. CASE WriteProfile(r)
  <2>1. /\ organization'.didKeys = organization.didKeys
        /\ organization'.status = organization.status
    BY <1>0, <1>4 DEF WriteProfile, Update, Document
  <2>2. DidKeysOf(r)'
    BY <1>0, <1>4, WritesMove, DidKeysEnd DEF Moved, Ended
  <2>3. QED
    BY <1>1, <2>1, <2>2, DidKeysUntouched
<1>5. CASE DeleteOrganization(r)
  <2>1. organization' = [loaded[r] EXCEPT !.status = "deleted"] /\ stage[r] = "delete"
    BY <1>5 DEF DeleteOrganization, Update
  <2>2. organization'.didKeys = loaded[r].didKeys /\ organization'.status = "deleted"
    BY <1>0, <2>1 DEF Document
  <2>3. DidKeysOf(r)'
    BY <1>0, <1>5, WritesMove, DidKeysEnd DEF Moved, Ended
  <2>4. CASE KeysAlone'
    <3>1. organization'.didKeys = organization.didKeys
      BY <2>1, <2>2, <2>4, AloneBefore DEF DidKeysKept, DidKeysOf, BeforeDidDoc
    <3>2. QED
      BY <1>1, <2>2, <2>3, <3>1, DidKeysUntouched
  <2>5. QED
    BY <2>4 DEF DidKeysKept
<1>6. QED
  BY <1>2, <1>3, <1>4, <1>5

\* The DID document written from the copy: the copy has the keys of the document,
\* so that a handler of services leaves them as they are.
LEMMA WriteDidDocKeeps ==
  ASSUME DidInv, overlaps \subseteq overlaps', NEW r \in Request, WriteDidDoc(r)
  PROVE  DidKeysKept'
<1> USE DEF DidInv
<1>0. TypeOK /\ organization \in Document
  BY TypeParts DEF ShapeInv, TypeInv
<1>1. Moved(r, {AfterDidDoc(r)}) /\ organizationKeys' = organizationKeys
  BY <1>0, WritesMove, DocumentWritesTyped
<1>2. stage[r] = "didDoc" /\ organization.status = "present"
  BY DEF WriteDidDoc, Update
<1>3. organization'.didKeys = DidKeys(r) /\ organization'.status = "present"
  BY <1>0 DEF WriteDidDoc, Update, Document
<1>4. KeysAlone => /\ loaded[r].didKeys = organization.didKeys
                   /\ organizationKeys \ VnfKeys \subseteq organization.didKeys
                   /\ Does(r, {"deleteKey"}) => Keys(r) \cap organizationKeys = {}
  BY <1>2 DEF DidKeysKept, DidKeysOf, BeforeDidDoc
<1>5. ~ Does(r, {"create"})
  BY <1>2 DEF ShapeInv, Shape, ShapeOf, Does
<1>6. CASE Does(r, {"addKey", "deleteKey"})
  <2>1. KeysAlone' => organizationKeys' \ VnfKeys \subseteq organization'.didKeys
    BY <1>1, <1>3, <1>4, <1>6, AloneBefore DEF DidKeys, Does
  <2>2. DidKeysOf(r)'
    BY <1>1, <1>3, <1>5, <1>6 DEF Moved, AfterDidDoc, DidKeysOf, BeforeDidDoc, Does, Keys, DidKeys, Ended
  <2>3. QED
    BY <1>1, <1>2, <1>6, <2>1, <2>2, DidKeysAlone DEF Moved, Does, Ended
<1>7. CASE ~ Does(r, {"addKey", "deleteKey"})
  <2>1. DidKeys(r) = loaded[r].didKeys
    BY <1>7 DEF DidKeys, Does
  <2>2. DidKeysOf(r)'
    BY <1>1, <1>5, <1>7 DEF Moved, AfterDidDoc, DidKeysOf, BeforeDidDoc, Does, Ended
  <2>3. CASE KeysAlone'
    <3>1. organization'.didKeys = organization.didKeys
      BY <1>3, <1>4, <2>1, <2>3, AloneBefore
    <3>2. QED
      BY <1>1, <1>2, <2>2, <3>1, DidKeysUntouched DEF Moved
  <2>4. QED
    BY <2>3 DEF DidKeysKept
<1>8. QED
  BY <1>6, <1>7

\* The steps of the keys.
LEMMA KeyStepsKeep ==
  ASSUME DidInv, overlaps \subseteq overlaps', NEW r \in Request,
         \/ AddPrimary(r) \/ CheckKey(r) \/ InsertKeys(r) \/ AddOperators(r) \/ FindKey(r)
         \/ RemoveOperator(r) \/ DeleteKey(r)
  PROVE  DidKeysKept'
<1> USE DEF DidInv
<1>0. TypeOK /\ ShapeOf(r) /\ (KeysAlone' => KeysAlone)
  BY AloneBefore DEF ShapeInv, TypeInv, Shape
<1>1. Does(r, {"create", "addKey", "deleteKey"}) /\ stage[r] \notin Ended \cup {"idle"}
  BY <1>0 DEF ShapeOf, Does, AddPrimary, CheckKey, InsertKeys, AddOperators, FindKey,
              RemoveOperator, DeleteKey, Ended
<1>2. organization' = organization
  BY DEF AddPrimary, CheckKey, InsertKeys, AddOperators, FindKey, RemoveOperator, DeleteKey,
         documents
<1>3. CASE AddPrimary(r) \/ CheckKey(r) \/ AddOperators(r) \/ FindKey(r) \/ RemoveOperator(r)
  <2>1. organizationKeys' = organizationKeys
    BY <1>3 DEF AddPrimary, CheckKey, AddOperators, FindKey, RemoveOperator, documents
  <2>2. CASE AddPrimary(r)
    BY <1>0, <1>1, <1>2, <2>1, <2>2, KeyStepsMove, DidKeysAlone
    DEF AddPrimary, Moved, ShapeOf, DidKeysKept, DidKeysOf, BeforeDidDoc, Does, Ended
  <2>3. CASE CheckKey(r)
    BY <1>0, <1>1, <1>2, <2>1, <2>3, KeyStepsMove, DidKeysAlone
    DEF CheckKey, Moved, ShapeOf, DidKeysKept, DidKeysOf, BeforeDidDoc, Does, Ended
  <2>4. CASE AddOperators(r)
    BY <1>0, <1>1, <1>2, <2>1, <2>4, KeyStepsMove, DidKeysAlone
    DEF Moved, DidKeysKept, DidKeysOf, BeforeDidDoc, Ended
  <2>5. CASE FindKey(r)
    BY <1>0, <1>1, <1>2, <2>1, <2>5, KeyStepsMove, DidKeysAlone
    DEF FindKey, Moved, DidKeysKept, DidKeysOf, BeforeDidDoc, Ended
  <2>6. CASE RemoveOperator(r)
    BY <1>0, <1>1, <1>2, <2>1, <2>6, KeyStepsMove, DidKeysAlone
    DEF RemoveOperator, Moved, DidKeysKept, DidKeysOf, BeforeDidDoc, Ended
  <2>7. QED
    BY <1>3, <2>2, <2>3, <2>4, <2>5, <2>6
<1>4. CASE InsertKeys(r)
  <2>1. Moved(r, {"addOperators", "done"}) /\ stage[r] = "insertKeys"
    BY <1>0, <1>4, KeyStepsMove DEF InsertKeys
  <2>2. DidKeysOf(r)'
    BY <2>1 DEF Moved, DidKeysOf, BeforeDidDoc, Ended
  <2>3. KeysAlone => InsertedKeys(r) \ VnfKeys \subseteq organization.didKeys
    BY <1>0, <2>1 DEF ShapeOf, DidKeysKept, DidKeysOf, InsertedKeys, Does
  <2>4. organizationKeys' = organizationKeys \cup InsertedKeys(r)
    BY <1>4 DEF InsertKeys
  <2>5. QED
    BY <1>0, <1>1, <1>2, <2>1, <2>2, <2>3, <2>4, DidKeysAlone DEF Moved, DidKeysKept
<1>5. CASE DeleteKey(r)
  <2>1. Moved(r, {"didDoc"}) /\ stage[r] = "deleteKey"
    BY <1>0, <1>5, KeyStepsMove DEF DeleteKey
  <2>2. organizationKeys' = organizationKeys \ Keys(r)
    BY <1>5 DEF DeleteKey
  <2>3. KeysAlone => DidKeysOf(r)'
    BY <1>0, <1>2, <2>1, <2>2
    DEF ShapeOf, Moved, DidKeysKept, DidKeysOf, BeforeDidDoc, Does, Keys, Ended
  <2>4. QED
    BY <1>0, <1>1, <1>2, <2>1, <2>2, <2>3, DidKeysAlone DEF Moved, DidKeysKept
<1>6. QED
  BY <1>3, <1>4, <1>5

\* Once it is inserted, the organization is never absent again.
LEMMA AbsentStep ==
  ASSUME ShapeInv, AbsentOrganization, NEW r \in Request, Step(r)
  PROVE  AbsentOrganization'
<1> USE DEF AbsentOrganization, Ended
<1>0. TypeOK /\ organization \in Document /\ ShapeOf(r) /\ Others(r)
  BY TypeParts, ShapeStep DEF ShapeInv, TypeInv, Shape
<1>1. CASE \E o \in Operation : Begin(r, o)
  <2>1. PICK o \in Operation : Begin(r, o)
    BY <1>1
  <2>2. QED
    BY <1>0, <2>1, BeginMoves DEF FirstStage, Others, documents
<1>2. CASE \/ InsertOrganization(r) \/ PushService(r) \/ WriteServices(r)
           \/ WriteDidDoc(r) \/ ModifyOrganization(r) \/ WriteProfile(r)
           \/ DeleteOrganization(r)
  <2>1. InsertOrganization(r) => organization'.status = "present"
    BY DEF InsertOrganization, Created
  <2>2. PushService(r) => organization'.status # "absent"
    BY <1>0 DEF PushService, Document
  <2>3. WriteServices(r) => organization'.status = "present"
    BY <1>0 DEF WriteServices, Update, Document
  <2>4. WriteDidDoc(r) => organization'.status = "present"
    BY <1>0 DEF WriteDidDoc, Update, Document
  <2>5. ModifyOrganization(r) => organization'.status = "present"
    BY <1>0 DEF ModifyOrganization, Update, Document
  <2>6. WriteProfile(r) => organization'.status = "present"
    BY <1>0 DEF WriteProfile, Update, Document
  <2>7. DeleteOrganization(r) => organization'.status = "deleted"
    BY <1>0, OperationTyped, TypeParts DEF DeleteOrganization, Update, Document
  <2>8. QED
    BY <1>2, <2>1, <2>2, <2>3, <2>4, <2>5, <2>6, <2>7
<1>3. CASE \/ AddPrimary(r) \/ CheckKey(r) \/ InsertKeys(r) \/ AddOperators(r)
           \/ FindKey(r) \/ RemoveOperator(r) \/ DeleteKey(r) \/ UpdateScopes(r)
  BY <1>3 DEF AddPrimary, CheckKey, InsertKeys, AddOperators, FindKey, RemoveOperator,
              DeleteKey, UpdateScopes, documents
<1>4. CASE Refused(r) \/ Throws(r)
  BY <1>0, <1>4, KeyStepsMove DEF Moved, Others, Refused, Throws, documents
<1>5. QED
  BY <1>1, <1>2, <1>3, <1>4 DEF Step

LEMMA DidInvInit == Init => DidInv
<1> SUFFICES ASSUME Init PROVE DidInv
  OBVIOUS
<1>1. \A r \in Request : stage[r] = "idle"
  BY DEF Init
<1>2. AbsentOrganization
  BY <1>1 DEF Init, AbsentOrganization, Created, NoDocument, Ended
<1>3. organizationKeys \ VnfKeys \subseteq organization.didKeys
  BY DEF Init, Created, NoDocument
<1>4. DidKeysKept
  BY <1>1, <1>3 DEF DidKeysKept, DidKeysOf, BeforeDidDoc
<1>5. QED
  BY <1>2, <1>4, ShapeInvInit DEF DidInv

LEMMA DidInvStep == DidInv /\ [Next]_vars => DidInv'
<1> SUFFICES ASSUME DidInv, [Next]_vars PROVE DidInv'
  OBVIOUS
<1>0. TypeOK /\ ShapeInv'
  BY ShapeInvStep DEF DidInv, ShapeInv, TypeInv
<1>1. CASE UNCHANGED vars
  BY <1>0, <1>1
  DEF DidInv, AbsentOrganization, DidKeysKept, KeysAlone, DidKeysOf, Keys, Does, vars,
      documents, locals
<1>2. CASE Crash /\ overlaps' = overlaps \cup Overlapping'
  <2>1. \A q \in Request : stage'[q] \in Ended \cup {"idle"}
    BY <1>2 DEF Crash, InFlight, Ended
  <2>2. organization' = organization /\ organizationKeys' = organizationKeys
    BY <1>2 DEF Crash, documents
  <2>3. AbsentOrganization'
    BY <2>1, <2>2 DEF DidInv, AbsentOrganization
  <2>4. \A q \in Request : DidKeysOf(q)'
    BY <2>1 DEF DidKeysOf, BeforeDidDoc, Ended
  <2>5. QED
    BY <1>0, <1>2, <2>2, <2>3, <2>4, AloneBefore DEF DidInv, DidKeysKept
<1>3. ASSUME NEW r \in Request, Step(r), overlaps' = overlaps \cup Overlapping'
      PROVE  DidInv'
  <2>1. AbsentOrganization' /\ Others(r) /\ overlaps \subseteq overlaps'
    BY <1>0, <1>3, AbsentStep, ShapeStep DEF DidInv, ShapeInv
  <2>2. CASE \E o \in Operation : Begin(r, o)
    <3>1. PICK o \in Operation : Begin(r, o)
      BY <2>2
    <3>2. o.handler \in Handler
      BY OperationFields
    <3>3. organization' = organization /\ organizationKeys' = organizationKeys
      BY <1>0, <3>1, BeginMoves DEF documents
    <3>4. DidKeysOf(r)'
      BY <1>0, <3>1, <3>2, <3>3, BeginMoves
      DEF FirstStage, DidKeysOf, BeforeDidDoc, Does, Handler, Ended
    <3>5. QED
      BY <1>0, <2>1, <3>3, <3>4, DidKeysUntouched DEF DidInv
  <2>3. CASE UpdateScopes(r) \/ Refused(r) \/ Throws(r)
    <3>1. organization' = organization /\ organizationKeys' = organizationKeys
      BY <2>3 DEF UpdateScopes, Refused, Throws, documents
    <3>2. DidKeysOf(r)'
      BY <1>0, <2>3, KeyStepsMove, DidKeysEnd DEF Moved, Ended
    <3>3. QED
      BY <1>0, <2>1, <3>1, <3>2, DidKeysUntouched DEF DidInv
  <2>4. QED
    BY <1>0, <1>3, <2>1, <2>2, <2>3, InsertOrganizationKeeps, OtherFieldsKeep,
       WriteDidDocKeeps, KeyStepsKeep DEF DidInv, Step
<1>4. QED
  BY <1>1, <1>2, <1>3 DEF Next, Finished

\* As long as a request of the organization's keys is served alone, every key the
\* registrar holds, but its own two, is in the DID document, whatever fails in
\* between: the order of the writes in add-key and delete-key, and the DID
\* document the handlers of services write back.
THEOREM HeldKeysResolve == Spec => []KeysInDidDoc
<1>1. DidInv => KeysInDidDoc
  BY DEF DidInv, DidKeysKept, KeysAlone, KeysInDidDoc
<1>2. QED
  BY DidInvInit, DidInvStep, <1>1, PTL DEF Spec

\* The registrar's calls keep the contract's roles consistent: an account the
\* registrar's keys act for is one that addPrimary was called with.
THEOREM RegistrarKeepsPrimaries == Spec => []OperatorsHavePrimaries
<1>1. TypeInv => OperatorsHavePrimaries
  BY DEF TypeInv
<1>2. QED
  BY TypeInit, TypeStep, <1>1, PTL DEF Spec
-----------------------------------------------------------------------------
(***************************************************************************)
(* A change of the services that reaches the ledger.                       *)
(***************************************************************************)

\* The document the last update returned.
LEMMA UpdatedMoves ==
  ASSUME TypeOK, NEW r \in Request, stage'[r] \notin Ended
  PROVE  /\ WriteDidDoc(r) \/ ModifyOrganization(r) => updated'[r] = organization'
         /\ PushService(r) \/ WriteServices(r) \/ AddPrimary(r) \/ InsertKeys(r) \/ AddOperators(r)
              => updated'[r] = updated[r]
<1> USE TypeParts
<1>1. ASSUME WriteDidDoc(r) PROVE updated'[r] = organization'
  <2>1. AfterDidDoc(r) \notin Ended
    BY <1>1, WritesMove DEF Moved
  <2>2. QED
    BY <1>1, <2>1 DEF WriteDidDoc, Update, LocalsTyped
<1>2. ASSUME ModifyOrganization(r) PROVE updated'[r] = organization'
  <2>1. AfterModify(r) \notin Ended
    BY <1>2, WritesMove DEF Moved
  <2>2. QED
    BY <1>2, <2>1 DEF ModifyOrganization, Update, LocalsTyped
<1>3. ASSUME NEW s \in Stage, Continue(r, s) PROVE updated'[r] = updated[r]
  <2>1. s \notin Ended
    BY <1>3, ContinueMoves DEF Moved
  <2>2. QED
    BY <1>3, <2>1 DEF Continue
<1>4. ASSUME NEW s \in Stage, Answered(r, s) PROVE updated'[r] = updated[r]
  <2>1. ~ End(r, "failed")
    BY EndMoves DEF Moved, Ended
  <2>2. QED
    BY <1>3, <1>4, <2>1 DEF Answered
<1>5. PushService(r) \/ WriteServices(r) \/ AddPrimary(r) \/ InsertKeys(r) \/ AddOperators(r)
        => updated'[r] = updated[r]
  BY <1>3, <1>4 DEF PushService, WriteServices, AddPrimary, InsertKeys, AddOperators, Stage
<1>6. QED
  BY <1>1, <1>2, <1>5

\* The fields that changes of the services write.
SameServices == /\ organization'.services = organization.services
                /\ organization'.activated = organization.activated
                /\ organization'.permitted = organization.permitted

\* The stages of the requests that do.
Pushed(r) == stage[r] = "didDoc" /\ Does(r, {"addService"})

Modified(r) == \/ stage[r] \in {"addPrimary", "scopes"}
               \/ stage[r] \in {"insertKeys", "addOperators"} /\ Does(r, {"create"})

InChange(r) ==
  \/ stage[r] \in {"insert", "services", "modify", "profile", "delete"}
  \/ Pushed(r)
  \/ Modified(r)

\* A request works on the services and the categories of the document, and once
\* it has modified it, its activated ids and categories agree.
ChangeOf(r) ==
  /\ stage[r] = "services" => /\ loaded[r].permitted = organization.permitted
                              /\ ServicesIn(loaded[r]) = ServicesIn(organization)
  /\ Pushed(r) => /\ loaded[r].permitted = organization.permitted
                  /\ ServicesIn(organization) = ServicesIn(loaded[r]) \cup Services(r)
  /\ stage[r] = "modify" => /\ KnownServices(r) = ServicesIn(organization)
                            /\ Base(r).permitted = organization.permitted
  /\ Modified(r) => /\ organization.activated \subseteq ServicesIn(organization)
                    /\ organization.permitted = Category(organization.activated)
                    /\ updated[r].permitted = organization.permitted

\* The organization has no scope but those the registrar gives and takes.
KnownScopes == scopes \subseteq PermissionsOf(ServiceCategory)

ChangesKept == {"service"} \notin overlaps => \A r \in Request : ChangeOf(r)

\* A change of the services is served alone, but for requests of keys.
LEMMA ChangesAlone ==
  ASSUME ShapeInv, {"service"} \notin overlaps, NEW q \in Request, NEW r \in Request, q # r,
         InChange(r)
  PROVE  ~ InChange(q)
<1> SUFFICES ASSUME InChange(q) PROVE FALSE
  OBVIOUS
<1>1. ASSUME NEW p \in Request, InChange(p)
      PROVE  p \in InFlight /\ "service" \in Kinds(operation[p])
  <2>1. p \in InFlight
    BY <1>1 DEF InFlight, InChange, Pushed, Modified, Ended
  <2>2. ~ Does(p, KeyHandlers)
    BY <1>1 DEF ShapeInv, Shape, ShapeOf, InChange, Pushed, Modified, Does, KeyHandlers
  <2>3. QED
    BY <2>1, <2>2 DEF Kinds, Does
<1>2. /\ q \in InFlight /\ "service" \in Kinds(operation[q])
      /\ r \in InFlight /\ "service" \in Kinds(operation[r])
  BY <1>1
<1>3. {"service"} = {"service", "service"} /\ {"service"} \in SUBSET {"service", "key"}
  OBVIOUS
<1>4. {"service"} \in Overlapping
  BY <1>2, <1>3 DEF Overlapping
<1>5. QED
  BY <1>4 DEF ShapeInv, OverlapsKept

\* The step of a request in a change: nobody else is in one.
LEMMA ChangeByOne ==
  ASSUME ShapeInv, overlaps \subseteq overlaps', NEW r \in Request, Others(r), InChange(r),
         {"service"} \notin overlaps' => ChangeOf(r)'
  PROVE  ChangesKept'
<1> SUFFICES ASSUME {"service"} \notin overlaps' PROVE \A q \in Request \ {r} : ChangeOf(q)'
  BY DEF ChangesKept
<1>1. \A q \in Request \ {r} : ~ InChange(q)
  BY ChangesAlone
<1>2. \A q \in Request \ {r} : ~ InChange(q)'
  BY <1>1 DEF Others, InChange, Pushed, Modified, Does
<1>3. QED
  BY <1>2 DEF InChange, ChangeOf

\* A step that leaves the three fields alone.
LEMMA ChangeUntouched ==
  ASSUME ChangesKept, overlaps \subseteq overlaps', NEW r \in Request, Others(r), SameServices,
         {"service"} \notin overlaps' => ChangeOf(r)'
  PROVE  ChangesKept'
<1> SUFFICES ASSUME {"service"} \notin overlaps' PROVE \A q \in Request \ {r} : ChangeOf(q)'
  BY DEF ChangesKept
<1>1. ServicesIn(organization)' = ServicesIn(organization)
  BY DEF SameServices, ServicesIn
<1>2. ASSUME NEW q \in Request \ {r} PROVE ChangeOf(q)'
  <2>1. /\ ChangeOf(q)
        /\ stage'[q] = stage[q] /\ operation'[q] = operation[q]
        /\ loaded'[q] = loaded[q] /\ updated'[q] = updated[q]
    BY DEF ChangesKept, Others
  <2>2. /\ Pushed(q)' <=> Pushed(q)
        /\ Modified(q)' <=> Modified(q)
        /\ Services(q)' = Services(q)
        /\ KnownServices(q)' = KnownServices(q)
        /\ Base(q)' = Base(q)
        /\ ServicesIn(loaded[q])' = ServicesIn(loaded[q])
    BY <2>1 DEF Pushed, Modified, Services, KnownServices, Base, Does, ServicesIn
  <2>3. QED
    BY <1>1, <2>1, <2>2 DEF ChangeOf, SameServices
<1>3. QED
  BY <1>2

\* The writes of the document.
LEMMA ChangeWrites ==
  ASSUME ShapeInv, ChangesKept, overlaps \subseteq overlaps', NEW r \in Request,
         \/ InsertOrganization(r) \/ PushService(r) \/ WriteServices(r) \/ ModifyOrganization(r)
         \/ WriteProfile(r) \/ DeleteOrganization(r)
  PROVE  ChangesKept'
<1>0. /\ TypeOK /\ organization \in Document /\ loaded[r] \in Document
      /\ Services(r) \in SUBSET ServiceId /\ ShapeOf(r)
  BY TypeParts, OperationTyped DEF ShapeInv, TypeInv, Shape
<1>1. InChange(r)
  BY DEF InsertOrganization, PushService, WriteServices, ModifyOrganization, WriteProfile,
         DeleteOrganization, InChange
<1>2. CASE InsertOrganization(r)
  <2>1. Others(r) /\ stage'[r] = "modify" /\ Does(r, {"create"})'
    BY <1>0, <1>2, WritesMove DEF InsertOrganization, ShapeOf, Does
  <2>2. loaded'[r] = organization'
    BY <1>0, <1>2, TypeParts DEF InsertOrganization, LocalsTyped
  <2>3. ChangeOf(r)'
    BY <2>1, <2>2 DEF ChangeOf, Pushed, Modified, KnownServices, Base, Does, ServicesIn
  <2>4. QED
    BY <1>1, <2>1, <2>3, ChangeByOne
<1>3. CASE PushService(r)
  <2>1. Moved(r, {"didDoc"}) /\ stage[r] = "services"
    BY <1>0, <1>3, WritesMove DEF PushService
  <2>2. /\ organization'.permitted = organization.permitted
        /\ organization'.services = [s \in ServiceId |->
             IF s \in Services(r) THEN organization.services[s] + 1
                                  ELSE organization.services[s]]
    BY <1>0, <1>3 DEF PushService, Document
  <2>3. ServicesIn(organization)' = ServicesIn(organization) \cup Services(r)
    BY <1>0, <2>2 DEF ServicesIn, Document
  <2>4. {"service"} \notin overlaps' => ChangeOf(r)'
    BY <2>1, <2>2, <2>3
    DEF ChangesKept, ChangeOf, Moved, Pushed, Modified, Does, ServicesIn, Services, Ended
  <2>5. QED
    BY <1>1, <2>1, <2>4, ChangeByOne DEF Moved
<1>4. CASE WriteServices(r)
  <2>1. Moved(r, {"didDoc"}) /\ Does(r, {"deleteService"})
    BY <1>0, <1>4, WritesMove DEF WriteServices
  <2>2. ChangeOf(r)'
    BY <2>1 DEF ChangeOf, Moved, Pushed, Modified, Does, Ended
  <2>3. QED
    BY <1>1, <2>1, <2>2, ChangeByOne DEF Moved
<1>5. CASE ModifyOrganization(r)
  <2> DEFINE categories == Category(ActivatedServices(r))
  <2>1. Moved(r, {AfterModify(r)}) /\ stage[r] = "modify"
    BY <1>0, <1>5, WritesMove DEF ModifyOrganization
  <2>2. /\ organization'.services = organization.services
        /\ organization'.activated = ActivatedServices(r)
        /\ organization'.permitted = IF categories = Base(r).permitted
                                       THEN organization.permitted ELSE categories
        /\ ActivatedServices(r) \subseteq KnownServices(r)
    BY <1>0, <1>5 DEF ModifyOrganization, Update, Document
  <2>3. stage'[r] \notin Ended => updated'[r] = organization'
    BY <1>0, <1>5, UpdatedMoves
  <2> HIDE DEF categories
  <2>4. CASE {"service"} \notin overlaps'
    <3>1. /\ KnownServices(r) = ServicesIn(organization)
          /\ Base(r).permitted = organization.permitted
      BY <2>1, <2>4 DEF ChangesKept, ChangeOf
    <3>2. /\ organization'.activated \subseteq ServicesIn(organization)'
          /\ organization'.permitted = Category(ActivatedServices(r))
      BY <2>2, <3>1 DEF ServicesIn, categories
    <3>3. ChangeOf(r)'
      BY <2>1, <2>2, <2>3, <3>2
      DEF ChangeOf, Moved, Pushed, Modified, AfterModify, Category, Ended
    <3>4. QED
      BY <1>1, <2>1, <3>3, ChangeByOne DEF Moved
  <2>5. QED
    BY <2>4 DEF ChangesKept
<1>6. CASE WriteProfile(r) \/ DeleteOrganization(r)
  <2>1. Moved(r, {"done"})
    BY <1>0, <1>6, WritesMove
  <2>2. ChangeOf(r)'
    BY <2>1 DEF ChangeOf, Moved, Pushed, Modified
  <2>3. QED
    BY <1>1, <2>1, <2>2, ChangeByOne DEF Moved
<1>7. QED
  BY <1>2, <1>3, <1>4, <1>5, <1>6

\* The DID document holds none of the three fields.
LEMMA ChangeWriteDidDoc ==
  ASSUME ShapeInv, ChangesKept, overlaps \subseteq overlaps', NEW r \in Request, WriteDidDoc(r)
  PROVE  ChangesKept'
<1>0. TypeOK /\ organization \in Document /\ ShapeOf(r)
  BY TypeParts DEF ShapeInv, TypeInv, Shape
<1>1. Moved(r, {AfterDidDoc(r)}) /\ stage[r] = "didDoc"
  BY <1>0, WritesMove DEF WriteDidDoc
<1>2. SameServices
  BY <1>0 DEF WriteDidDoc, Update, Document, SameServices
<1>3. ASSUME {"service"} \notin overlaps', stage'[r] = "modify" PROVE ChangeOf(r)'
  <2>1. Does(r, {"addService", "deleteService"}) /\ operation'[r] = operation[r]
          /\ loaded'[r] = loaded[r]
    BY <1>1, <1>3 DEF Moved, AfterDidDoc, Does, Ended
  <2>2. CASE Does(r, {"addService"})
    <3>1. /\ loaded[r].permitted = organization.permitted
          /\ ServicesIn(organization) = ServicesIn(loaded[r]) \cup Services(r)
      BY <1>1, <1>3, <2>2 DEF ChangesKept, ChangeOf, Pushed
    <3>2. Base(r)' = loaded[r] /\ KnownServices(r)' = ServicesIn(loaded[r]) \cup Services(r)
      BY <2>1, <2>2 DEF Base, KnownServices, Services, Does, ServicesIn
    <3>3. QED
      BY <1>2, <1>3, <3>1, <3>2 DEF SameServices, ServicesIn, ChangeOf, Pushed, Modified
  <2>3. CASE Does(r, {"deleteService"})
    <3>1. updated'[r] = organization'
      BY <1>0, <1>3, UpdatedMoves DEF Ended
    <3>2. Base(r)' = organization' /\ KnownServices(r)' = ServicesIn(organization')
      BY <2>1, <2>3, <3>1 DEF Base, KnownServices, Does, ServicesIn
    <3>3. QED
      BY <1>3, <3>2 DEF ServicesIn, ChangeOf, Pushed, Modified
  <2>4. QED
    BY <2>1, <2>2, <2>3 DEF Does
<1>4. stage'[r] # "modify" => ChangeOf(r)'
  BY <1>1 DEF Moved, AfterDidDoc, ChangeOf, Pushed, Modified, Does, Ended
<1>5. QED
  BY <1>1, <1>2, <1>3, <1>4, ChangeUntouched DEF Moved

\* Keys, the ledger and the ends of requests.
LEMMA ChangeOtherSteps ==
  ASSUME ShapeInv, ChangesKept, overlaps \subseteq overlaps', NEW r \in Request,
         \/ AddPrimary(r) \/ CheckKey(r) \/ InsertKeys(r) \/ AddOperators(r) \/ FindKey(r)
         \/ RemoveOperator(r) \/ DeleteKey(r) \/ UpdateScopes(r) \/ Refused(r) \/ Throws(r)
  PROVE  ChangesKept'
<1>0. TypeOK /\ ShapeOf(r)
  BY TypeParts DEF ShapeInv, TypeInv, Shape
<1>1. organization' = organization
  BY DEF AddPrimary, CheckKey, InsertKeys, AddOperators, FindKey, RemoveOperator, DeleteKey,
         UpdateScopes, Refused, Throws, documents
<1>2. SameServices
  BY <1>1 DEF SameServices
<1>3. CASE AddPrimary(r) \/ InsertKeys(r) \/ AddOperators(r)
  <2>1. Moved(r, {"insertKeys", "addOperators", "scopes", "done", "failed"})
    BY <1>0, <1>3, KeyStepsMove DEF Moved
  <2>2. ASSUME stage'[r] \notin Ended, Modified(r)'
        PROVE  Modified(r) /\ updated'[r] = updated[r]
    <3>1. /\ updated'[r] = updated[r]
          /\ operation'[r] = operation[r]
      BY <1>0, <1>3, <2>1, <2>2, UpdatedMoves DEF Moved
    <3>2. CASE AddPrimary(r)
      BY <3>1, <3>2 DEF AddPrimary, Modified
    <3>3. CASE InsertKeys(r)
      <4>1. stage'[r] = "addOperators"
        BY <1>0, <2>2, <3>3, KeyStepsMove DEF Moved, Ended
      <4>2. QED
        BY <2>2, <3>1, <3>3, <4>1 DEF InsertKeys, Modified, Does
    <3>4. CASE AddOperators(r)
      <4>1. Does(r, {"create"})
        BY <1>0, <2>2, <3>4, KeyStepsMove DEF Moved, Ended
      <4>2. QED
        BY <3>1, <3>4, <4>1 DEF AddOperators, Modified
    <3>5. QED
      BY <1>3, <3>2, <3>3, <3>4
  <2>3. {"service"} \notin overlaps' => ChangeOf(r)'
    BY <1>1, <2>1, <2>2
    DEF ChangesKept, ChangeOf, Moved, Pushed, Modified, Does, ServicesIn, Ended
  <2>4. QED
    BY <1>2, <2>1, <2>3, ChangeUntouched DEF Moved
<1>4. CASE CheckKey(r) \/ FindKey(r) \/ RemoveOperator(r) \/ DeleteKey(r)
  <2>1. /\ Moved(r, {"didDoc", "removeOperator", "deleteKey", "failed"})
        /\ Does(r, KeyHandlers)
    BY <1>0, <1>4, KeyStepsMove
    DEF Moved, CheckKey, FindKey, RemoveOperator, DeleteKey, ShapeOf, Does, KeyHandlers
  <2>2. ChangeOf(r)'
    BY <2>1 DEF Moved, ChangeOf, Pushed, Modified, Does, KeyHandlers, Ended
  <2>3. QED
    BY <1>2, <2>1, <2>2, ChangeUntouched DEF Moved
<1>5. CASE UpdateScopes(r) \/ Refused(r) \/ Throws(r)
  <2>1. Moved(r, {"done", "failed"})
    BY <1>0, <1>5, KeyStepsMove DEF Moved
  <2>2. ChangeOf(r)'
    BY <2>1 DEF Moved, ChangeOf, Pushed, Modified
  <2>3. QED
    BY <1>2, <2>1, <2>2, ChangeUntouched DEF Moved
<1>6. QED
  BY <1>3, <1>4, <1>5

\* A request that begins has the document as it is.
LEMMA ChangeBegins ==
  ASSUME ShapeInv, ChangesKept, overlaps \subseteq overlaps', NEW r \in Request,
         NEW o \in Operation, Begin(r, o)
  PROVE  ChangesKept'
<1>0. TypeOK /\ o.handler \in Handler
  BY TypeParts, OperationFields DEF ShapeInv, TypeInv
<1>1. Others(r) /\ organization' = organization
  BY <1>0, BeginMoves DEF documents
<1>2. CASE stage'[r] \in Ended
  BY <1>1, <1>2, ChangeUntouched
  DEF SameServices, ChangeOf, Pushed, Modified, Ended
<1>3. CASE stage'[r] \notin Ended
  <2>1. /\ stage'[r] = FirstStage(o, organization)
        /\ operation'[r] = o
        /\ loaded'[r] = organization
    BY <1>0, <1>3, BeginMoves
  <2>2. /\ stage'[r] \notin {"addPrimary", "scopes", "insertKeys", "addOperators"}
        /\ stage'[r] = "didDoc" => o.handler = "updateService"
        /\ stage'[r] = "modify" => o.handler \in {"activateServices", "deactivateServices"}
    BY <1>0, <2>1 DEF FirstStage, Handler
  <2>3. stage'[r] = "modify" => /\ Base(r)' = organization
                                /\ KnownServices(r)' = ServicesIn(organization)
    BY <2>1, <2>2 DEF Base, KnownServices, Does, ServicesIn
  <2>4. ChangeOf(r)'
    BY <1>1, <2>1, <2>2, <2>3 DEF ChangeOf, Pushed, Modified, Does, ServicesIn
  <2>5. QED
    BY <1>1, <2>4, ChangeUntouched DEF SameServices
<1>4. QED
  BY <1>2, <1>3

LEMMA ChangesStep == ShapeInv /\ ChangesKept /\ [Next]_vars => ChangesKept'
<1> SUFFICES ASSUME ShapeInv, ChangesKept, [Next]_vars PROVE ChangesKept'
  OBVIOUS
<1>1. CASE UNCHANGED vars
  BY <1>1 DEF vars, documents, locals, ChangesKept, ChangeOf, Pushed, Modified, KnownServices,
              Base, ServicesIn, Services, Does
<1>2. CASE Crash /\ overlaps' = overlaps \cup Overlapping'
  <2>1. \A q \in Request : stage'[q] \in Ended \cup {"idle"}
    BY <1>2 DEF Crash, InFlight, Ended
  <2>2. \A q \in Request : ChangeOf(q)'
    BY <2>1 DEF ChangeOf, Pushed, Modified, Ended
  <2>3. QED
    BY <2>2 DEF ChangesKept
<1>3. ASSUME NEW r \in Request, Step(r), overlaps' = overlaps \cup Overlapping'
      PROVE  ChangesKept'
  BY <1>3, ChangeWrites, ChangeWriteDidDoc, ChangeOtherSteps, ChangeBegins DEF Step
<1>4. QED
  BY <1>1, <1>2, <1>3 DEF Next, Finished

LEMMA ChangesInit == Init => ChangesKept
  BY DEF Init, ChangesKept, ChangeOf, Pushed, Modified

\* The scopes of the organization are those of its last update of them.
LEMMA ScopesMove ==
  ASSUME TypeOK, KnownScopes, NEW r \in Request, UpdateScopes(r)
  PROVE  scopes' = PermissionsOf(updated[r].permitted) /\ KnownScopes'
<1> DEFINE granted == PermissionsOf(updated[r].permitted)
           all == PermissionsOf(ServiceCategory)
<1>1. updated[r].permitted \in SUBSET ServiceCategory
  BY TypeParts, OperationTyped DEF Document
<1>2. granted \subseteq all
  BY <1>1 DEF PermissionsOf
<1>3. updateAddressScopes(Deployer, Account, granted, all \ granted)
  BY DEF UpdateScopes
<1>4. addressToPermissions \in [Address -> SUBSET Scope]
  BY TypeParts DEF PermissionsTypeOK
<1> HIDE DEF granted, all
<1>5. scopes' = (scopes \cup granted) \ (all \ granted)
  BY <1>3, <1>4, Addresses DEF updateAddressScopes, scopes
<1>6. scopes' = granted
  BY <1>2, <1>5 DEF KnownScopes, all
<1>7. QED
  BY <1>2, <1>6 DEF KnownScopes, granted, all

\* No other step gives or takes a scope.
LEMMA ScopesStay ==
  ASSUME TypeOK, NEW r \in Request, Step(r), ~ UpdateScopes(r)
  PROVE  scopes' = scopes
<1>1. CASE \/ InsertOrganization(r) \/ PushService(r) \/ WriteServices(r)
           \/ WriteDidDoc(r) \/ ModifyOrganization(r) \/ WriteProfile(r)
           \/ DeleteOrganization(r)
  BY <1>1, DocumentWritesTyped DEF permissions, scopes
<1>2. CASE AddPrimary(r) \/ AddOperators(r) \/ RemoveOperator(r)
  BY <1>2
  DEF AddPrimary, AddOperators, RemoveOperator, addPrimary, ChangeOperators, scopes
<1>3. CASE CheckKey(r) \/ InsertKeys(r) \/ FindKey(r) \/ DeleteKey(r)
  BY <1>3, KeyStepsTyped DEF permissions, scopes
<1>4. CASE (\E o \in Operation : Begin(r, o)) \/ Refused(r) \/ Throws(r)
  BY <1>4, RequestEndsTyped DEF permissions, scopes
<1>5. QED
  BY <1>1, <1>2, <1>3, <1>4 DEF Step

LEMMA KnownScopesInit == Init => KnownScopes
<1> SUFFICES ASSUME Init PROVE KnownScopes
  OBVIOUS
<1>1. CASE PermissionsInit
  BY <1>1, Addresses DEF PermissionsInit, KnownScopes, scopes
<1>2. CASE ~ PermissionsInit
  <2>1. PICK activated \in SUBSET ServiceId :
          addressToPermissions = [a \in Address |->
            IF a = Account THEN PermissionsOf(Category(activated)) ELSE {}]
    BY <1>2 DEF Init
  <2>2. scopes = PermissionsOf(Category(activated))
    BY <2>1, Addresses DEF scopes
  <2>3. QED
    BY <2>2, CategoriesOfServices DEF KnownScopes, PermissionsOf
<1>3. QED
  BY <1>1, <1>2

LEMMA KnownScopesStep == TypeInv /\ KnownScopes /\ [Next]_vars => KnownScopes'
<1> SUFFICES ASSUME TypeInv, KnownScopes, [Next]_vars PROVE KnownScopes'
  OBVIOUS
<1>1. CASE UNCHANGED vars \/ Crash
  BY <1>1 DEF Crash, vars, permissions, KnownScopes, scopes
<1>2. ASSUME NEW r \in Request, Step(r) PROVE KnownScopes'
  BY <1>2, ScopesMove, ScopesStay DEF TypeInv, KnownScopes
<1>3. QED
  BY <1>1, <1>2 DEF Next, Finished

\* A change of the services that reaches the ledger while no other one is served
\* leaves the activated ids, the categories and the scopes agreeing, whatever
\* failed before it and whatever requests of keys are served meanwhile: the
\* handlers read again what they modify, and every scope is given or taken.
THEOREM CompletedChangesAgree == Spec => CompletedChangeAgrees
<1>1. Init => ShapeInv /\ ChangesKept /\ KnownScopes
  BY ShapeInvInit, ChangesInit, KnownScopesInit
<1>2. ShapeInv /\ ChangesKept /\ KnownScopes /\ [Next]_vars
        => (ShapeInv /\ ChangesKept /\ KnownScopes)'
  BY ShapeInvStep, ChangesStep, KnownScopesStep DEF ShapeInv
<1>3. ASSUME ShapeInv, ChangesKept, KnownScopes, [Next]_vars
      PROVE  [\A r \in Request :
                (stage[r] = "scopes" /\ stage'[r] = "done" /\ {"service"} \notin overlaps)
                  => /\ organization.activated \subseteq ServicesIn(organization)
                     /\ organization.permitted = Category(organization.activated)
                     /\ scopes' = PermissionsOf(organization.permitted)]_vars
  <2>0. TypeOK
    BY <1>3 DEF ShapeInv, TypeInv
  <2> SUFFICES ASSUME Next, NEW r \in Request, stage[r] = "scopes", stage'[r] = "done",
                      {"service"} \notin overlaps
               PROVE  /\ organization.activated \subseteq ServicesIn(organization)
                      /\ organization.permitted = Category(organization.activated)
                      /\ scopes' = PermissionsOf(organization.permitted)
    BY <1>3
  <2>1. Modified(r) /\ ChangeOf(r)
    BY <1>3 DEF Modified, ChangesKept
  <2>2. ~ Crash /\ ~ Finished
    BY DEF Crash, Finished, vars, InFlight, Ended
  <2>3. PICK q \in Request : Step(q)
    BY <2>2 DEF Next
  <2>4. q = r
    BY <1>3, <2>0, <2>3, ShapeStep DEF ShapeInv, Others
  <2>5. UpdateScopes(r)
    <3>1. ~ Refused(r) /\ ~ Throws(r)
      BY <2>0, KeyStepsMove DEF Moved
    <3>2. QED
      BY <2>3, <2>4, <3>1
      DEF Step, Begin, InsertOrganization, PushService, WriteServices, WriteDidDoc,
          ModifyOrganization, WriteProfile, DeleteOrganization, AddPrimary, CheckKey,
          InsertKeys, AddOperators, FindKey, RemoveOperator, DeleteKey
  <2>6. QED
    BY <1>3, <2>0, <2>1, <2>5, ScopesMove DEF ChangeOf
<1>4. QED
  BY <1>1, <1>2, <1>3, PTL DEF Spec, CompletedChangeAgrees

-----------------------------------------------------------------------------
(***************************************************************************)
(* Requests served one at a time, without an error.                        *)
(***************************************************************************)

Serial == faults = 0 /\ overlaps = {}

\* What every request finds and leaves.
DocumentAgrees(doc) ==
  /\ \A s \in ServiceId : doc.services[s] <= 1
  /\ doc.didServices = ServicesIn(doc)
  /\ doc.activated \subseteq ServicesIn(doc)
  /\ doc.permitted = Category(doc.activated)
  /\ doc.status = "present" => doc.account
  /\ doc.status # "present" => doc.activated = {}

KeysAgree == organization.didKeys = organizationKeys \ VnfKeys
ScopesAgree == scopes = PermissionsOf(organization.permitted)
Unregistered == \A k \in NewKeys : operatorToPrimary[k] = Zero

Settled ==
  /\ DocumentAgrees(organization)
  /\ KeysAgree
  /\ ScopesAgree
  /\ organization.status = "absent" => organizationKeys = {} /\ Unregistered

\* Before the first write: the copy is the document.
Unchanged(r) == Settled /\ organization = loaded[r] /\ organization.status = "present"

\* Before the DID document is written: it is to hold the services there are, and
\* the keys there are with the one that is added.
WritingDid(r) ==
  /\ organization.status = "present" /\ organization.account
  /\ \A s \in ServiceId : organization.services[s] <= 1
  /\ ServicesIn(organization) = DidServices(r)
  /\ ActivatedServices(r) \subseteq DidServices(r)
  /\ organization.activated = loaded[r].activated
  /\ organization.permitted = Category(organization.activated)
  /\ ScopesAgree
  /\ Does(r, {"addService"}) => Services(r) \cap loaded[r].didServices = {}
  /\ DidKeys(r) = (organizationKeys \ VnfKeys) \cup (IF Does(r, {"addKey"}) THEN Keys(r) ELSE {})

\* Before the activated ids are written.
ReadyToModify(r) ==
  /\ organization.status = "present"
  /\ \A s \in ServiceId : organization.services[s] <= 1
  /\ organization.didServices = ServicesIn(organization)
  /\ ActivatedServices(r) \subseteq KnownServices(r)

\* The keys createOrganization has not inserted yet.
FreshKeys == organization.didKeys = NewKeys /\ organizationKeys = {} /\ Unregistered

\* Once they are written.
HasModified(r) == DocumentAgrees(organization) /\ organization.status = "present" /\ updated[r].account

Creating(r) ==
  /\ stage[r] = "insert" => Settled /\ organization.status = "absent"
  /\ stage[r] = "modify" => ReadyToModify(r) /\ FreshKeys
  /\ stage[r] \in {"addPrimary", "insertKeys", "addOperators"} => HasModified(r)
  /\ stage[r] \in {"addPrimary", "insertKeys"} => FreshKeys
  /\ stage[r] \in {"insertKeys", "addOperators"} => primaryToPermissioning[Account] = PermissioningKey
  /\ stage[r] = "addOperators" => /\ organization.didKeys = NewKeys
                                  /\ organizationKeys = NewKeys \cup VnfKeys
                                  /\ Unregistered

Changing(r) ==
  /\ stage[r] \in {"services", "profile", "delete", "checkKey", "findKey", "removeOperator",
                   "deleteKey"} => Unchanged(r)
  /\ stage[r] = "services" => /\ Does(r, {"addService"}) => Services(r) \cap ServicesIn(loaded[r]) = {}
  /\ stage[r] = "delete" => loaded[r].activated = {}
  /\ stage[r] = "didDoc" => WritingDid(r)
  /\ stage[r] = "insertKeys" =>
       /\ DocumentAgrees(organization) /\ organization.status = "present" /\ ScopesAgree
       /\ organization.didKeys = (organizationKeys \ VnfKeys) \cup Keys(r)
  /\ stage[r] = "addOperators" => Settled /\ organization.status = "present"
  /\ stage[r] = "modify" => /\ ReadyToModify(r) /\ KeysAgree /\ ScopesAgree
                            /\ organization.account
                            /\ organization.activated = loaded[r].activated
                            /\ organization.permitted = Category(organization.activated)

Serving(r) ==
  /\ Does(r, {"create"}) => Creating(r)
  /\ ~ Does(r, {"create"}) => Changing(r)
  /\ stage[r] = "scopes" => HasModified(r) /\ KeysAgree

\* At most one request is served, and the step it has reached says what agrees.
SettledKept ==
  Serial => /\ \A q, r \in InFlight : q = r
            /\ InFlight = {} => Settled
            /\ \A r \in InFlight : Serving(r)

\* What holds of a request after a step of its own.
Serves(r) == /\ stage[r] \in Ended => Settled
             /\ stage[r] \notin Ended => Serving(r)

\* What the steps are taken from.
SerialContext == ShapeInv /\ ChangesKept /\ KnownScopes /\ Serial

LEMMA SettledStays ==
  ASSUME Settled, UNCHANGED <<documents, permissions>>
  PROVE  Settled'
  BY DEF Settled, documents, permissions, DocumentAgrees, KeysAgree, ScopesAgree, scopes,
         Unregistered, ServicesIn, Category

\* The keys createOrganization makes, by their purposes.
LEMMA MadeKeys ==
  /\ NewKeys \cap VnfKeys = {}
  /\ (NewKeys \cup VnfKeys) \cap PermissioningKeys = {PermissioningKey}
  /\ (NewKeys \cup VnfKeys) \cap DltKeys \subseteq NewKeys
<1>1. \A k \in NewKeys : "PERMISSIONING" \notin PurposesOf[k] /\ "ROTATION" \notin PurposesOf[k]
  BY KeysAssumption
<1>2. "PERMISSIONING" \in PurposesOf[PermissioningKey] /\ "ROTATION" \in PurposesOf[RotationKey]
  BY KeysAssumption
<1>3. "DLT_TRANSACTIONS" \notin PurposesOf[PermissioningKey] /\ "DLT_TRANSACTIONS" \notin PurposesOf[RotationKey]
  BY KeysAssumption
<1>4. "PERMISSIONING" \notin PurposesOf[RotationKey]
  BY KeysAssumption
<1>5. NewKeys \cap VnfKeys = {}
  BY <1>1, <1>2 DEF VnfKeys
<1>6. (NewKeys \cup VnfKeys) \cap PermissioningKeys = {PermissioningKey}
  BY <1>1, <1>2, <1>4, KeysAssumption DEF VnfKeys, PermissioningKeys
<1>7. QED
  BY <1>3, <1>5, <1>6 DEF VnfKeys, DltKeys

LEMMA InsertServes ==
  ASSUME SerialContext, NEW r \in Request, Serving(r), InsertOrganization(r)
  PROVE  Serves(r)'
<1>0. TypeOK /\ ShapeOf(r) /\ Services(r) \in SUBSET ServiceId
  BY TypeParts, OperationTyped DEF SerialContext, ShapeInv, TypeInv, Shape
<1>1. stage[r] = "insert" /\ Does(r, {"create"}) /\ Settled /\ organization.status = "absent"
  BY <1>0 DEF InsertOrganization, ShapeOf, Serving, Creating
<1>2. stage'[r] = "modify" /\ operation'[r] = operation[r]
  BY <1>0, WritesMove
<1>3. /\ loaded'[r] = organization'
      /\ organization'.status = "present"
      /\ organization'.services = [s \in ServiceId |-> IF s \in Services(r) THEN 1 ELSE 0]
      /\ organization'.didServices = Services(r)
      /\ organization'.didKeys = NewKeys
      /\ organization'.activated = {}
      /\ UNCHANGED <<organizationKeys, permissions>>
  BY <1>0, TypeParts DEF InsertOrganization, Created, LocalsTyped
<1>4. ServicesIn(organization') = Services(r)
  BY <1>0, <1>3 DEF ServicesIn
<1>5. /\ ActivatedServices(r)' \subseteq Services(r)
      /\ KnownServices(r)' = Services(r)
  BY <1>1, <1>2, <1>3, <1>4
  DEF ActivatedServices, KnownServices, Base, Does, Services, ServicesIn
<1>6. ReadyToModify(r)'
  BY <1>0, <1>3, <1>4, <1>5 DEF ReadyToModify, ServicesIn
<1>7. FreshKeys'
  BY <1>1, <1>3 DEF FreshKeys, Settled, Unregistered, permissions
<1>8. Creating(r)'
  BY <1>2, <1>6, <1>7 DEF Creating
<1>9. QED
  BY <1>1, <1>2, <1>8 DEF Serves, Serving, Does, Ended

\* A service pushed onto the array, or the array without it.
LEMMA ServicesServe ==
  ASSUME SerialContext, NEW r \in Request, Serving(r), PushService(r) \/ WriteServices(r)
  PROVE  Serves(r)'
<1>0. /\ TypeOK /\ ShapeOf(r) /\ organization \in Document /\ loaded[r] \in Document
      /\ Services(r) \in SUBSET ServiceId /\ Keys(r) \in SUBSET KeyId
  BY TypeParts, OperationTyped DEF SerialContext, ShapeInv, TypeInv, Shape
<1>1. stage[r] = "services" /\ Does(r, {"addService", "deleteService"})
  BY <1>0 DEF PushService, WriteServices, ShapeOf
<1>2. /\ Unchanged(r)
      /\ Does(r, {"addService"}) => Services(r) \cap ServicesIn(loaded[r]) = {}
  BY <1>1 DEF Serving, Changing, Does
<1>3. Moved(r, {"didDoc"})
  BY <1>0, WritesMove
<1>4. stage'[r] = "didDoc" /\ operation'[r] = operation[r] /\ loaded'[r] = loaded[r]
  BY <1>3 DEF Moved, Ended
<1>5. /\ organization'.status = "present"
      /\ organization'.account = organization.account
      /\ organization'.activated = organization.activated
      /\ organization'.permitted = organization.permitted
      /\ UNCHANGED <<organizationKeys, permissions>>
  BY <1>0, <1>2 DEF PushService, WriteServices, Update, Document, Unchanged
<1>6. /\ \A s \in ServiceId : organization'.services[s] <= 1
      /\ ServicesIn(organization') = DidServices(r)
  <2>1. /\ \A s \in ServiceId : loaded[r].services[s] \in Nat /\ loaded[r].services[s] <= 1
        /\ loaded[r].didServices = ServicesIn(loaded[r])
    BY <1>0, <1>2 DEF Unchanged, Settled, DocumentAgrees, Document
  <2>2. CASE PushService(r)
    <3>1. organization'.services = [s \in ServiceId |->
            IF s \in Services(r) THEN organization.services[s] + 1 ELSE organization.services[s]]
      BY <1>0, <2>2 DEF PushService, Document
    <3>2. organization.services = loaded[r].services /\ Does(r, {"addService"})
      BY <1>2, <2>2 DEF Unchanged, PushService
    <3>3. \A s \in Services(r) : loaded[r].services[s] = 0
      BY <1>0, <1>2, <2>1, <3>2 DEF ServicesIn
    <3>4. QED
      BY <1>0, <2>1, <3>1, <3>2, <3>3 DEF DidServices, ServicesIn
  <2>3. CASE WriteServices(r)
    <3>1. organization'.services = [s \in ServiceId |->
            IF s \in Services(r) THEN 0 ELSE loaded[r].services[s]]
      BY <1>0, <2>3 DEF WriteServices, Update, Document
    <3>2. Does(r, {"deleteService"}) /\ ~ Does(r, {"addService"})
      BY <2>3 DEF WriteServices, Does
    <3>3. QED
      BY <1>0, <2>1, <3>1, <3>2 DEF DidServices, ServicesIn
  <2>4. QED
    BY <2>2, <2>3
<1>7. /\ ActivatedServices(r) \subseteq DidServices(r)
      /\ DidKeys(r) = organizationKeys \ VnfKeys
  <2>1. /\ loaded[r].activated \subseteq loaded[r].didServices
        /\ loaded[r].didKeys = organizationKeys \ VnfKeys
    BY <1>2 DEF Unchanged, Settled, DocumentAgrees, KeysAgree
  <2>2. QED
    BY <1>1, <2>1 DEF ActivatedServices, DidServices, DidKeys, Does
<1>8. WritingDid(r)'
  <2>1. /\ DidServices(r)' = DidServices(r) /\ DidKeys(r)' = DidKeys(r)
        /\ ActivatedServices(r)' = ActivatedServices(r)
        /\ Services(r)' = Services(r)
        /\ Does(r, {"addService"})' <=> Does(r, {"addService"})
        /\ ~ Does(r, {"addKey"})'
    BY <1>1, <1>4 DEF DidServices, DidKeys, ActivatedServices, Services, Keys, Does
  <2>2. /\ organization.account
        /\ organization.activated = loaded[r].activated
        /\ organization.permitted = Category(organization.activated)
        /\ scopes = PermissionsOf(organization.permitted)
        /\ loaded[r].didServices = ServicesIn(loaded[r])
    BY <1>2 DEF Unchanged, Settled, DocumentAgrees, ScopesAgree
  <2>3. scopes' = PermissionsOf(organization'.permitted)
    BY <1>5, <2>2 DEF scopes, permissions
  <2>4. organization'.permitted = Category(organization'.activated)
    BY <1>5, <2>2
  <2>5. ServicesIn(organization)' = ServicesIn(organization')
    BY DEF ServicesIn
  <2>6. QED
    BY <1>2, <1>4, <1>5, <1>6, <1>7, <2>1, <2>2, <2>3, <2>4, <2>5
    DEF WritingDid, ScopesAgree, Category, PermissionsOf
<1>9. Changing(r)'
  BY <1>4, <1>8 DEF Changing
<1>10. QED
  BY <1>1, <1>4, <1>9 DEF Serves, Serving, Does, Ended

\* The DID document gets the services and the keys there are.
LEMMA DidDocServes ==
  ASSUME SerialContext, NEW r \in Request, Serving(r), WriteDidDoc(r)
  PROVE  Serves(r)'
<1>0. TypeOK /\ ShapeOf(r) /\ organization \in Document /\ Keys(r) \in SUBSET KeyId
  BY TypeParts, OperationTyped DEF SerialContext, ShapeInv, TypeInv, Shape
<1>1. /\ stage[r] = "didDoc"
      /\ Does(r, {"addService", "deleteService", "updateService", "addKey", "deleteKey"})
  BY <1>0 DEF WriteDidDoc, ShapeOf
<1>2. WritingDid(r)
  BY <1>1 DEF Serving, Changing, Does
<1>3. Moved(r, {AfterDidDoc(r)})
  BY <1>0, WritesMove
<1>4. /\ organization'.status = "present" /\ organization'.account
      /\ organization'.services = organization.services
      /\ organization'.activated = organization.activated
      /\ organization'.permitted = organization.permitted
      /\ organization'.didServices = DidServices(r)
      /\ organization'.didKeys = DidKeys(r)
      /\ UNCHANGED <<organizationKeys, permissions>>
  BY <1>0, <1>2 DEF WriteDidDoc, Update, Document, WritingDid
<1>5. /\ \A s \in ServiceId : organization'.services[s] <= 1
      /\ organization'.didServices = ServicesIn(organization')
      /\ organization'.permitted = Category(organization'.activated)
      /\ scopes' = PermissionsOf(organization'.permitted)
      /\ organization'.didKeys = (organizationKeys' \ VnfKeys)
                                   \cup (IF Does(r, {"addKey"}) THEN Keys(r) ELSE {})
  BY <1>2, <1>4 DEF WritingDid, ServicesIn, ScopesAgree, scopes, permissions
<1>6. CASE Does(r, {"addService", "deleteService"})
  <2>1. stage'[r] = "modify" /\ operation'[r] = operation[r] /\ loaded'[r] = loaded[r]
    BY <1>3, <1>6 DEF Moved, AfterDidDoc, Does, Ended
  <2>2. KnownServices(r)' = ServicesIn(organization')
    <3>1. CASE Does(r, {"addService"})
      <4>1. KnownServices(r)' = ServicesIn(loaded[r]) \cup Services(r)
        BY <2>1, <3>1 DEF KnownServices, Base, Does, Services, ServicesIn
      <4>2. ServicesIn(organization) = ServicesIn(loaded[r]) \cup Services(r)
        BY <1>1, <3>1 DEF SerialContext, Serial, ChangesKept, ChangeOf, Pushed
      <4>3. QED
        BY <1>4, <4>1, <4>2 DEF ServicesIn
    <3>2. CASE Does(r, {"deleteService"})
      <4>1. updated'[r] = organization'
        BY <1>0, <2>1, UpdatedMoves DEF Ended
      <4>2. QED
        BY <2>1, <3>2, <4>1 DEF KnownServices, Base, Does, ServicesIn
    <3>3. QED
      BY <1>6, <3>1, <3>2 DEF Does
  <2>3. ActivatedServices(r)' = ActivatedServices(r)
    BY <1>6, <2>1 DEF ActivatedServices, Services, Does
  <2>4. ReadyToModify(r)'
    BY <1>2, <1>4, <1>5, <2>2, <2>3 DEF ReadyToModify, WritingDid, ServicesIn
  <2>5. KeysAgree' /\ ScopesAgree' /\ organization'.activated = loaded'[r].activated
    BY <1>2, <1>4, <1>5, <1>6, <2>1
    DEF KeysAgree, ScopesAgree, WritingDid, Does, PermissionsOf
  <2>6. Changing(r)'
    BY <1>4, <1>5, <2>1, <2>4, <2>5 DEF Changing, Category
  <2>7. QED
    BY <1>6, <2>1, <2>6 DEF Serves, Serving, Does, Ended
<1>7. CASE Does(r, {"updateService", "addKey", "deleteKey"})
  <2>1. organization'.activated \subseteq ServicesIn(organization')
    <3>1. ActivatedServices(r) = loaded[r].activated
      BY <1>7 DEF ActivatedServices, Does
    <3>2. QED
      BY <1>2, <1>4, <3>1 DEF WritingDid, ServicesIn
  <2>2. DocumentAgrees(organization')
    BY <1>4, <1>5, <2>1 DEF DocumentAgrees, Category, ServicesIn
  <2>3. CASE Does(r, {"addKey"})
    <3>1. stage'[r] = "insertKeys" /\ operation'[r] = operation[r]
      BY <1>3, <2>3 DEF Moved, AfterDidDoc, Does, Ended
    <3>2. Changing(r)'
      BY <1>4, <1>5, <2>2, <2>3, <3>1
      DEF Changing, ScopesAgree, DocumentAgrees, PermissionsOf, Keys, ServicesIn, Category
    <3>3. QED
      BY <2>3, <3>1, <3>2 DEF Serves, Serving, Does, Ended
  <2>4. CASE ~ Does(r, {"addKey"})
    <3>1. stage'[r] = "done"
      BY <1>3, <1>7, <2>4 DEF Moved, AfterDidDoc, Does
    <3>2. Settled'
      BY <1>4, <1>5, <2>2, <2>4
      DEF Settled, KeysAgree, ScopesAgree, DocumentAgrees, PermissionsOf, ServicesIn, Category
    <3>3. QED
      BY <3>1, <3>2 DEF Serves, Ended
  <2>5. QED
    BY <2>3, <2>4
<1>8. QED
  BY <1>1, <1>6, <1>7 DEF Does

\* The activated ids and their categories.
LEMMA ModifyServes ==
  ASSUME SerialContext, NEW r \in Request, Serving(r), ModifyOrganization(r)
  PROVE  Serves(r)'
<1> DEFINE categories == Category(ActivatedServices(r))
<1>0. /\ TypeOK /\ ShapeOf(r) /\ organization \in Document
      /\ ActivatedServices(r) \in SUBSET ServiceId
  BY TypeParts, ActivatedTyped DEF SerialContext, ShapeInv, TypeInv, Shape
<1>1. stage[r] = "modify"
  BY DEF ModifyOrganization
<1>2. /\ KnownServices(r) = ServicesIn(organization)
      /\ Base(r).permitted = organization.permitted
  BY <1>1 DEF SerialContext, Serial, ChangesKept, ChangeOf
<1>3. ReadyToModify(r) /\ (~ Does(r, {"create"}) => organization.account)
  BY <1>1 DEF Serving, Creating, Changing
<1>4. Moved(r, {AfterModify(r)})
  BY <1>0, WritesMove
<1>5. /\ organization'.services = organization.services
      /\ organization'.didServices = organization.didServices
      /\ organization'.didKeys = organization.didKeys
      /\ organization'.status = "present"
      /\ organization'.account
      /\ organization'.activated = ActivatedServices(r)
      /\ organization'.permitted = categories
      /\ UNCHANGED <<organizationKeys, permissions>>
  <2>1. /\ organization'.services = organization.services
        /\ organization'.didServices = organization.didServices
        /\ organization'.didKeys = organization.didKeys
        /\ organization'.status = organization.status
        /\ organization'.account = (organization.account \/ Does(r, {"create"}))
        /\ organization'.activated = ActivatedServices(r)
        /\ organization'.permitted = IF categories = Base(r).permitted
                                       THEN organization.permitted ELSE categories
        /\ UNCHANGED <<organizationKeys, permissions>>
    BY <1>0 DEF ModifyOrganization, Update, Document
  <2> HIDE DEF categories
  <2>2. QED
    BY <1>2, <1>3, <2>1 DEF ReadyToModify
<1>6. DocumentAgrees(organization')
  BY <1>2, <1>3, <1>5 DEF DocumentAgrees, ReadyToModify, ServicesIn
<1>7. CASE AfterModify(r) \in Ended
  <2>1. Does(r, {"addService"}) /\ ~ operation[r].auto
    BY <1>7 DEF AfterModify, Ended
  <2>2. /\ KeysAgree /\ ScopesAgree
        /\ organization.activated = loaded[r].activated
        /\ organization.permitted = Category(organization.activated)
    BY <1>1, <2>1 DEF Serving, Changing, Does
  <2>3. ActivatedServices(r) = organization.activated
    BY <2>1, <2>2 DEF ActivatedServices, Does
  <2>4. organization'.permitted = organization.permitted
    BY <1>5, <2>2, <2>3
  <2>5. KeysAgree' /\ ScopesAgree'
    BY <1>5, <2>2, <2>4 DEF KeysAgree, ScopesAgree, scopes, permissions, PermissionsOf
  <2>6. Settled'
    BY <1>5, <1>6, <2>5 DEF Settled, DocumentAgrees, ServicesIn, Category
  <2>7. QED
    BY <1>4, <1>7, <2>6 DEF Serves, Moved
<1>8. CASE AfterModify(r) \notin Ended
  <2>1. /\ stage'[r] = AfterModify(r) /\ operation'[r] = operation[r]
        /\ updated'[r] = organization'
    BY <1>0, <1>4, <1>8, UpdatedMoves DEF Moved
  <2>2. HasModified(r)'
    BY <1>5, <1>6, <2>1 DEF HasModified, DocumentAgrees, ServicesIn, Category
  <2>3. CASE Does(r, {"create"})
    <3>1. stage'[r] = "addPrimary" /\ FreshKeys
      BY <1>1, <2>1, <2>3 DEF AfterModify, Serving, Creating, Does
    <3>2. FreshKeys'
      BY <1>5, <3>1 DEF FreshKeys, Unregistered, permissions
    <3>3. QED
      BY <2>1, <2>2, <2>3, <3>1, <3>2 DEF Serves, Serving, Creating, Does, Ended
  <2>4. CASE ~ Does(r, {"create"})
    <3>1. stage'[r] = "scopes" /\ KeysAgree
      BY <1>1, <1>8, <2>1, <2>4 DEF AfterModify, Serving, Changing, Does, Ended
    <3>2. KeysAgree'
      BY <1>5, <3>1 DEF KeysAgree
    <3>3. QED
      BY <2>1, <2>2, <2>4, <3>1, <3>2 DEF Serves, Serving, Changing, Does, Ended
  <2>5. QED
    BY <2>3, <2>4
<1>9. QED
  BY <1>7, <1>8

\* The categories and the whole document, from a copy that is the document.
LEMMA CopyServes ==
  ASSUME SerialContext, NEW r \in Request, Serving(r), WriteProfile(r) \/ DeleteOrganization(r)
  PROVE  Serves(r)'
<1>0. /\ TypeOK /\ ShapeOf(r) /\ organization \in Document
  BY TypeParts DEF SerialContext, ShapeInv, TypeInv, Shape
<1>1. /\ stage[r] \in {"profile", "delete"}
      /\ WriteProfile(r) => stage[r] = "profile"
      /\ DeleteOrganization(r) => stage[r] = "delete"
  BY DEF WriteProfile, DeleteOrganization
<1>2. Unchanged(r) /\ (stage[r] = "delete" => loaded[r].activated = {})
  BY <1>0, <1>1 DEF ShapeOf, Serving, Changing, Does
<1>3. Moved(r, {"done"})
  BY <1>0, WritesMove
<1>4. UNCHANGED <<organizationKeys, permissions>>
  BY DEF WriteProfile, DeleteOrganization
<1>5. CASE WriteProfile(r)
  <2>1. organization' = organization
    BY <1>0, <1>2, <1>5 DEF WriteProfile, Update, Unchanged, Document
  <2>2. QED
    BY <1>2, <1>3, <1>4, <2>1, SettledStays DEF Unchanged, Serves, Moved, Ended, documents
<1>6. CASE DeleteOrganization(r)
  <2>1. /\ organization'.status = "deleted"
        /\ organization'.services = organization.services
        /\ organization'.didServices = organization.didServices
        /\ organization'.didKeys = organization.didKeys
        /\ organization'.activated = organization.activated
        /\ organization'.permitted = organization.permitted
        /\ organization.activated = {}
    BY <1>0, <1>1, <1>2, <1>6 DEF DeleteOrganization, Update, Unchanged, Document
  <2>2. DocumentAgrees(organization) /\ KeysAgree /\ ScopesAgree
    BY <1>2 DEF Unchanged, Settled
  <2>3. DocumentAgrees(organization)'
    BY <2>1, <2>2 DEF DocumentAgrees, ServicesIn, Category
  <2>4. KeysAgree' /\ ScopesAgree'
    BY <1>4, <2>1, <2>2 DEF KeysAgree, ScopesAgree, scopes, permissions, PermissionsOf
  <2>5. QED
    BY <1>3, <2>1, <2>3, <2>4 DEF Settled, Serves, Moved, Ended
<1>7. QED
  BY <1>5, <1>6

\* A transaction that is answered.
LEMMA AnsweredOn ==
  ASSUME TypeOK, faults' = 0, NEW r \in Request, NEW s \in Stage, Answered(r, s)
  PROVE  Moved(r, {s})
<1>1. ~ Fault
  BY TypeParts, BoundsAssumption DEF Fault
<1>2. QED
  BY <1>1, ContinueMoves, TypeParts DEF Answered

\* createOrganization's keys: the primary, the keys and the operators.
LEMMA CreateKeysServe ==
  ASSUME SerialContext, Serial', NEW r \in Request, Serving(r), Does(r, {"create"}),
         AddPrimary(r) \/ InsertKeys(r) \/ AddOperators(r)
  PROVE  Serves(r)'
<1>0. TypeOK /\ ShapeOf(r)
  BY TypeParts DEF SerialContext, ShapeInv, TypeInv, Shape
<1>1. Creating(r)
  BY DEF Serving
<1>2. organization' = organization
  BY DEF AddPrimary, InsertKeys, AddOperators, documents
<1>3. HasModified(r) /\ organization.didKeys = NewKeys /\ Unregistered
  BY <1>1 DEF Creating, FreshKeys, AddPrimary, InsertKeys, AddOperators
<1>4. ASSUME NEW s \in Stage \ Ended, Moved(r, {s})
      PROVE  /\ stage'[r] = s /\ operation'[r] = operation[r] /\ HasModified(r)'
             /\ Does(r, {"create"})'
  <2>1. stage'[r] = s /\ operation'[r] = operation[r]
    BY <1>4 DEF Moved
  <2>2. updated'[r] = updated[r]
    BY <1>0, <1>4, <2>1, UpdatedMoves
  <2>3. QED
    BY <1>2, <1>3, <2>1, <2>2 DEF HasModified, DocumentAgrees, ServicesIn, Category, Does
<1>5. CASE AddPrimary(r)
  <2>1. Moved(r, {"insertKeys"})
    BY <1>0, <1>5, AnsweredOn DEF AddPrimary, Serial, Stage
  <2>2. /\ primaryToPermissioning'[Account] = PermissioningKey
        /\ UNCHANGED <<organizationKeys, operatorToPrimary>>
    BY <1>0, <1>5, Addresses, TypeParts
    DEF AddPrimary, addPrimary, documents, PermissionsTypeOK
  <2>3. FreshKeys'
    BY <1>1, <1>2, <1>5, <2>2 DEF AddPrimary, Creating, FreshKeys, Unregistered
  <2>4. QED
    BY <1>4, <2>1, <2>2, <2>3 DEF Serves, Serving, Creating, Stage, Ended
<1>6. CASE InsertKeys(r)
  <2>1. Moved(r, {"addOperators"})
    <3>1. Continue(r, "addOperators")
      BY <1>6 DEF InsertKeys
    <3>2. QED
      BY <1>0, <3>1, ContinueMoves, TypeParts DEF Stage
  <2>2. /\ organizationKeys = {} /\ organizationKeys' = organizationKeys \cup InsertedKeys(r)
        /\ primaryToPermissioning[Account] = PermissioningKey
        /\ UNCHANGED permissions
    BY <1>1, <1>6 DEF InsertKeys, Creating, FreshKeys
  <2>3. organizationKeys' = NewKeys \cup VnfKeys
    BY <2>2 DEF InsertedKeys
  <2>4. QED
    BY <1>2, <1>3, <1>4, <2>1, <2>2, <2>3
    DEF Serves, Serving, Creating, Unregistered, permissions, Stage, Ended
<1>7. CASE AddOperators(r)
  <2>1. Moved(r, {"scopes"})
    <3>1. Answered(r, "scopes")
      BY <1>7 DEF AddOperators
    <3>2. QED
      BY <1>0, <3>1, AnsweredOn DEF Serial, Stage
  <2>2. organizationKeys = NewKeys \cup VnfKeys /\ organizationKeys' = organizationKeys
    BY <1>1, <1>7 DEF AddOperators, Creating, documents
  <2>3. KeysAgree'
    BY <1>2, <1>3, <2>2, MadeKeys DEF KeysAgree
  <2>4. QED
    BY <1>4, <2>1, <2>3 DEF Serves, Serving, Creating, Stage, Ended
<1>8. QED
  BY <1>5, <1>6, <1>7

\* The keys of add-key and delete-key.
LEMMA KeysServe ==
  ASSUME SerialContext, Serial', NEW r \in Request, Serving(r), ~ Does(r, {"create"}),
         \/ InsertKeys(r) \/ AddOperators(r) \/ CheckKey(r) \/ FindKey(r)
         \/ RemoveOperator(r) \/ DeleteKey(r)
  PROVE  Serves(r)'
<1>0. /\ TypeOK /\ ShapeOf(r) /\ loaded[r] \in Document
      /\ organization \in Document /\ Keys(r) \in SUBSET KeyId
  BY TypeParts, OperationTyped DEF SerialContext, ShapeInv, TypeInv, Shape
<1>1. Changing(r)
  BY DEF Serving
<1>2. organization' = organization /\ scopes' = scopes
  BY DEF InsertKeys, AddOperators, CheckKey, FindKey, RemoveOperator, DeleteKey, documents,
         permissions, ChangeOperators, scopes
<1>3. ASSUME DocumentAgrees(organization), ScopesAgree, KeysAgree', organization.status = "present"
      PROVE  Settled' /\ organization'.status = "present"
  BY <1>2, <1>3
  DEF Settled, DocumentAgrees, ScopesAgree, ServicesIn, Category, PermissionsOf
<1>4. ASSUME Unchanged(r), UNCHANGED organizationKeys, stage'[r] \notin Ended => loaded'[r] = loaded[r]
      PROVE  Settled' /\ (stage'[r] \notin Ended => Unchanged(r)')
  <2>1. KeysAgree'
    BY <1>2, <1>4 DEF Unchanged, Settled, KeysAgree
  <2>2. Settled' /\ organization'.status = "present"
    BY <1>3, <1>4, <2>1 DEF Unchanged, Settled
  <2>3. QED
    BY <1>2, <1>4, <2>2 DEF Unchanged
<1>5. ASSUME Unchanged(r), Does(r, KeyHandlers)
      PROVE  /\ organization.account
             /\ \A s \in ServiceId : organization.services[s] <= 1
             /\ ServicesIn(organization) = DidServices(r)
             /\ ActivatedServices(r) \subseteq DidServices(r)
             /\ organization.activated = loaded[r].activated
             /\ organization.permitted = Category(organization.activated)
             /\ ScopesAgree
             /\ loaded[r].didKeys = organizationKeys \ VnfKeys
  BY <1>5 DEF Unchanged, Settled, DocumentAgrees, KeysAgree, DidServices, ActivatedServices,
              Does, KeyHandlers
<1>6. CASE InsertKeys(r)
  <2>1. stage[r] = "insertKeys" /\ Does(r, {"addKey"})
    BY <1>0, <1>6 DEF InsertKeys, ShapeOf, Does
  <2>2. Moved(r, {"addOperators", "done"})
    BY <1>0, <1>6, KeyStepsMove
  <2>3. organizationKeys' = organizationKeys \cup Keys(r)
    BY <1>6 DEF InsertKeys, InsertedKeys
  <2>4. Keys(r) \cap VnfKeys = {}
    <3>1. operation[r] \in Operation
      BY <1>0, <2>1, TypeParts DEF LocalsTyped, Does, NoOperation
    <3>2. QED
      BY <2>1, <3>1, OperationFields DEF Keys, Does
  <2>5. /\ DocumentAgrees(organization) /\ organization.status = "present" /\ ScopesAgree
        /\ organization.didKeys = (organizationKeys \ VnfKeys) \cup Keys(r)
    BY <1>1, <2>1 DEF Changing
  <2>6. KeysAgree'
    BY <1>2, <2>3, <2>4, <2>5 DEF KeysAgree
  <2>7. Settled' /\ organization'.status = "present"
    BY <1>3, <2>5, <2>6
  <2>8. QED
    BY <2>1, <2>2, <2>7 DEF Moved, Serves, Serving, Changing, Does, Ended
<1>7. CASE AddOperators(r)
  <2>1. Moved(r, {"done", "failed"})
    BY <1>0, <1>7, KeyStepsMove
  <2>2. /\ Settled /\ organization.status = "present"
        /\ UNCHANGED organizationKeys
    BY <1>1, <1>7 DEF AddOperators, Changing, documents
  <2>3. KeysAgree'
    BY <1>2, <2>2 DEF Settled, KeysAgree
  <2>4. Settled'
    BY <1>3, <2>2, <2>3 DEF Settled
  <2>5. QED
    BY <2>1, <2>4 DEF Moved, Serves, Ended
<1>8. CASE CheckKey(r)
  <2>1. /\ stage[r] = "checkKey" /\ Does(r, {"addKey"}) /\ Unchanged(r)
        /\ UNCHANGED organizationKeys
    BY <1>0, <1>1, <1>8 DEF CheckKey, ShapeOf, Changing, documents
  <2>2. Moved(r, {"didDoc", "failed"})
    BY <1>0, <1>8, KeyStepsMove
  <2>3. CASE stage'[r] \in Ended
    BY <1>4, <2>1, <2>3 DEF Serves
  <2>4. CASE stage'[r] \notin Ended
    <3>1. stage'[r] = "didDoc" /\ operation'[r] = operation[r] /\ loaded'[r] = loaded[r]
      BY <2>2, <2>4 DEF Moved, Ended
    <3>2. DidKeys(r) = (organizationKeys \ VnfKeys) \cup Keys(r)
      BY <1>5, <2>1 DEF DidKeys, Does, KeyHandlers
    <3>3. WritingDid(r)'
      BY <1>2, <1>5, <2>1, <3>1, <3>2
      DEF WritingDid, Unchanged, DidServices, DidKeys, ActivatedServices, Services, Keys,
          Does, KeyHandlers, ScopesAgree, ServicesIn, Category, PermissionsOf
    <3>4. QED
      BY <2>1, <3>1, <3>3 DEF Serves, Serving, Changing, Does, Ended
  <2>5. QED
    BY <2>3, <2>4
<1>9. CASE FindKey(r) \/ RemoveOperator(r)
  <2>1. /\ stage[r] \in {"findKey", "removeOperator"} /\ Does(r, {"deleteKey"}) /\ Unchanged(r)
        /\ UNCHANGED organizationKeys
    BY <1>0, <1>1, <1>9 DEF FindKey, RemoveOperator, ShapeOf, Changing, documents
  <2>2. Moved(r, {"removeOperator", "deleteKey", "failed"})
    BY <1>0, <1>9, KeyStepsMove DEF Moved
  <2>3. Settled' /\ (stage'[r] \notin Ended => Unchanged(r)')
    BY <1>4, <2>1, <2>2 DEF Moved
  <2>4. QED
    BY <2>1, <2>2, <2>3 DEF Moved, Serves, Serving, Changing, Does, Ended
<1>10. CASE DeleteKey(r)
  <2>1. /\ stage[r] = "deleteKey" /\ Does(r, {"deleteKey"}) /\ Unchanged(r)
        /\ organizationKeys' = organizationKeys \ Keys(r)
    BY <1>0, <1>1, <1>10 DEF DeleteKey, ShapeOf, Changing
  <2>2. Moved(r, {"didDoc"})
    BY <1>0, <1>10, KeyStepsMove
  <2>3. stage'[r] = "didDoc" /\ operation'[r] = operation[r] /\ loaded'[r] = loaded[r]
    BY <2>2 DEF Moved, Ended
  <2>4. DidKeys(r) = organizationKeys' \ VnfKeys
    BY <1>5, <2>1 DEF DidKeys, Does, KeyHandlers
  <2>5. WritingDid(r)'
    BY <1>2, <1>5, <2>1, <2>3, <2>4
    DEF WritingDid, Unchanged, DidServices, DidKeys, ActivatedServices, Services, Keys,
        Does, KeyHandlers, ScopesAgree, ServicesIn, Category, PermissionsOf
  <2>6. QED
    BY <2>1, <2>3, <2>5 DEF Serves, Serving, Changing, Does, Ended
<1>11. QED
  BY <1>6, <1>7, <1>8, <1>9, <1>10

\* The scopes, by the categories of the document the last update returned.
LEMMA ScopesServe ==
  ASSUME SerialContext, Serial', NEW r \in Request, Serving(r), UpdateScopes(r)
  PROVE  Serves(r)'
<1>0. TypeOK /\ stage[r] = "scopes"
  BY DEF SerialContext, ShapeInv, TypeInv, UpdateScopes
<1>1. Moved(r, {"done"})
  BY <1>0, AnsweredOn DEF UpdateScopes, Serial, Stage
<1>2. HasModified(r) /\ KeysAgree /\ updated[r].permitted = organization.permitted
  BY <1>0 DEF Serving, SerialContext, Serial, ChangesKept, ChangeOf, Modified
<1>3. UNCHANGED documents /\ scopes' = PermissionsOf(organization.permitted)
  BY <1>0, <1>2, ScopesMove DEF SerialContext, UpdateScopes
<1>4. KeysAgree' /\ ScopesAgree' /\ DocumentAgrees(organization)' /\ organization'.status = "present"
  BY <1>2, <1>3
  DEF KeysAgree, ScopesAgree, DocumentAgrees, HasModified, documents, ServicesIn, Category,
      PermissionsOf
<1>5. QED
  BY <1>1, <1>4 DEF Settled, Serves, Moved, Ended

\* The code's own refusals come before the first write, or after the last one.
LEMMA RefusedServes ==
  ASSUME SerialContext, NEW r \in Request, Serving(r), Refused(r)
  PROVE  Serves(r)'
<1>0. TypeOK /\ ShapeOf(r)
  BY DEF SerialContext, ShapeInv, TypeInv, Shape
<1>1. Moved(r, {"failed"}) /\ UNCHANGED <<documents, permissions>>
  BY <1>0, KeyStepsMove DEF Refused
<1>2. Settled
  <2>1. ASSUME stage[r] = "didDoc" PROVE WritingDid(r)
    BY <1>0, <2>1 DEF ShapeOf, Serving, Changing, Does
  <2>2. ASSUME stage[r] = "modify" PROVE ReadyToModify(r)
    BY <2>2 DEF Serving, Creating, Changing
  <2>3. ASSUME stage[r] \in {"services", "profile", "delete", "removeOperator"}
        PROVE  Unchanged(r)
    BY <1>0, <2>3 DEF ShapeOf, Serving, Changing, Does
  <2>4. ASSUME stage[r] = "scopes" PROVE updated[r].account
    BY <2>4 DEF Serving, HasModified
  <2>5. CASE stage[r] = "addOperators" /\ ~ Does(r, {"create"})
    BY <2>5 DEF Serving, Changing
  <2>6. ASSUME stage[r] = "addOperators", Does(r, {"create"}) PROVE FALSE
    <3>1. /\ organizationKeys = NewKeys \cup VnfKeys /\ Unregistered
          /\ primaryToPermissioning[Account] = PermissioningKey
      BY <2>6 DEF Serving, Creating
    <3>2. Signers(r) = {PermissioningKey}
      BY <2>6, <3>1, MadeKeys DEF Signers
    <3>3. InsertedKeys(r) \cap DltKeys \subseteq NewKeys
      BY <2>6, MadeKeys DEF InsertedKeys
    <3>4. QED
      BY <2>6, <3>1, <3>2, <3>3 DEF Refused, OnlyPermissions, Unregistered
  <2>7. CASE stage[r] \in {"didDoc", "modify", "profile", "delete", "services", "scopes"}
    BY <2>1, <2>2, <2>3, <2>4, <2>7
    DEF Refused, WritingDid, ReadyToModify, Unchanged, Settled
  <2>8. stage[r] \in {"didDoc", "modify", "profile", "delete", "services", "scopes",
                      "addOperators", "removeOperator"}
    BY DEF Refused
  <2>9. QED
    BY <2>3, <2>5, <2>6, <2>7, <2>8 DEF Unchanged
<1>3. QED
  BY <1>1, <1>2, SettledStays DEF Serves, Moved, Ended

\* A request that begins when none is served.
LEMMA BeginServes ==
  ASSUME SerialContext, NEW r \in Request, NEW o \in Operation, Begin(r, o), Settled
  PROVE  Serves(r)'
<1>0. /\ TypeOK /\ organization \in Document /\ o.handler \in Handler
      /\ o.services \in SUBSET ServiceId /\ o.keys \in SUBSET KeyId
  BY TypeParts, OperationFields DEF SerialContext, ShapeInv, TypeInv
<1>1. UNCHANGED <<documents, permissions>>
  BY <1>0, BeginMoves
<1>2. Settled'
  BY <1>1, SettledStays
<1>3. CASE stage'[r] \notin Ended
  <2>1. /\ stage'[r] = FirstStage(o, organization)
        /\ operation'[r] = o
        /\ loaded'[r] = organization
        /\ o.handler = "create" <=> organization.status = "absent"
        /\ organization.status # "deleted" /\ Accepts(o, organization)
    BY <1>0, <1>3, BeginMoves
  <2>2. organization' = organization
    BY <1>1 DEF documents
  <2>3. CASE o.handler = "create"
    <3>1. stage'[r] = "insert" /\ Does(r, {"create"})'
      BY <2>1, <2>3 DEF FirstStage, Does
    <3>2. QED
      BY <1>2, <2>1, <2>2, <2>3, <3>1 DEF Serves, Serving, Creating, Ended
  <2>4. CASE o.handler # "create"
    <3>1. organization.status = "present"
      BY <1>0, <2>1, <2>4 DEF Document
    <3>2. Unchanged(r)'
      BY <1>2, <2>1, <2>2, <3>1 DEF Unchanged
    <3>3. ~ Does(r, {"create"})'
      BY <2>1, <2>4 DEF Does
    <3>4. stage'[r] = "services" =>
            (Does(r, {"addService"})' => Services(r)' \cap ServicesIn(loaded[r])' = {})
      BY <2>1 DEF Accepts, Does, Services, ServicesIn
    <3>5. stage'[r] = "delete" => loaded'[r].activated = {}
      BY <1>0, <2>1 DEF FirstStage, Accepts, Handler
    <3>6. stage'[r] \notin {"insertKeys", "addOperators", "scopes"}
      BY <1>0, <2>1 DEF FirstStage, Handler
    <3>7. stage'[r] = "didDoc" => WritingDid(r)'
      <4> SUFFICES ASSUME stage'[r] = "didDoc" PROVE WritingDid(r)'
        OBVIOUS
      <4>1. o.handler = "updateService"
        BY <1>0, <2>1 DEF FirstStage, Handler
      <4>2. /\ DidServices(r)' = organization.didServices
            /\ DidKeys(r)' = organization.didKeys
            /\ ActivatedServices(r)' = organization.activated
            /\ ~ Does(r, {"addService"})' /\ ~ Does(r, {"addKey"})'
        BY <2>1, <4>1 DEF DidServices, DidKeys, ActivatedServices, Does
      <4>3. QED
        BY <2>1, <2>2, <3>1, <3>2, <4>2
        DEF Unchanged, Settled, DocumentAgrees, KeysAgree, WritingDid
    <3>8. stage'[r] = "modify" =>
            /\ ReadyToModify(r)' /\ KeysAgree' /\ ScopesAgree'
            /\ organization'.account
            /\ organization'.activated = loaded'[r].activated
            /\ organization'.permitted = Category(organization'.activated)
      <4> SUFFICES ASSUME stage'[r] = "modify"
                   PROVE  /\ ReadyToModify(r)' /\ KeysAgree' /\ ScopesAgree'
                          /\ organization'.account
                          /\ organization'.activated = loaded'[r].activated
                          /\ organization'.permitted = Category(organization'.activated)
        OBVIOUS
      <4>1. o.handler \in {"activateServices", "deactivateServices"}
        BY <1>0, <2>1 DEF FirstStage, Handler
      <4>2. KnownServices(r)' = ServicesIn(organization)
        BY <2>1, <4>1 DEF KnownServices, Base, Does, ServicesIn
      <4>3. organization.activated \subseteq ServicesIn(organization)
        BY <3>2 DEF Unchanged, Settled, DocumentAgrees, ServicesIn
      <4>4. ActivatedServices(r)' \subseteq ServicesIn(organization)
        <5>1. CASE o.handler = "activateServices"
          <6>1. o.services \ organization.activated \subseteq ServicesIn(organization)
            BY <2>1, <5>1 DEF Accepts
          <6>2. ActivatedServices(r)' = organization.activated \cup o.services
            BY <2>1, <5>1 DEF ActivatedServices, Services, Does
          <6>3. QED
            BY <4>3, <6>1, <6>2
        <5>2. CASE o.handler = "deactivateServices"
          <6>1. ActivatedServices(r)' = organization.activated \ o.services
            BY <2>1, <5>2 DEF ActivatedServices, Services, Does
          <6>2. QED
            BY <4>3, <6>1
        <5>3. QED
          BY <4>1, <5>1, <5>2
      <4>5. ReadyToModify(r)'
        BY <2>2, <3>1, <3>2, <4>2, <4>4
        DEF ReadyToModify, Unchanged, Settled, DocumentAgrees, ServicesIn
      <4>6. QED
        BY <2>1, <2>2, <3>1, <3>2, <4>5 DEF Unchanged, Settled, DocumentAgrees, Category
    <3>9. Changing(r)'
      BY <3>2, <3>4, <3>5, <3>6, <3>7, <3>8 DEF Changing
    <3>10. QED
      BY <1>3, <3>3, <3>6, <3>9 DEF Serves, Serving
  <2>5. QED
    BY <2>3, <2>4
<1>4. QED
  BY <1>2, <1>3 DEF Serves

\* A step of the one request that is served.
LEMMA StepServes ==
  ASSUME SerialContext, Serial', NEW r \in Request, Step(r), stage[r] # "idle" => Serving(r),
         stage[r] = "idle" => Settled
  PROVE  Serves(r)'
<1>0. TypeOK
  BY DEF SerialContext, ShapeInv, TypeInv
<1>1. ~ Throws(r)
  BY <1>0, TypeParts, BoundsAssumption DEF Throws, Fault, Serial
<1>2. CASE \E o \in Operation : Begin(r, o)
  BY <1>2, BeginServes DEF Begin
<1>3. CASE ~ \E o \in Operation : Begin(r, o)
  <2>1. stage[r] # "idle"
    BY <1>1, <1>3
    DEF Step, InsertOrganization, PushService, WriteServices, WriteDidDoc, ModifyOrganization,
        WriteProfile, DeleteOrganization, AddPrimary, CheckKey, InsertKeys, AddOperators,
        FindKey, RemoveOperator, DeleteKey, UpdateScopes, Refused
  <2>2. Serving(r)
    BY <2>1
  <2>3. AddPrimary(r) => Does(r, {"create"})
    BY DEF SerialContext, ShapeInv, Shape, ShapeOf, AddPrimary
  <2>4. CASE \/ InsertOrganization(r) \/ PushService(r) \/ WriteServices(r) \/ WriteDidDoc(r)
             \/ ModifyOrganization(r) \/ WriteProfile(r) \/ DeleteOrganization(r)
    BY <2>2, <2>4, InsertServes, ServicesServe, DidDocServes, ModifyServes, CopyServes
  <2>5. CASE \/ AddPrimary(r) \/ CheckKey(r) \/ InsertKeys(r) \/ AddOperators(r)
             \/ FindKey(r) \/ RemoveOperator(r) \/ DeleteKey(r)
    <3>1. Does(r, {"create"}) => AddPrimary(r) \/ InsertKeys(r) \/ AddOperators(r)
      BY <2>5 DEF SerialContext, ShapeInv, Shape, ShapeOf, Does, CheckKey, FindKey,
                  RemoveOperator, DeleteKey
    <3>2. QED
      BY <2>2, <2>3, <2>5, <3>1, CreateKeysServe, KeysServe
  <2>6. CASE UpdateScopes(r) \/ Refused(r)
    BY <2>2, <2>6, ScopesServe, RefusedServes
  <2>7. QED
    BY <1>1, <1>3, <2>4, <2>5, <2>6 DEF Step
<1>4. QED
  BY <1>2, <1>3

\* While nothing has overlapped there is one request at most.
LEMMA OneInFlight ==
  ASSUME Overlapping' = {}, NEW q \in InFlight', NEW r \in InFlight'
  PROVE  q = r
<1> SUFFICES ASSUME q # r PROVE FALSE
  OBVIOUS
<1>1. PICK a \in {"service", "key"} : a \in Kinds(operation'[q])
  BY DEF Kinds
<1>2. PICK b \in {"service", "key"} : b \in Kinds(operation'[r])
  BY DEF Kinds
<1>3. {a, b} \in SUBSET {"service", "key"}
  OBVIOUS
<1>4. {a, b} \in Overlapping'
  BY <1>1, <1>2, <1>3 DEF Overlapping
<1>5. QED
  BY <1>4

LEMMA SettledInit == Init => SettledKept
<1> SUFFICES ASSUME Init PROVE SettledKept
  OBVIOUS
<1>1. InFlight = {}
  BY DEF Init, InFlight
<1>2. CASE organization = NoDocument /\ organizationKeys = {} /\ PermissionsInit
  <2>1. ServicesIn(organization) = {} /\ Category({}) = {} /\ PermissionsOf({}) = {}
    BY <1>2 DEF NoDocument, ServicesIn, Category, PermissionsOf
  <2>2. DocumentAgrees(organization)
    <3>1. \A s \in ServiceId : organization.services[s] = 0
      BY <1>2 DEF NoDocument
    <3>2. /\ organization.didServices = {} /\ organization.activated = {}
          /\ organization.permitted = {} /\ organization.status = "absent"
      BY <1>2 DEF NoDocument
    <3>3. QED
      BY <2>1, <3>1, <3>2 DEF DocumentAgrees
  <2>3. scopes = {} /\ Unregistered
    BY <1>2, Addresses DEF PermissionsInit, scopes, Unregistered
  <2>4. KeysAgree /\ ScopesAgree
    BY <1>2, <2>1, <2>3 DEF KeysAgree, ScopesAgree, NoDocument
  <2>5. QED
    BY <1>1, <1>2, <2>2, <2>3, <2>4 DEF SettledKept, Settled
<1>3. CASE ~ (organization = NoDocument /\ organizationKeys = {} /\ PermissionsInit)
  <2>1. PICK services \in SUBSET ServiceId, activated \in SUBSET ServiceId :
          /\ activated \subseteq services
          /\ organization = Created(services, activated)
          /\ organizationKeys = NewKeys \cup VnfKeys
          /\ addressToPermissions = [a \in Address |->
               IF a = Account THEN PermissionsOf(Category(activated)) ELSE {}]
    BY <1>3 DEF Init
  <2>2. ServicesIn(organization) = services
    BY <2>1 DEF Created, ServicesIn
  <2>3. DocumentAgrees(organization)
    <3>1. \A s \in ServiceId : organization.services[s] \in {0, 1}
      BY <2>1 DEF Created
    <3>2. /\ organization.didServices = services /\ organization.activated = activated
          /\ organization.permitted = Category(activated)
          /\ organization.status = "present" /\ organization.account
      BY <2>1 DEF Created
    <3>3. QED
      BY <2>1, <2>2, <3>1, <3>2 DEF DocumentAgrees
  <2>4. KeysAgree
    BY <2>1, MadeKeys DEF KeysAgree, Created
  <2>5. ScopesAgree
    BY <2>1, Addresses DEF ScopesAgree, scopes, Created
  <2>6. organization.status = "present"
    BY <2>1 DEF Created
  <2>7. QED
    BY <1>1, <2>3, <2>4, <2>5, <2>6 DEF SettledKept, Settled
<1>4. QED
  BY <1>2, <1>3 DEF Init

LEMMA SettledStep ==
  ShapeInv /\ ChangesKept /\ KnownScopes /\ SettledKept /\ [Next]_vars => SettledKept'
<1> SUFFICES ASSUME ShapeInv, ChangesKept, KnownScopes, SettledKept, [Next]_vars, Serial'
             PROVE  /\ \A q, r \in InFlight' : q = r
                    /\ InFlight' = {} => Settled'
                    /\ \A r \in InFlight' : Serving(r)'
  BY DEF SettledKept
<1>0. TypeOK
  BY DEF ShapeInv, TypeInv
<1>1. CASE UNCHANGED vars
  BY <1>1
  DEF vars, documents, locals, permissions, SettledKept, Serial, InFlight, Settled, Serving,
      Creating, Changing, Unchanged, WritingDid, ReadyToModify, FreshKeys, HasModified,
      DocumentAgrees, KeysAgree, ScopesAgree, Unregistered, scopes, ServicesIn, DidServices,
      DidKeys, ActivatedServices, KnownServices, Base, Services, Keys, Does, Category,
      PermissionsOf
<1>2. ~ Crash
  BY <1>0, TypeParts, BoundsAssumption DEF Crash, Fault, Serial
<1>3. ASSUME NEW r \in Request, Step(r), overlaps' = overlaps \cup Overlapping'
      PROVE  /\ \A q, p \in InFlight' : q = p
             /\ InFlight' = {} => Settled'
             /\ \A p \in InFlight' : Serving(p)'
  <2>1. Overlapping' = {} /\ overlaps = {}
    BY <1>3 DEF Serial
  <2>2. \A q, p \in InFlight' : q = p
    BY <2>1, OneInFlight
  <2>3. faults = 0
    <3>1. faults' = faults \/ faults' = faults + 1
      BY <1>3 DEF Step, Begin, InsertOrganization, PushService, WriteServices, WriteDidDoc,
                  ModifyOrganization, WriteProfile, DeleteOrganization, AddPrimary, CheckKey,
                  InsertKeys, AddOperators, FindKey, RemoveOperator, DeleteKey, UpdateScopes,
                  Refused, Throws, Answered, Fault
    <3>2. QED
      BY <1>0, <3>1, TypeParts, BoundsAssumption DEF Serial
  <2>4. SerialContext
    BY <2>1, <2>3 DEF SerialContext, Serial
  <2>5. /\ \A q, p \in InFlight : q = p
        /\ InFlight = {} => Settled
        /\ \A p \in InFlight : Serving(p)
    BY <2>4 DEF SerialContext, SettledKept
  <2>6. Others(r)
    BY <1>0, <1>3, ShapeStep DEF ShapeInv
  <2>7. stage[r] \notin Ended
    BY <1>3
    DEF Step, Begin, InsertOrganization, PushService, WriteServices, WriteDidDoc,
        ModifyOrganization, WriteProfile, DeleteOrganization, AddPrimary, CheckKey,
        InsertKeys, AddOperators, FindKey, RemoveOperator, DeleteKey, UpdateScopes,
        Refused, Throws, InFlight, Ended
  <2>8. \A q \in Request \ {r} : q \in InFlight <=> q \in InFlight'
    BY <2>6 DEF InFlight, Others
  <2>9. CASE InFlight \subseteq {r}
    <3>1. stage[r] = "idle" => InFlight = {}
      BY <2>9 DEF InFlight
    <3>2. Serves(r)'
      BY <1>3, <2>4, <2>5, <2>7, <3>1, StepServes DEF InFlight
    <3>3. InFlight' \subseteq {r}
      BY <2>8, <2>9 DEF InFlight
    <3>4. r \in InFlight' => stage'[r] \notin Ended
      BY DEF InFlight
    <3>5. r \notin InFlight' => stage'[r] \in Ended
      <4>1. stage'[r] # "idle"
        <5>1. CASE \E o \in Operation : Begin(r, o)
          <6>1. PICK o \in Operation : Begin(r, o)
            BY <5>1
          <6>2. o.handler \in Handler
            BY OperationFields
          <6>3. QED
            BY <1>0, <6>1, <6>2, BeginMoves DEF FirstStage, Handler, Ended
        <5>2. CASE ~ \E o \in Operation : Begin(r, o)
          BY <1>0, <1>3, <5>2, WritesMove, KeyStepsMove
          DEF Step, Moved, AfterDidDoc, AfterModify
        <5>3. QED
          BY <5>1, <5>2
      <4>2. QED
        BY <4>1 DEF InFlight
    <3>6. QED
      BY <2>2, <3>2, <3>3, <3>4, <3>5 DEF Serves
  <2>10. CASE ~ InFlight \subseteq {r}
    <3>1. PICK q \in InFlight : q # r
      BY <2>10
    <3>2. r \notin InFlight
      BY <2>5, <3>1
    <3>3. q \in InFlight' /\ q \in Request
      BY <2>8, <3>1 DEF InFlight
    <3>4. r \notin InFlight'
      BY <2>2, <3>1, <3>3
    <3>5. stage[r] = "idle"
      BY <2>7, <3>2 DEF InFlight
    <3>6. UNCHANGED <<documents, permissions>>
      <4>1. PICK o \in Operation : Begin(r, o)
        BY <1>0, <1>3, <3>5, TypeParts
        DEF Step, InsertOrganization, PushService, WriteServices, WriteDidDoc,
            ModifyOrganization, WriteProfile, DeleteOrganization, AddPrimary, CheckKey,
            InsertKeys, AddOperators, FindKey, RemoveOperator, DeleteKey, UpdateScopes,
            Refused, Throws, InFlight
      <4>2. QED
        BY <4>1, <1>0, BeginMoves
    <3>7. \A p \in InFlight' : p = q
      BY <2>2, <3>3
    <3>8. Serving(q)'
      <4>1. /\ Serving(q)
            /\ stage'[q] = stage[q] /\ operation'[q] = operation[q]
            /\ loaded'[q] = loaded[q] /\ updated'[q] = updated[q]
        BY <2>5, <2>6, <3>1, <3>3 DEF Others
      <4>2. QED
        BY <3>6, <4>1
        DEF documents, permissions, Settled, Serving, Creating, Changing, Unchanged,
            WritingDid, ReadyToModify, FreshKeys, HasModified, DocumentAgrees, KeysAgree,
            ScopesAgree, Unregistered, scopes, ServicesIn, DidServices, DidKeys,
            ActivatedServices, KnownServices, Base, Services, Keys, Does, Category,
            PermissionsOf
    <3>9. QED
      BY <2>2, <3>3, <3>7, <3>8
  <2>11. QED
    BY <2>9, <2>10
<1>4. QED
  BY <1>1, <1>2, <1>3 DEF Next, Finished

\* Any sequence of requests served one at a time, without an error, leaves the
\* services, their copy in the DID document, the activated ids, the categories,
\* the scopes on the ledger and the two copies of the keys agreeing, in a deleted
\* organization too: each handler's writes are complete, and its own refusals
\* come before the first of them or after the last.
THEOREM SerialRequestsAgree == Spec => []SettledAgrees
<1>1. Init => ShapeInv /\ ChangesKept /\ KnownScopes /\ SettledKept
  BY ShapeInvInit, ChangesInit, KnownScopesInit, SettledInit
<1>2. ShapeInv /\ ChangesKept /\ KnownScopes /\ SettledKept /\ [Next]_vars
        => (ShapeInv /\ ChangesKept /\ KnownScopes /\ SettledKept)'
  BY ShapeInvStep, ChangesStep, KnownScopesStep, SettledStep DEF ShapeInv
<1>3. SettledKept => SettledAgrees
  <2> SUFFICES ASSUME SettledKept, InFlight = {}, faults = 0, overlaps = {} PROVE Agree
    BY DEF SettledAgrees
  <2>1. Settled
    BY DEF SettledKept, Serial
  <2>2. Category({}) = {} /\ PermissionsOf({}) = {}
    BY DEF Category, PermissionsOf
  <2>3. QED
    BY <2>1, <2>2 DEF Settled, DocumentAgrees, KeysAgree, ScopesAgree, Agree
<1>4. QED
  BY <1>1, <1>2, <1>3, PTL DEF Spec
=============================================================================
