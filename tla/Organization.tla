---------------------------- MODULE Organization ----------------------------
(***************************************************************************)
(* packages/endpoints-organizations-registrar: one organization, its       *)
(* services and its keys, from its creation to its deletion.               *)
(*                                                                         *)
(* A request loads the organization's document once, validates against     *)
(* that copy, and writes whole fields computed from it back, one await     *)
(* after another; the services' permissions and the operator keys are then *)
(* brought to the Permissions contract, whose module this one extends.     *)
(* There is no transaction over the steps and nothing is undone when one   *)
(* fails.  A key's id stands for its Ethereum account too.                 *)
(*                                                                         *)
(* The organization's DID document is custodied.  Outside the model: the   *)
(* Auth0 clients, the consents, the Fineract accounts, the groups, the     *)
(* monitors, the mails and the images, which no step here reads back, and  *)
(* a service's type, endpoint and credential types once it is valid.       *)
(***************************************************************************)
EXTENDS Naturals, FiniteSets, Permissions

CONSTANTS
  Request,      \* HTTP requests
  ServiceId,    \* ids of services
  CategoryOf,   \* categorizeServices of each: ServiceTypeToCategoryMap
  KeyId,        \* ids of organization keys
  PurposesOf,   \* the purposes of each
  NewKeys,      \* the keys createOrganization generates for the DID document
  PermissioningKey, RotationKey, \* the keys it generates for the registrar
  Account,      \* ids.ethereumAccount, the address of the primary
  Handlers,     \* the handlers that are called
  MaxInFlight,  \* bound: requests at the same time
  MaxFaults     \* bound: errors and crashes

KeyPurposes == {"DLT_TRANSACTIONS", "EXCHANGES", "ISSUING_METADATA",
                "REVOCATIONS_FALLBACK", "ROTATION", "PERMISSIONING"}

ServiceCategory ==
  {"CredentialAgentOperator", "HolderAppProvider", "NodeOperator", "Inspector",
   "Issuer", "NotaryIssuer", "IdDocumentIssuer", "NotaryIdDocumentIssuer",
   "ContactIssuer", "NotaryContactIssuer"}

Handler == {"create", "addService", "deleteService", "updateService",
            "activateServices", "deactivateServices", "updateProfile",
            "deleteOrganization", "addKey", "deleteKey"}

ASSUME ServicesAssumption == CategoryOf \in [ServiceId -> ServiceCategory]
ASSUME KeysAssumption == /\ PurposesOf \in [KeyId -> SUBSET KeyPurposes]
                         /\ NewKeys \subseteq KeyId
                         /\ \A k \in NewKeys :
                              PurposesOf[k] \cap {"PERMISSIONING", "ROTATION"} = {}
                         /\ {PermissioningKey, RotationKey} \subseteq KeyId
                         /\ PurposesOf[PermissioningKey] = {"PERMISSIONING"}
                         /\ PurposesOf[RotationKey] = {"ROTATION"}
                         /\ KeyId \subseteq Address
                         /\ Account \in Address \ KeyId
ASSUME HandlersAssumption == Handlers \subseteq Handler
ASSUME BoundsAssumption == MaxInFlight \in Nat /\ MaxFaults \in Nat

\* ServiceCategoryToPermissions; IdentityIssuer, which categorizeServices adds
\* for the four identity issuers, has none.
ServiceCategoryToPermissions(c) ==
  CASE c \in {"IdDocumentIssuer", "NotaryIdDocumentIssuer"} ->
         {"transactions:write", "credential:revoke", "credential:identityissue"}
    [] c \in {"ContactIssuer", "NotaryContactIssuer"} ->
         {"transactions:write", "credential:revoke", "credential:contactissue"}
    [] c \in {"Issuer", "NotaryIssuer"} ->
         {"transactions:write", "credential:revoke", "credential:issue"}
    [] c = "Inspector" -> {"transactions:write", "credential:inspect"}
    [] OTHER -> {}

Category(services) == {CategoryOf[s] : s \in services}
PermissionsOf(categories) == UNION {ServiceCategoryToPermissions(c) : c \in categories}

ASSUME ScopesAssumption == \A c \in ServiceCategory : ServiceCategoryToPermissions(c) \subseteq Scope

DltKeys == {k \in KeyId : "DLT_TRANSACTIONS" \in PurposesOf[k]}
VnfKeys == {PermissioningKey, RotationKey}
PermissioningKeys == {k \in KeyId : "PERMISSIONING" \in PurposesOf[k]}

\* An HTTP request's parameters: the services it names, whether a new service
\* is activated at once (not in production, nor with x-auto-activate 0), and the
\* key.  A KeyId is one key pair: those createOrganization generates are not added.
Operation ==
  [handler : Handlers \cap {"create"}, services : SUBSET ServiceId,
   auto : BOOLEAN, keys : {{}}]
  \cup [handler : Handlers \cap {"addService"},
        services : {{s} : s \in ServiceId}, auto : BOOLEAN, keys : {{}}]
  \cup [handler : Handlers \cap {"deleteService", "updateService"},
        services : {{s} : s \in ServiceId}, auto : {FALSE}, keys : {{}}]
  \cup [handler : Handlers \cap {"activateServices", "deactivateServices"},
        services : (SUBSET ServiceId) \ {{}}, auto : {FALSE}, keys : {{}}]
  \cup [handler : Handlers \cap {"updateProfile", "deleteOrganization"},
        services : {{}}, auto : {FALSE}, keys : {{}}]
  \cup [handler : Handlers \cap {"addKey"}, services : {{}}, auto : {FALSE},
        keys : {{k} : k \in KeyId \ (NewKeys \cup VnfKeys)}]
  \cup [handler : Handlers \cap {"deleteKey"},
        services : {{}}, auto : {FALSE}, keys : {{k} : k \in KeyId}]

KeyHandlers == {"addKey", "deleteKey"}

NoOperation == [handler |-> "none", services |-> {}, auto |-> FALSE, keys |-> {}]

\* The organization's document: whether it was inserted or has a deletedAt,
\* and its fields.  services is an array, and $push may put an id there twice;
\* permitted is profile.permittedVelocityServiceCategory; account says that
\* ids.ethereumAccount is there, with activatedServiceIds.
Document == [status : {"absent", "present", "deleted"}, account : BOOLEAN,
             services : [ServiceId -> Nat], didServices : SUBSET ServiceId,
             didKeys : SUBSET KeyId, activated : SUBSET ServiceId,
             permitted : SUBSET ServiceCategory]

NoDocument ==
  [status |-> "absent", account |-> FALSE, services |-> [s \in ServiceId |-> 0],
   didServices |-> {}, didKeys |-> {}, activated |-> {}, permitted |-> {}]

ServicesIn(doc) == {s \in ServiceId : doc.services[s] > 0}

Stage == {"idle", "insert", "services", "didDoc", "modify", "scopes", "profile",
          "delete", "addPrimary", "checkKey", "insertKeys", "addOperators",
          "findKey", "removeOperator", "deleteKey", "done", "failed"}
Ended == {"done", "failed"}

VARIABLES
  organization,      \* MongoDB: the document, NoDocument before it is inserted
  organizationKeys,  \* MongoDB: the keys of the organization
  stage,
  operation,
  loaded,            \* the copy of the document the request works on
  updated,           \* the document its last update returned
  faults,
  overlaps           \* history: the kinds of requests that overlapped

documents == <<organization, organizationKeys>>
locals == <<operation, loaded, updated>>
vars == <<documents, permissions, stage, locals, faults, overlaps>>

\* An organization as createOrganization and complete service changes leave it.
Created(services, activated) ==
  [status |-> "present", account |-> TRUE,
   services |-> [s \in ServiceId |-> IF s \in services THEN 1 ELSE 0],
   didServices |-> services, didKeys |-> NewKeys, activated |-> activated,
   permitted |-> Category(activated)]

Init ==
  /\ \/ /\ organization = NoDocument
        /\ organizationKeys = {}
        /\ PermissionsInit
     \/ \E services \in SUBSET ServiceId : \E activated \in SUBSET services :
          /\ organization = Created(services, activated)
          /\ organizationKeys = NewKeys \cup VnfKeys
          /\ VNF = Deployer
          /\ addressToPermissions = [a \in Address |->
               IF a = Account THEN PermissionsOf(Category(activated)) ELSE {}]
          /\ primaryToPermissioning = [a \in Address |->
               IF a = Account THEN PermissioningKey ELSE Zero]
          /\ primaryToRotation = [a \in Address |->
               IF a = Account THEN RotationKey ELSE Zero]
          /\ operatorToPrimary = [a \in Address |->
               IF a \in NewKeys \cap DltKeys THEN Account ELSE Zero]
          /\ primaries = {Account}
  /\ stage = [r \in Request |-> "idle"]
  /\ operation = [r \in Request |-> NoOperation]
  /\ loaded = [r \in Request |-> NoDocument]
  /\ updated = [r \in Request |-> NoDocument]
  /\ faults = 0
  /\ overlaps = {}

InFlight == {r \in Request : stage[r] \notin Ended \cup {"idle"}}

Fault == faults < MaxFaults /\ faults' = faults + 1

GoTo(r, s) == /\ stage' = [stage EXCEPT ![r] = s]
              /\ UNCHANGED <<operation, loaded>>

\* The request is answered, and its local variables are gone.
End(r, s) == /\ stage' = [stage EXCEPT ![r] = s]
             /\ operation' = [operation EXCEPT ![r] = NoOperation]
             /\ loaded' = [loaded EXCEPT ![r] = NoDocument]
             /\ updated' = [updated EXCEPT ![r] = NoDocument]

Continue(r, s) == IF s \in Ended THEN End(r, s)
                  ELSE GoTo(r, s) /\ UNCHANGED updated

\* The ids an operation names: one service or key for most of them.  Create has
\* its keys from the generator.
Services(r) == operation[r].services
Keys(r) == operation[r].keys
Does(r, handlers) == operation[r].handler \in handlers

-----------------------------------------------------------------------------
(***************************************************************************)
(* Requests begin.                                                         *)
(***************************************************************************)

\* What a handler checks on the copy it loaded, before its first write.
Accepts(o, doc) ==
  CASE o.handler = "create" -> doc.status = "absent"
    [] o.handler = "addService" -> o.services \cap ServicesIn(doc) = {}
    [] o.handler = "deleteService" -> o.services \subseteq ServicesIn(doc)
    [] o.handler = "updateService" ->
         o.services \subseteq ServicesIn(doc) \cap doc.didServices
    [] o.handler = "activateServices" ->
         o.services \ doc.activated \subseteq ServicesIn(doc)
    [] o.handler = "deactivateServices" ->
         o.services \subseteq doc.didServices \cap doc.activated
    [] o.handler = "deleteOrganization" -> doc.account /\ doc.activated = {}
    [] OTHER -> TRUE

FirstStage(o, doc) ==
  CASE o.handler = "create" -> "insert"
    [] o.handler \in {"addService", "deleteService"} -> "services"
    [] o.handler = "updateService" -> "didDoc"
    [] o.handler = "activateServices" /\ o.services \subseteq doc.activated -> "done"
    [] o.handler \in {"activateServices", "deactivateServices"} -> "modify"
    [] o.handler = "updateProfile" -> "profile"
    [] o.handler = "deleteOrganization" -> "delete"
    [] o.handler = "addKey" -> "checkKey"
    [] o.handler = "deleteKey" -> "findKey"

\* findOneByDid, which does not see a deleted organization, and the checks.
\* createOrganization comes first: verifyProfileWebsiteUnique finds nothing.
Begin(r, o) ==
  /\ stage[r] = "idle"
  /\ Cardinality(InFlight) < MaxInFlight
  /\ o.handler = "create" <=> organization.status = "absent"
  /\ o.handler = "create" => InFlight = {}
  /\ LET first == IF organization.status # "deleted" /\ Accepts(o, organization)
                    THEN FirstStage(o, organization) ELSE "failed" IN
       IF first \in Ended
         THEN End(r, first)
         ELSE /\ stage' = [stage EXCEPT ![r] = first]
              /\ operation' = [operation EXCEPT ![r] = o]
              /\ loaded' = [loaded EXCEPT ![r] = organization]
              /\ UNCHANGED updated
  /\ UNCHANGED <<documents, permissions, faults>>

-----------------------------------------------------------------------------
(***************************************************************************)
(* Writes of the organization's document.                                  *)
(***************************************************************************)

\* repos.organizations.update: the fields of doc are set, and the document is
\* returned.  A deleted organization is not found: nothing is written.
Update(doc) == /\ organization.status = "present"
               /\ organization' = doc

InsertOrganization(r) ==
  /\ stage[r] = "insert"
  /\ organization.status = "absent"
  /\ LET doc == [Created(Services(r), {}) EXCEPT !.account = FALSE] IN
       /\ organization' = doc
       /\ loaded' = [loaded EXCEPT ![r] = doc]
  /\ stage' = [stage EXCEPT ![r] = "modify"]
  /\ UNCHANGED <<organizationKeys, permissions, operation, updated, faults>>

\* repos.organizations.addService, a $push.
PushService(r) ==
  /\ stage[r] = "services"
  /\ Does(r, {"addService"})
  /\ organization' = [organization EXCEPT !.services =
       [s \in ServiceId |-> IF s \in Services(r) THEN @[s] + 1 ELSE @[s]]]
  /\ Continue(r, "didDoc")
  /\ UNCHANGED <<organizationKeys, permissions, faults>>

\* deleteService writes the array it loaded, without the service.
WriteServices(r) ==
  /\ stage[r] = "services"
  /\ Does(r, {"deleteService"})
  /\ Update([organization EXCEPT !.services =
       [s \in ServiceId |-> IF s \in Services(r) THEN 0 ELSE loaded[r].services[s]]])
  /\ Continue(r, "didDoc")
  /\ UNCHANGED <<organizationKeys, permissions, faults>>

DidServices(r) ==
  IF Does(r, {"addService"}) THEN loaded[r].didServices \cup Services(r)
  ELSE IF Does(r, {"deleteService"}) THEN loaded[r].didServices \ Services(r)
  ELSE loaded[r].didServices

DidKeys(r) ==
  IF Does(r, {"addKey"}) THEN loaded[r].didKeys \cup Keys(r)
  ELSE IF Does(r, {"deleteKey"}) THEN loaded[r].didKeys \ Keys(r)
  ELSE loaded[r].didKeys

AfterDidDoc(r) ==
  CASE Does(r, {"addService", "deleteService"}) -> "modify"
    [] Does(r, {"addKey"}) -> "insertKeys"
    [] OTHER -> "done"

\* The whole DID document, services and keys, from the copy loaded; validateDidDoc
\* refuses a service that is there twice.
WriteDidDoc(r) ==
  /\ stage[r] = "didDoc"
  /\ Does(r, {"addService"}) => Services(r) \cap loaded[r].didServices = {}
  /\ LET doc == [organization EXCEPT !.didServices = DidServices(r),
                                     !.didKeys = DidKeys(r)] IN
       /\ Update(doc)
       /\ IF AfterDidDoc(r) \in Ended
            THEN End(r, AfterDidDoc(r))
            ELSE /\ GoTo(r, AfterDidDoc(r))
                 /\ updated' = [updated EXCEPT ![r] = doc]
  /\ UNCHANGED <<organizationKeys, permissions, faults>>

\* The arguments of buildOrganizationModificationsOnServiceChange: the document
\* whose services and profile it reads, and the services to be active.
Base(r) == IF Does(r, {"deleteService"}) THEN updated[r] ELSE loaded[r]

KnownServices(r) == ServicesIn(Base(r)) \cup (IF Does(r, {"addService"})
                                                THEN Services(r) ELSE {})

ActivatedServices(r) ==
  CASE Does(r, {"create", "addService"}) /\ operation[r].auto ->
         loaded[r].activated \cup Services(r)
    [] Does(r, {"activateServices"}) -> loaded[r].activated \cup Services(r)
    [] Does(r, {"deleteService", "deactivateServices"}) ->
         loaded[r].activated \ Services(r)
    [] OTHER -> loaded[r].activated

AfterModifyNoLedger(r) ==   \* mutant: deactivation does not reach the ledger
  CASE Does(r, {"create"}) -> "addPrimary"
    [] Does(r, {"addService"}) /\ ~ operation[r].auto -> "done"
    [] Does(r, {"deactivateServices"}) -> "done"
    [] OTHER -> "scopes"

AfterModify(r) ==
  CASE Does(r, {"create"}) -> "addPrimary"
    [] Does(r, {"addService"}) /\ ~ operation[r].auto -> "done"
    [] OTHER -> "scopes"

\* An activated service that is not among the services has no type:
\* categorizeServices throws.  The categories are only written when they
\* differ from those of the profile at hand.
ModifyOrganization(r) ==
  /\ stage[r] = "modify"
  /\ ActivatedServices(r) \subseteq KnownServices(r)
  /\ LET categories == Category(ActivatedServices(r))
         doc == [organization EXCEPT
                   !.account = @ \/ Does(r, {"create"}),
                   !.activated = ActivatedServices(r),
                   !.permitted = IF categories = Base(r).permitted THEN @
                                                                   ELSE categories] IN
       /\ Update(doc)
       /\ IF AfterModify(r) \in Ended
            THEN End(r, AfterModify(r))
            ELSE /\ GoTo(r, AfterModify(r))
                 /\ updated' = [updated EXCEPT ![r] = doc]
  /\ UNCHANGED <<organizationKeys, permissions, faults>>

\* PUT profile writes back the categories it loaded.
WriteProfile(r) ==
  /\ stage[r] = "profile"
  /\ Update([organization EXCEPT !.permitted = loaded[r].permitted])
  /\ End(r, "done")
  /\ UNCHANGED <<organizationKeys, permissions, faults>>

ReplaceOrganization(r) ==   \* mutant: the document replaced by the modification
  /\ stage[r] = "delete"
  /\ Update([status |-> "deleted"])
  /\ End(r, "done")
  /\ UNCHANGED <<organizationKeys, permissions, faults>>

\* The whole document that was loaded, with deletedAt.
DeleteOrganization(r) ==
  /\ stage[r] = "delete"
  /\ Update([loaded[r] EXCEPT !.status = "deleted"])
  /\ End(r, "done")
  /\ UNCHANGED <<organizationKeys, permissions, faults>>

-----------------------------------------------------------------------------
(***************************************************************************)
(* Keys and the Permissions contract.  A transaction may be mined and its  *)
(* answer lost: the request fails and the contract has changed.            *)
(***************************************************************************)

Answered(r, s) == \/ Continue(r, s) /\ UNCHANGED faults
                  \/ End(r, "failed") /\ Fault

\* addPrimaryPermissions, signed as the VNF.
AddPrimary(r) ==
  /\ stage[r] = "addPrimary"
  /\ addPrimary(Deployer, Account, PermissioningKey, RotationKey)
  /\ Answered(r, "insertKeys")
  /\ UNCHANGED documents

CheckKeyInsertFirst(r) ==   \* mutant: the key inserted before addKeyToDidDoc
  /\ stage[r] = "checkKey"
  /\ Continue(r, IF Keys(r) \cap organizationKeys = {} THEN "insertKeys" ELSE "failed")
  /\ UNCHANGED <<documents, permissions, faults>>

\* checkForKeyDuplication
CheckKey(r) ==
  /\ stage[r] = "checkKey"
  /\ Continue(r, IF Keys(r) \cap organizationKeys = {} THEN "didDoc" ELSE "failed")
  /\ UNCHANGED <<documents, permissions, faults>>

InsertedKeys(r) == IF Does(r, {"create"}) THEN NewKeys \cup VnfKeys ELSE Keys(r)

InsertKeys(r) ==
  /\ stage[r] = "insertKeys"
  /\ organizationKeys' = organizationKeys \cup InsertedKeys(r)
  /\ Continue(r, IF Does(r, {"create"}) \/ Keys(r) \subseteq DltKeys
                   THEN "addOperators" ELSE "done")
  /\ UNCHANGED <<organization, permissions, faults>>

\* initPermissionsContract: the account a PERMISSIONING key signs for; findOne
\* takes any of them.  createOrganization has the primary's account at hand.
Signers(r) == IF Does(r, {"create"}) \/ loaded[r].account
                THEN organizationKeys \cap PermissioningKeys ELSE {}

\* One transaction for each: the keys a request adds hold one DLT key at most.
AddOperators(r) ==
  /\ stage[r] = "addOperators"
  /\ \E k \in Signers(r) :
       ChangeOperators(k, Account, {}, InsertedKeys(r) \cap DltKeys)
  /\ Answered(r, IF Does(r, {"create"}) THEN "scopes" ELSE "done")
  /\ UNCHANGED documents

\* includes(organizationKey.purposes, ISSUING_METADATA) has its arguments the
\* other way round: it looks for the purposes, as a string, in the constant's.
NotRemovable(k) == PurposesOf[k] \subseteq {"ISSUING_METADATA"}

FindKeyOnly(r) ==   \* mutant: removeOperatorKeyFromBlockchain not called
  /\ stage[r] = "findKey"
  /\ Continue(r, IF \/ ~ Keys(r) \subseteq organizationKeys
                    \/ \E k \in Keys(r) : NotRemovable(k)
                   THEN "failed" ELSE "deleteKey")
  /\ UNCHANGED <<documents, permissions, faults>>

FindKey(r) ==
  /\ stage[r] = "findKey"
  /\ Continue(r, IF \/ ~ Keys(r) \subseteq organizationKeys
                    \/ \E k \in Keys(r) : NotRemovable(k)
                   THEN "failed"
                   ELSE IF Keys(r) \subseteq DltKeys THEN "removeOperator"
                                                     ELSE "deleteKey")
  /\ UNCHANGED <<documents, permissions, faults>>

RemoveOperator(r) ==
  /\ stage[r] = "removeOperator"
  /\ \E k \in Signers(r) : ChangeOperators(k, Account, Keys(r), {})
  /\ Answered(r, "deleteKey")
  /\ UNCHANGED documents

DeleteKey(r) ==
  /\ stage[r] = "deleteKey"
  /\ organizationKeys' = organizationKeys \ Keys(r)
  /\ Continue(r, "didDoc")
  /\ UNCHANGED <<organization, permissions, faults>>

UpdateLoadedScopes(r) ==   \* mutant: the organization loaded, not the updated one
  /\ stage[r] = "scopes"
  /\ updated[r].account
  /\ LET granted == PermissionsOf(loaded[r].permitted) IN
       updateAddressScopes(Deployer, Account, granted,
                           PermissionsOf(ServiceCategory) \ granted)
  /\ Answered(r, "done")
  /\ UNCHANGED documents

\* updateBlockchainPermissionsFromPermittedServices: every scope of the table is
\* added or removed, by the categories of the document the update returned.
UpdateScopes(r) ==
  /\ stage[r] = "scopes"
  /\ updated[r].account
  /\ LET granted == PermissionsOf(updated[r].permitted) IN
       updateAddressScopes(Deployer, Account, granted,
                           PermissionsOf(ServiceCategory) \ granted)
  /\ Answered(r, "done")
  /\ UNCHANGED documents

-----------------------------------------------------------------------------
(***************************************************************************)
(* Errors.                                                                 *)
(***************************************************************************)

\* What the code throws by itself: a service twice in the DID document, an
\* activated service that is not there, an organization deleted meanwhile or
\* without an account, a transaction the contract refuses.
Refused(r) ==
  /\ \/ /\ stage[r] = "didDoc"
        /\ Does(r, {"addService"})
        /\ Services(r) \cap loaded[r].didServices # {}
     \/ /\ stage[r] = "modify"
        /\ ~ ActivatedServices(r) \subseteq KnownServices(r)
     \/ /\ \/ stage[r] \in {"didDoc", "modify", "profile", "delete"}
           \/ stage[r] = "services" /\ Does(r, {"deleteService"})
        /\ organization.status # "present"
     \/ stage[r] = "scopes" /\ ~ updated[r].account
     \/ /\ stage[r] \in {"addOperators", "removeOperator"}
        /\ \/ Signers(r) = {}
           \/ \E k \in Signers(r) : ~ OnlyPermissions(k, Account)
     \/ /\ stage[r] = "addOperators"
        /\ \E k \in InsertedKeys(r) \cap DltKeys : operatorToPrimary[k] # Zero
  /\ End(r, "failed")
  /\ UNCHANGED <<documents, permissions, faults>>

\* A service the request awaits fails: the database, the ledger, the KMS, Auth0,
\* Fineract, the mail server.  Nothing that was written is taken back.
Throws(r) ==
  /\ r \in InFlight
  /\ Fault
  /\ End(r, "failed")
  /\ UNCHANGED <<documents, permissions>>

\* The server stops, with every request it was serving.
Crash ==
  /\ InFlight # {}
  /\ Fault
  /\ stage' = [r \in Request |-> IF r \in InFlight THEN "failed" ELSE stage[r]]
  /\ operation' = [r \in Request |-> NoOperation]
  /\ loaded' = [r \in Request |-> NoDocument]
  /\ updated' = [r \in Request |-> NoDocument]
  /\ UNCHANGED <<documents, permissions>>

Step(r) ==
  \/ \E o \in Operation : Begin(r, o)
  \/ InsertOrganization(r) \/ PushService(r) \/ WriteServices(r) \/ WriteDidDoc(r)
  \/ ModifyOrganization(r) \/ WriteProfile(r) \/ DeleteOrganization(r)
  \/ AddPrimary(r) \/ CheckKey(r) \/ InsertKeys(r) \/ AddOperators(r)
  \/ FindKey(r) \/ RemoveOperator(r) \/ DeleteKey(r) \/ UpdateScopes(r)
  \/ Refused(r) \/ Throws(r)

\* What a request touches: createOrganization makes the keys too.
Kinds(o) == CASE o.handler = "create" -> {"service", "key"}
              [] o.handler \in KeyHandlers -> {"key"}
              [] OTHER -> {"service"}

Overlapping ==
  {kinds \in SUBSET {"service", "key"} :
     \E q, r \in InFlight : /\ q # r
                            /\ \E a \in Kinds(operation[q]), b \in Kinds(operation[r]) :
                                 kinds = {a, b}}

\* The end of the requests: none is left to begin.
Finished == (\A r \in Request : stage[r] \in Ended) /\ UNCHANGED vars

Next == \/ /\ Crash \/ \E r \in Request : Step(r)
           /\ overlaps' = overlaps \cup Overlapping'
        \/ Finished

Spec == Init /\ [][Next]_vars

-----------------------------------------------------------------------------
(***************************************************************************)
(* Properties.                                                             *)
(***************************************************************************)

\* Every variable has values of its type.
TypeOK ==
  /\ organization \in Document
  /\ organizationKeys \subseteq KeyId
  /\ PermissionsTypeOK
  /\ stage \in [Request -> Stage]
  /\ operation \in [Request -> Operation \cup {NoOperation}]
  /\ loaded \in [Request -> Document]
  /\ updated \in [Request -> Document]
  /\ faults \in 0..MaxFaults
  /\ overlaps \subseteq SUBSET {"service", "key"}

scopes == addressToPermissions[Account]
operators == {k \in KeyId : operatorToPrimary[k] = Account}

\* The organization's services, their copy in the DID document, the activated
\* ids, the permitted categories, the scopes on the ledger, the keys, their copy in the DID
\* document and the operators on the ledger agree.
Agree ==
  /\ \A s \in ServiceId : organization.services[s] <= 1
  /\ organization.didServices = ServicesIn(organization)
  /\ organization.activated \subseteq ServicesIn(organization)
  /\ organization.permitted = Category(organization.activated)
  /\ scopes = PermissionsOf(organization.permitted)
  /\ organization.didKeys = organizationKeys \ VnfKeys
  /\ organization.status = "deleted" => scopes = {}

\* Requests served one at a time, without an error, leave the nine copies of
\* an organization's services and keys agreeing, through any sequence of them
\* (the whole-document writes of every handler, deleted organizations included).
SettledAgrees ==
  (InFlight = {} /\ faults = 0 /\ overlaps = {}) => Agree

\* addOperatorKeys comes after organizationKeys.insert and removeOperatorKey
\* before delUsingFilter: whatever fails or overlaps with them otherwise, an
\* operator on the ledger is a key the registrar still holds and can remove.
OperatorsAreKeys == {"key"} \notin overlaps => operators \subseteq organizationKeys \cap DltKeys

\* addKey writes the DID document before it inserts the key and deleteKey after
\* it deletes it: as long as no other handler writes back a DID document loaded
\* earlier, a key of the registrar can be resolved, whatever fails.
KeysInDidDoc ==
  (overlaps \cap {{"key"}, {"service", "key"}} = {} /\ organization.status = "present")
    => organizationKeys \ VnfKeys \subseteq organization.didKeys

\* A change of the services that reaches the ledger repairs what earlier ones
\* that failed left behind: activated ids, categories and scopes agree again.
CompletedChangeAgrees ==
  [][\A r \in Request :
       (stage[r] = "scopes" /\ stage'[r] = "done" /\ {"service"} \notin overlaps)
         => /\ organization.activated \subseteq ServicesIn(organization)
            /\ organization.permitted = Category(organization.activated)
            /\ scopes' = PermissionsOf(organization.permitted)]_vars

\* delete-key.js:56 'ISSUING_METADATA Key may not be removed'
NoMetadataKeyRemoved ==
  [][\A k \in organizationKeys \ organizationKeys' :
       "ISSUING_METADATA" \notin PurposesOf[k]]_vars
=============================================================================
