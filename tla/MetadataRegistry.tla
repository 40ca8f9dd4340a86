-------------------------- MODULE MetadataRegistry --------------------------
(***************************************************************************)
(* contracts/metadata-registry/contracts/MetadataRegistry.sol: the lists   *)
(* of credential metadata of each primary, who may read an entry for a     *)
(* coupon, and resolveContractEntries of packages/metadata-registration,   *)
(* which reads whether the types are free first and the entries then.      *)
(* With it: the coupons and the permissions it asks.                       *)
(*                                                                         *)
(* The operator of a signed call is the one recovered from the signature;  *)
(* anyone may send it.  Left out: the fields of a list, which are set with *)
(* it, the addresses of the other contracts, which are set once, and the   *)
(* events.                                                                 *)
(***************************************************************************)
EXTENDS VerificationCoupon

CONSTANTS
  Registry,          \* this contract's address, msg.sender of Coupon.burn
  ListId, Index,     \* the lists, and the indexes below 10000
  CredentialType,
  FreeTypes,         \* those the contract is initialized with
  PermissionOfType,  \* getPermissionOfCredentialTypeHash
  PublicKey,         \* encrypted public keys
  Primary, Operator, \* the primary and the operator of this network
  Reader,            \* calls of resolveContractEntries
  QuantityOf,        \* bound: the coupons of each bundle
  MaxChanges         \* bound: calls of the VNF and of the permissioning key

ASSUME RegistryAssumption ==
  /\ Registry \in Address /\ Primary \in Address /\ Operator \in Address
  /\ PermissionOfType \in [CredentialType -> Scope]
  /\ {"transactions:write", "credential:issue", "coupon:burn"} \subseteq Scope
  /\ FreeTypes \subseteq CredentialType
  /\ QuantityOf \in [Token -> 1..MaxQuantity]
  /\ MaxChanges \in Nat

Identifier == Address \X ListId \X Index
Entry == [credentialType : CredentialType, encryptedPublicKey : PublicKey]

VARIABLES
  lists,                \* the lists of each address in use
  entries,              \* indexUsed: at most one entry for an identifier
  freeCredentialTypes,
  reader,               \* where each call is, and the identifiers it reads
  changes

registry == <<lists, entries, freeCredentialTypes>>
vars == <<permissions, coupons, registry, reader, changes>>

NoReader == [stage |-> "idle", wanted |-> {}, answer |-> {}]

\* A network with one organization, as the registrar and the VNF set it up.
Init ==
  /\ VNF = Deployer
  /\ addressToPermissions = [a \in Address |->
       CASE a \in {Registry, Deployer} -> {"coupon:burn"}
         [] a = Primary -> {"transactions:write", "credential:issue"}
         [] OTHER -> {}]
  /\ primaryToPermissioning = [a \in Address |-> IF a = Primary THEN Primary ELSE Zero]
  /\ primaryToRotation = [a \in Address |-> IF a = Primary THEN Primary ELSE Zero]
  /\ operatorToPrimary = [a \in Address |-> IF a = Operator THEN Primary ELSE Zero]
  /\ primaries = {Primary}
  /\ CouponsInit
  /\ lists = [a \in Address |-> {}]
  /\ entries = [e \in Identifier |-> {}]
  /\ freeCredentialTypes = FreeTypes
  /\ reader = [r \in Reader |-> NoReader]
  /\ changes = 0

-----------------------------------------------------------------------------
newMetadataList(operator, listId) ==
  LET primary == operatorToPrimary[operator] IN
  /\ MayWrite(operator)
  /\ listId \notin lists[primary]
  /\ lists' = [lists EXCEPT ![primary] = @ \cup {listId}]
  /\ UNCHANGED <<permissions, coupons, entries, freeCredentialTypes, reader, changes>>

setEntry(operator, listId, index, entry) ==
  LET primary == operatorToPrimary[operator]
      id == <<primary, listId, index>> IN
  /\ HasPermission(operator, PermissionOfType[entry.credentialType])
  /\ entries[id] = {}
  /\ listId \in lists[primary]
  /\ entries' = [entries EXCEPT ![id] = {entry}]
  /\ UNCHANGED <<permissions, coupons, lists, freeCredentialTypes, reader, changes>>

\* addFreeTypes and removeFreeTypes, by the VNF of the coupons.
SetFreeTypes(sender, types) ==
  /\ sender = Deployer
  /\ changes < MaxChanges
  /\ freeCredentialTypes' = types
  /\ changes' = changes + 1
  /\ UNCHANGED <<permissions, coupons, lists, entries, reader>>

EntriesUsed(wanted) == \A id \in wanted : entries[id] # {} /\ id[2] \in lists[id[1]]
TypesOf(wanted) == {entry.credentialType : entry \in UNION {entries[id] : id \in wanted}}
IsFree(wanted) == TypesOf(wanted) \subseteq freeCredentialTypes

GetAnyEntries(wanted) ==   \* mutant: isFreeGetEntries not required
  EntriesUsed(wanted) /\ UNCHANGED coupons

\* getFreeEntries is a call: nothing is paid and no state changes.
getFreeEntries(wanted) == EntriesUsed(wanted) /\ IsFree(wanted) /\ UNCHANGED coupons

\* The operator's primary has a coupon to burn.
CanPay(operator) ==
  /\ MayWrite(operator)
  /\ LET primary == operatorToPrimary[operator] IN
       Available(primary) # {} /\ balances[getTokenId(primary)][primary] > 0

getPaidEntries(operator, wanted) ==
  /\ EntriesUsed(wanted)
  /\ ~ IsFree(wanted)
  /\ CanPay(operator)
  /\ burn(Registry, getTokenId(operatorToPrimary[operator]), operator)

\* resolveContractEntries begins: are the types of the credentials free?  The
\* credentials are those of the entries.
CheckFree(r, wanted) ==
  /\ reader[r].stage = "idle"
  /\ EntriesUsed(wanted)
  /\ reader' = [reader EXCEPT ![r] =
       [stage |-> IF IsFree(wanted) THEN "free" ELSE "paid",
        wanted |-> wanted, answer |-> {}]]
  /\ UNCHANGED <<permissions, coupons, registry, changes>>

Answer(r, answer) ==
  /\ reader' = [reader EXCEPT ![r] =
       [stage |-> "done", wanted |-> @.wanted, answer |-> answer]]
  /\ UNCHANGED <<permissions, registry, changes>>

\* And reads the entries, free or for a coupon.
ReadEntries(r) ==
  /\ \/ reader[r].stage = "free" /\ getFreeEntries(reader[r].wanted)
     \/ reader[r].stage = "paid" /\ getPaidEntries(Operator, reader[r].wanted)
  /\ Answer(r, UNION {entries[id] : id \in reader[r].wanted})

\* A call that reverts: the free types have changed, the operator may not, or has no coupon.
ReadReverts(r) ==
  /\ \/ reader[r].stage = "free" /\ ~ IsFree(reader[r].wanted)
     \/ reader[r].stage = "paid" /\ (IsFree(reader[r].wanted) \/ ~ CanPay(Operator))
  /\ Answer(r, {})
  /\ UNCHANGED coupons

\* Whoever has coupon:burn may burn a coupon of a primary directly.
BurnDirectly(sender, t, operator) ==
  /\ operatorToPrimary[operator] # Zero
  /\ burn(sender, t, operator)
  /\ UNCHANGED <<permissions, registry, reader, changes>>

MintOrTransfer ==
  /\ \/ /\ tokenIdTracker \in Token
        /\ \E expires \in 1..MaxTime :
             mint(Deployer, Primary, expires, QuantityOf[tokenIdTracker])
     \/ \E t \in Token : safeTransferFrom(Primary, Deployer, t)
     \/ Tick
  /\ UNCHANGED <<permissions, registry, reader, changes>>

\* The VNF and the permissioning key change what the operator may do.
ChangePermissions ==
  /\ changes < MaxChanges
  /\ changes' = changes + 1
  /\ \/ \E s \in Scope : updateAddressScopes(Deployer, Primary, {}, {s})
     \/ \E s \in Scope : updateAddressScopes(Deployer, Primary, {s}, {})
     \/ addOperatorKey(Primary, Primary, Deployer)
     \/ removeOperatorKey(Primary, Primary, Operator)
     \/ rotateOperatorKey(Primary, Primary, Deployer, Operator)
     \/ addPrimary(Deployer, Deployer, Deployer, Deployer)
     \/ rotatePermissioning(Primary, Primary, Deployer, Deployer)
     \/ rotateVNF(Deployer, Registry)
  /\ UNCHANGED <<coupons, registry, reader>>

Next ==
  \/ \E o \in Address :
       /\ operatorToPrimary[o] # Zero
       /\ \E l \in ListId :
            \/ newMetadataList(o, l)
            \/ \E i \in Index, e \in Entry : setEntry(o, l, i, e)
  \/ \E types \in SUBSET CredentialType : SetFreeTypes(Deployer, types)
  \/ \E r \in Reader :
       \/ \E wanted \in SUBSET {id \in Identifier : entries[id] # {}} \ {{}} :
            CheckFree(r, wanted)
       \/ ReadEntries(r) \/ ReadReverts(r)
  \/ \E t \in Token, o \in Address : BurnDirectly(Deployer, t, o)
  \/ MintOrTransfer
  \/ ChangePermissions

Spec == Init /\ [][Next]_vars

-----------------------------------------------------------------------------
TypeOK ==
  /\ PermissionsTypeOK
  /\ CouponsTypeOK
  /\ lists \in [Address -> SUBSET ListId]
  /\ entries \in [Identifier -> SUBSET Entry]
  /\ freeCredentialTypes \subseteq CredentialType
  /\ \A r \in Reader : reader[r].stage \in {"idle", "free", "paid", "done"}
  /\ changes \in 0..MaxChanges

\* Entries of a type that is not free when they are read are read for one coupon,
\* and free ones for none, whatever the caller found when it asked: the answer of
\* isFreeCredentialTypeList may be out of date when the entries are read.
ReadsArePaid ==
  [][\A r \in Reader :
       reader[r].stage # "done" /\ reader'[r].stage = "done" /\ reader'[r].answer # {}
         => IF IsFree(reader[r].wanted)
              THEN spendings' = spendings
              ELSE \E t \in Token :
                     /\ Len(spendings'[t]) = Len(spendings[t]) + 1
                     /\ \A u \in Token \ {t} : spendings'[u] = spendings[u]]_vars

\* Two reads of the same identifiers, however far apart, give the same entries.
ReadsAgree ==
  \A q, r \in Reader :
    (reader[q].answer # {} /\ reader[r].answer # {} /\ reader[q].wanted = reader[r].wanted)
      => reader[q].answer = reader[r].answer
=============================================================================
