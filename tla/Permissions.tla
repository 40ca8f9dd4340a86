---------------------------- MODULE Permissions ----------------------------
(***************************************************************************)
(* contracts/permissions/contracts/Permissions.sol: which address may act  *)
(* for which organization (its primary), and what the organization may do. *)
(*                                                                         *)
(* A call is an action with msg.sender as its first parameter; a require   *)
(* that does not hold reverts the transaction, and no state changes.       *)
(* Left out: the initializer and the events.                               *)
(***************************************************************************)
CONSTANTS
  Address,   \* addresses
  Zero,      \* address(0): no address
  Deployer,  \* the address that deployed the contract
  Scope      \* names of scopes

ASSUME AddressAssumption == Zero \notin Address /\ Deployer \in Address

VARIABLES
  VNF,                     \* the network's own address
  addressToPermissions,    \* the scopes of each address
  primaryToPermissioning,  \* who names a primary's operators
  primaryToRotation,       \* who replaces those two keys
  operatorToPrimary,       \* for whom an address acts
  primaries                \* every address addPrimary was called with

permissions == <<VNF, addressToPermissions, primaryToPermissioning,
                 primaryToRotation, operatorToPrimary, primaries>>

PermissionsInit ==
  /\ VNF = Deployer
  /\ addressToPermissions = [a \in Address |-> {}]
  /\ primaryToPermissioning = [a \in Address |-> Zero]
  /\ primaryToRotation = [a \in Address |-> Zero]
  /\ operatorToPrimary = [a \in Address |-> Zero]
  /\ primaries = {}

OnlyVnf(sender) == sender = VNF
OnlyRotation(sender, primary) == sender = primaryToRotation[primary]
OnlyPermissions(sender, primary) == sender = primaryToPermissioning[primary]

rotateVNF(sender, addr) ==
  /\ OnlyVnf(sender)
  /\ VNF' = addr
  /\ UNCHANGED <<addressToPermissions, primaryToPermissioning, primaryToRotation,
                 operatorToPrimary, primaries>>

\* addAddressScope and removeAddressScope are this with one scope.
updateAddressScopes(sender, addr, scopesToAdd, scopesToRemove) ==
  /\ OnlyVnf(sender)
  /\ addressToPermissions' = [addressToPermissions EXCEPT ![addr] =
                                (@ \cup scopesToAdd) \ scopesToRemove]
  /\ UNCHANGED <<VNF, primaryToPermissioning, primaryToRotation,
                 operatorToPrimary, primaries>>

AddPrimaryUnlisted(sender, primary, permissioning, rotation) ==   \* mutant: no push
  /\ OnlyVnf(sender)
  /\ primaryToPermissioning' = [primaryToPermissioning EXCEPT ![primary] = permissioning]
  /\ primaryToRotation' = [primaryToRotation EXCEPT ![primary] = rotation]
  /\ UNCHANGED <<VNF, addressToPermissions, operatorToPrimary, primaries>>

addPrimary(sender, primary, permissioning, rotation) ==
  /\ OnlyVnf(sender)
  /\ primaryToPermissioning' = [primaryToPermissioning EXCEPT ![primary] = permissioning]
  /\ primaryToRotation' = [primaryToRotation EXCEPT ![primary] = rotation]
  /\ primaries' = primaries \cup {primary}
  /\ UNCHANGED <<VNF, addressToPermissions, operatorToPrimary>>

rotatePermissioning(sender, primary, newPermissioning, newRotation) ==
  /\ OnlyRotation(sender, primary)
  /\ primaryToPermissioning' = [primaryToPermissioning EXCEPT ![primary] = newPermissioning]
  /\ primaryToRotation' = [primaryToRotation EXCEPT ![primary] = newRotation]
  /\ UNCHANGED <<VNF, addressToPermissions, operatorToPrimary, primaries>>

\* The operators the primary's permissioning key removes, then adds.
ChangeOperators(sender, primary, removed, added) ==
  /\ OnlyPermissions(sender, primary)
  /\ \A o \in added \ removed : operatorToPrimary[o] = Zero
  /\ operatorToPrimary' = [o \in Address |-> IF o \in added THEN primary
                                             ELSE IF o \in removed THEN Zero
                                             ELSE operatorToPrimary[o]]
  /\ UNCHANGED <<VNF, addressToPermissions, primaryToPermissioning,
                 primaryToRotation, primaries>>

addOperatorKey(sender, primary, operator) ==
  ChangeOperators(sender, primary, {}, {operator})
removeOperatorKey(sender, primary, operator) ==
  ChangeOperators(sender, primary, {operator}, {})
rotateOperatorKey(sender, primary, newOperator, oldOperator) ==
  ChangeOperators(sender, primary, {oldOperator}, {newOperator})

\* checkOperator, checkOperatorWithScope and checkOperatorPermission do not revert.
HasScope(addr, scope) == scope \in addressToPermissions[addr]
MayWrite(operator) ==
  /\ operatorToPrimary[operator] # Zero
  /\ HasScope(operatorToPrimary[operator], "transactions:write")
HasPermission(operator, permission) ==
  MayWrite(operator) /\ HasScope(operatorToPrimary[operator], permission)

PermissionsNext ==
  \E sender, a, b, c \in Address :
    \/ rotateVNF(sender, a)
    \/ \E add, remove \in SUBSET Scope : updateAddressScopes(sender, a, add, remove)
    \/ addPrimary(sender, a, b, c)
    \/ rotatePermissioning(sender, a, b, c)
    \/ addOperatorKey(sender, a, b)
    \/ removeOperatorKey(sender, a, b)
    \/ rotateOperatorKey(sender, a, b, c)

PermissionsSpec == PermissionsInit /\ [][PermissionsNext]_permissions

\* Every variable has values of its type.
PermissionsTypeOK ==
  /\ VNF \in Address
  /\ addressToPermissions \in [Address -> SUBSET Scope]
  /\ primaryToPermissioning \in [Address -> Address \cup {Zero}]
  /\ primaryToRotation \in [Address -> Address \cup {Zero}]
  /\ operatorToPrimary \in [Address -> Address \cup {Zero}]
  /\ primaries \subseteq Address

\* An address that acts for another one, or may name those that do, does it for a
\* primary the VNF added.  operatorToPrimary, the two keys' tables and primaries are
\* written by different callers, and checkOperator looks at the first only.
OperatorsHavePrimaries ==
  \A a \in Address :
    /\ operatorToPrimary[a] # Zero => operatorToPrimary[a] \in primaries
    /\ primaryToPermissioning[a] # Zero => a \in primaries
    /\ primaryToRotation[a] # Zero => a \in primaries
=============================================================================
